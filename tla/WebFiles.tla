------------------------------ MODULE WebFiles ------------------------------
(***************************************************************************)
(* The file transfers of the web client (web/file-transfer.ts): a queue of  *)
(* uploads and one of downloads, the transfers that are active, and a       *)
(* download's chunks.  A step is a turn of the event loop.                  *)
(*                                                                          *)
(* An upload hashes its file and then fails: its metadata holds 64-bit      *)
(* integers, which JSON.stringify refuses.  So nothing of an upload is ever *)
(* sent, and its chunks are not modelled.  The server sends the chunks of a *)
(* file in any order, once or more, and may number one wrongly.             *)
(***************************************************************************)
EXTENDS Integers, Sequences, FiniteSets

CONSTANTS Uploads, Downloads,     \* the transfers the page may ask for
          MaxActive,              \* MAX_CONCURRENT_UPLOADS, _DOWNLOADS (3)
          FileChunks              \* chunks of a file

ASSUME WfAssumption == /\ Uploads \cap Downloads = {}
                       /\ MaxActive \in Nat \ {0} /\ FileChunks \in Nat \ {0}

VARIABLES queue, active,          \* per kind
          pc,                     \* how far start() of a transfer has come
          status,
          totalChunks, received,  \* of a download
          saved                   \* the chunks of the file that was saved

wfvars == <<queue, active, pc, status, totalChunks, received, saved>>

Kinds == {"upload", "download"}
AllFiles == Uploads \cup Downloads
KindOf(t) == IF t \in Uploads THEN "upload" ELSE "download"
Indices == 0..FileChunks
Unsaved == {-1}

WfInit ==
    /\ queue = [k \in Kinds |-> <<>>] /\ active = [k \in Kinds |-> {}]
    /\ pc = [t \in AllFiles |-> "none"] /\ status = [t \in AllFiles |-> "PENDING"]
    /\ totalChunks = [t \in Downloads |-> 0] /\ received = [t \in Downloads |-> {}]
    /\ saved = [t \in Downloads |-> Unsaved]

FirstStep(k) == IF k = "upload" THEN "hashing" ELSE "requesting"

(* processUploadQueue, processDownloadQueue, with the first part of start():
   the queue is q and a holds the active transfers of kind k.  Transfer t,
   which is the cause, is left at p with status s unless it is started. *)
ProcessQueue(k, q, a, t, p, s) ==
    LET free == MaxActive - Cardinality(a)
        n == IF Len(q) < free THEN Len(q) ELSE free
        started == {q[i] : i \in 1..n}
    IN  /\ queue' = [queue EXCEPT ![k] = SubSeq(q, n + 1, Len(q))]
        /\ active' = [active EXCEPT ![k] = a \cup started]
        /\ pc' = [u \in AllFiles |-> IF u \in started THEN FirstStep(k) ELSE IF u = t THEN p ELSE pc[u]]
        /\ status' = [u \in AllFiles |-> IF u \in started THEN "PREPARING"
                                         ELSE IF u = t THEN s ELSE status[u]]

(* uploadFile, downloadFile *)
AskTransfer(t) ==
    /\ pc[t] = "none"
    /\ ProcessQueue(KindOf(t), Append(queue[KindOf(t)], t), active[KindOf(t)], t, "queued", "PENDING")
    /\ UNCHANGED <<totalChunks, received, saved>>

(* Mutation variant: the queue is not looked at when a transfer fails. *)
EndsIdle(t, s) ==
    /\ active' = [active EXCEPT ![KindOf(t)] = @ \ {t}]
    /\ pc' = [pc EXCEPT ![t] = "ended"] /\ status' = [status EXCEPT ![t] = s]
    /\ UNCHANGED queue

(* start() settles: the transfer leaves the active ones and the queue is
   looked at, whether it was cancelled meanwhile or not. *)
Ends(t, s) ==
    ProcessQueue(KindOf(t), queue[KindOf(t)], active[KindOf(t)] \ {t}, t, "ended", s)

UploadFails(t) ==
    /\ pc[t] = "hashing"
    /\ Ends(t, "FAILED")
    /\ UNCHANGED <<totalChunks, received, saved>>

(* requestDownload: its request is answered, or fails. *)
RequestAnswered(t) ==
    /\ pc[t] = "requesting"
    /\ pc' = [pc EXCEPT ![t] = "transferring"]
    /\ status' = [status EXCEPT ![t] = "TRANSFERRING"]
    /\ UNCHANGED <<queue, active, totalChunks, received, saved>>

RequestFails(t) ==
    /\ pc[t] = "requesting"
    /\ Ends(t, "FAILED")
    /\ UNCHANGED <<totalChunks, received, saved>>

(* handleDownloadResponse *)
DownloadResponse(t) ==
    /\ t \in active["download"]
    /\ totalChunks' = [totalChunks EXCEPT ![t] = FileChunks]
    /\ UNCHANGED <<queue, active, pc, status, received, saved>>

(* handleDownloadChunk; the chunk says how many there are. *)
DownloadChunk(t, i) ==
    /\ t \in active["download"]
    /\ received' = [received EXCEPT ![t] = @ \cup {i}]
    /\ totalChunks' = [totalChunks EXCEPT ![t] = IF @ = 0 THEN FileChunks ELSE @]
    /\ UNCHANGED <<queue, active, pc, status, saved>>

DownloadIsComplete(t) == Cardinality(received[t]) = totalChunks[t] /\ totalChunks[t] > 0

(* The check every 100 ms, and assembleFile: every chunk by its number. *)
HasAllChunks(t) == 0..(totalChunks[t] - 1) \subseteq received[t]

DownloadCompletes(t) ==
    /\ pc[t] = "transferring" /\ DownloadIsComplete(t) /\ HasAllChunks(t)
    /\ saved' = [saved EXCEPT ![t] = received[t]]
    /\ Ends(t, "COMPLETED")
    /\ UNCHANGED <<totalChunks, received>>

MissingChunk(t) ==
    /\ pc[t] = "transferring" /\ DownloadIsComplete(t) /\ ~HasAllChunks(t)
    /\ Ends(t, "FAILED")
    /\ UNCHANGED <<totalChunks, received, saved>>

DownloadTimeout(t) ==
    /\ pc[t] = "transferring"
    /\ Ends(t, "FAILED")
    /\ UNCHANGED <<totalChunks, received, saved>>

(* pauseTransfer, resumeTransfer *)
Pause(t) ==
    /\ t \in active[KindOf(t)]
    /\ status' = [status EXCEPT ![t] = "PAUSED"]
    /\ UNCHANGED <<queue, active, pc, totalChunks, received, saved>>

Resume(t) ==
    /\ t \in active[KindOf(t)]
    /\ status' = [status EXCEPT ![t] = "TRANSFERRING"]
    /\ UNCHANGED <<queue, active, pc, totalChunks, received, saved>>

(* cancelTransfer: an active transfer gives its slot up at once, but start()
   goes on; the queue is not looked at.  A queued one, of which there is one
   entry, is spliced out. *)
Cancel(t) ==
    LET k == KindOf(t) IN
    /\ IF t \in active[k]
       THEN /\ active' = [active EXCEPT ![k] = @ \ {t}]
            /\ status' = [status EXCEPT ![t] = "CANCELLED"]
            /\ UNCHANGED <<queue, pc>>
       ELSE /\ pc[t] = "queued"
            /\ \E i \in 1..Len(queue[k]) :
                 /\ queue[k][i] = t
                 /\ queue' = [queue EXCEPT ![k] = SubSeq(@, 1, i - 1) \o SubSeq(@, i + 1, Len(@))]
            /\ pc' = [pc EXCEPT ![t] = "ended"]
            /\ UNCHANGED <<active, status>>
    /\ UNCHANGED <<totalChunks, received, saved>>

WfNext ==
    \E t \in AllFiles :
      \/ AskTransfer(t) \/ Pause(t) \/ Resume(t) \/ Cancel(t) \/ UploadFails(t)
      \/ RequestAnswered(t) \/ RequestFails(t) \/ DownloadResponse(t)
      \/ DownloadTimeout(t)
      \/ t \in Downloads /\ (DownloadCompletes(t) \/ MissingChunk(t) \/ \E i \in Indices : DownloadChunk(t, i))

WfSpec == WfInit /\ [][WfNext]_wfvars

-----------------------------------------------------------------------------
(* Properties *)

(* As long as a transfer is queued, one of its kind is running whose end will
   look at the queue: no transfer is stranded, although cancelling gives a
   slot up without starting the next (file-transfer.ts:143-171, 198-233).
   And no more than MaxActive hold a slot. *)
NoneStranded ==
    \A k \in Kinds :
      /\ Cardinality(active[k]) <= MaxActive
      /\ queue[k] # <<>> =>
           \E t \in AllFiles : KindOf(t) = k /\ pc[t] \notin {"none", "queued", "ended"}
=============================================================================
