---------------------------- MODULE FileTransfer ----------------------------
(***************************************************************************)
(* The file transfer module of the server (server/src/file_transfer.c):    *)
(* user threads start transfers, move chunks, complete and remove them,    *)
(* while the manager thread walks the active sessions under                *)
(* sessions_mutex.                                                         *)
(*                                                                         *)
(* A session has ONE pair of links, next and prev, for its hash chain and  *)
(* for the manager's list it is on; the links are therefore modelled as    *)
(* pointers.  A file is the set of chunks that are in place in it, and     *)
(* chunks may be damaged on the way.  bytes_transferred counts chunks.     *)
(* Left out: exhaustion of memory, speeds and times.  Status TRANSFERRING  *)
(* is set only behind the second lock of a session's mutex                 *)
(* (ProcessPending), so no session is ever in it.                          *)
(***************************************************************************)
EXTENDS Integers, FiniteSets

CONSTANTS FtUsers,       \* threads that call the module
          Sessions,      \* the transfers they may start, numbered in order
          Buckets,       \* of the hash table
          Bucket,        \* the hash of each session's transfer_id
          Chunks,        \* chunk indices of a file
          FtNull

ASSUME FtAssumption ==
    /\ IsFiniteSet(Sessions) /\ Sessions \subseteq Nat /\ FtNull \notin Sessions
    /\ IsFiniteSet(Chunks) /\ Chunks # {} /\ Bucket \in [Sessions -> Buckets]
    /\ {"active", "completed"} \cap Buckets = {}

VARIABLES links,      \* next, prev, and the heads of all lists
          sstatus,    \* session->status; "none" before, "freed" after
          sfile,      \* kind, temporary file, destination and counters
          running,    \* manager->running
          mpc, mcur,  \* where the manager is, and its current session
          upc, usess, \* where each user is, and with which session
          ftfault     \* a freed session was used

ftvars == <<links, sstatus, sfile, running, mpc, mcur, upc, usess, ftfault>>

Heads == {"active", "completed"} \cup Buckets
NoFile == [kind |-> "none", temp |-> FALSE, good |-> {}, bytes |-> 0,
           checksum |-> FALSE, dest |-> "original", successes |-> 0, asked |-> 0]

FtInit ==
    /\ links = [next |-> [s \in Sessions |-> FtNull], prev |-> [s \in Sessions |-> FtNull],
                head |-> [h \in Heads |-> FtNull]]
    /\ sstatus = [s \in Sessions |-> "none"]
    /\ sfile = [s \in Sessions |-> NoFile]
    /\ running = FALSE /\ mpc = "none" /\ mcur = FtNull
    /\ upc = [u \in FtUsers |-> "idle"] /\ usess = [u \in FtUsers |-> FtNull]
    /\ ftfault = FALSE

Freed == {s \in Sessions : sstatus[s] = "freed"}

(* sessions_mutex is free: the manager holds it during its two walks. *)
SessionsUnlocked == mpc \notin {"walk", "stuck", "sweep"}

CleaningUp == mpc \in {"drain_active", "drain_completed", "gone"}

-----------------------------------------------------------------------------
(* The links *)

(* What a walk along next from the head h comes to, step by step. *)
Walk(L, h) ==
    LET N == Cardinality(Sessions)
        f[n \in 0..N] == IF n = 0 THEN L.head[h]
                         ELSE IF f[n - 1] = FtNull THEN FtNull ELSE L.next[f[n - 1]]
    IN  f

(* ft_find_in_session_map and the searches of ft_remove_session. *)
Found(L, h, s) == \E n \in 0..Cardinality(Sessions) : Walk(L, h)[n] = s
Visited(L, h, s) ==
    {Walk(L, h)[n] : n \in {k \in 0..Cardinality(Sessions) :
                              \A m \in 0..(k - 1) : Walk(L, h)[m] # s}} \ {FtNull}

Push(L, s, h) ==
    LET first == L.head[h]
        L1 == [L EXCEPT !.next[s] = first, !.prev[s] = FtNull, !.head[h] = s]
    IN  IF first = FtNull THEN L1 ELSE [L1 EXCEPT !.prev[first] = s]

(* Every removal: by prev and next, whichever list last wrote them. *)
Detach(L, s, h) ==
    LET p == L.prev[s]
        n == L.next[s]
        L1 == IF p = FtNull THEN [L EXCEPT !.head[h] = n] ELSE [L EXCEPT !.next[p] = n]
    IN  IF n = FtNull THEN L1 ELSE [L1 EXCEPT !.prev[n] = p]

(* ft_remove_from_session_map *)
MapRemove(L, s) == IF Found(L, Bucket[s], s) THEN Detach(L, s, Bucket[s]) ELSE L
MapTouches(L, s) ==
    Visited(L, Bucket[s], s)
        \cup (IF Found(L, Bucket[s], s) THEN {L.prev[s], L.next[s]} \ {FtNull} ELSE {})

Touch(S) == ftfault' = (S \cap Freed # {})

-----------------------------------------------------------------------------
(* Starting a transfer *)

UserAt(u, where) == ~ftfault /\ ~CleaningUp /\ upc[u] = where
Goto(u, where) == upc' = [upc EXCEPT ![u] = where]
Return(u) == Goto(u, "idle") /\ usess' = [usess EXCEPT ![u] = FtNull]

(* ft_start_upload and ft_start_download up to ft_add_to_session_map, which
   takes no lock. *)
Start(u, s, kind) ==
    /\ UserAt(u, "idle") /\ sstatus[s] = "none"
    /\ \A r \in Sessions : r < s => sstatus[r] # "none"
    /\ sstatus' = [sstatus EXCEPT ![s] = "PENDING"]
    /\ sfile' = [sfile EXCEPT ![s].kind = kind]
    /\ Touch({links.head[Bucket[s]]})
    /\ links' = Push(links, s, Bucket[s])
    /\ Goto(u, "insert") /\ usess' = [usess EXCEPT ![u] = s]
    /\ UNCHANGED <<running, mpc, mcur>>

(* ... then the list of active sessions, under sessions_mutex. *)
Insert(u) ==
    /\ UserAt(u, "insert") /\ SessionsUnlocked
    /\ links' = Push(links, usess[u], "active")
    /\ Goto(u, "prepare")
    /\ UNCHANGED <<sstatus, sfile, running, mpc, mcur, usess, ftfault>>

(* ft_prepare_upload, ft_prepare_download: blocked while the manager hangs on
   the mutex of this session. *)
Prepare(u) ==
    LET s == usess[u] IN
    /\ UserAt(u, "prepare") /\ ~(mpc = "stuck" /\ mcur = s)
    /\ sfile' = [sfile EXCEPT ![s].temp = TRUE]
    /\ sstatus' = [sstatus EXCEPT ![s] = "PREPARING"]
    /\ IF sfile[s].kind = "upload" THEN Goto(u, "checksum") /\ UNCHANGED usess ELSE Return(u)
    /\ UNCHANGED <<links, running, mpc, mcur, ftfault>>

(* How often a removal was asked for; 2 is more than once. *)
AskedAgain(s) == IF sfile[s].asked = 0 THEN 1 ELSE 2

PrepareFails(u) ==
    LET s == usess[u] IN
    /\ UserAt(u, "prepare") /\ ~(mpc = "stuck" /\ mcur = s)
    /\ \E made \in BOOLEAN : sfile' = [sfile EXCEPT ![s].temp = made, ![s].asked = AskedAgain(s)]
    /\ Goto(u, "remove")
    /\ UNCHANGED <<links, sstatus, running, mpc, mcur, usess, ftfault>>

(* The checksum of the source; the start goes on without one. *)
RecordChecksum(u) ==
    /\ UserAt(u, "checksum")
    /\ \E got \in BOOLEAN : sfile' = [sfile EXCEPT ![usess[u]].checksum = got]
    /\ Return(u)
    /\ UNCHANGED <<links, sstatus, running, mpc, mcur, ftfault>>

-----------------------------------------------------------------------------
(* Calls on a started transfer *)

Starting(s) == \E u \in FtUsers : usess[u] = s
MayCall(u, s) ==
    UserAt(u, "idle") /\ sstatus[s] \notin {"none", "freed"} /\ ~Starting(s)
        /\ ~(mpc = "stuck" /\ mcur = s)

(* Mutation variant: nothing is verified. *)
VerifiedAlways(s) == TRUE

(* ft_verify_file_checksum on the temporary file. *)
Verified(s) == sfile[s].temp /\ sfile[s].good = Chunks

Counted(s) == sfile[s].bytes + 1
AfterChunk(s) == IF Counted(s) >= Cardinality(Chunks) THEN "VERIFYING" ELSE sstatus[s]

(* ft_write_chunk puts one chunk in its place. *)
Written(s, i) == [sfile[s] EXCEPT !.temp = TRUE, !.bytes = Counted(s), !.good = @ \cup {i}]

UploadChunk(u, s, i) ==
    /\ MayCall(u, s) /\ sstatus[s] = "PREPARING" /\ sfile[s].kind = "upload"
    /\ sfile' = [sfile EXCEPT ![s] = Written(s, i)]
    /\ sstatus' = [sstatus EXCEPT ![s] = AfterChunk(s)]
    /\ UNCHANGED <<links, running, mpc, mcur, upc, usess, ftfault>>

(* A failed write (I/O, decryption, decompression) is retried by the caller;
   the transfer fails when its retries are used up. *)
UploadChunkFails(u, s) ==
    /\ MayCall(u, s) /\ sstatus[s] = "PREPARING" /\ sfile[s].kind = "upload"
    /\ sstatus' = [sstatus EXCEPT ![s] = "FAILED"]
    /\ UNCHANGED <<links, sfile, running, mpc, mcur, upc, usess, ftfault>>

(* ft_download_chunk: ft_read_chunk reads the chunk from the source, hands it
   to the caller and keeps it in the temporary file; which chunks a download
   has is not told apart. *)
DownloadChunk(u, s) ==
    /\ MayCall(u, s) /\ sstatus[s] = "PREPARING" /\ sfile[s].kind = "download"
    /\ sfile' = [sfile EXCEPT ![s].temp = TRUE, ![s].bytes = Counted(s)]
    /\ sstatus' = [sstatus EXCEPT ![s] = AfterChunk(s)]
    /\ UNCHANGED <<links, running, mpc, mcur, upc, usess, ftfault>>

(* rename(temp_path, local_path) *)
Renamed(s) ==
    [sfile[s] EXCEPT !.temp = FALSE, !.dest = IF sfile[s].good = Chunks THEN "whole" ELSE "partial"]

(* ft_complete_upload asks for no status. *)
CompleteUpload(u, s) ==
    /\ MayCall(u, s) /\ sfile[s].kind = "upload"
    /\ sfile[s].checksum => Verified(s)
    /\ sfile[s].temp
    /\ sfile' = [sfile EXCEPT ![s] = Renamed(s)]
    /\ sstatus' = [sstatus EXCEPT ![s] = "COMPLETED"]
    /\ UNCHANGED <<links, running, mpc, mcur, upc, usess, ftfault>>

-----------------------------------------------------------------------------
(* Removing a transfer *)

CallRemove(u, s) ==
    /\ MayCall(u, s)
    /\ sfile' = [sfile EXCEPT ![s].asked = AskedAgain(s)]
    /\ Goto(u, "remove") /\ usess' = [usess EXCEPT ![u] = s]
    /\ UNCHANGED <<links, sstatus, running, mpc, mcur, ftfault>>

(* ft_remove_session under sessions_mutex: out of the map, then out of the
   list that a search finds it on; one that is found on none is kept. *)
RemoveSession(u) ==
    LET s == usess[u]
        known == Found(links, Bucket[s], s)
        L == Detach(links, s, Bucket[s])
        on == {h \in {"active", "completed"} : Found(L, h, s)}
    IN
    /\ UserAt(u, "remove") /\ SessionsUnlocked
    /\ Touch(MapTouches(links, s))
    /\ \/ /\ known /\ on # {}
          /\ links' = IF "active" \in on THEN Detach(L, s, "active") ELSE Detach(L, s, "completed")
          /\ Goto(u, "destroy") /\ UNCHANGED usess
       \/ known /\ on = {} /\ links' = L /\ Return(u)
       \/ ~known /\ UNCHANGED links /\ Return(u)
    /\ UNCHANGED <<sstatus, sfile, running, mpc, mcur>>

(* ft_destroy_session, with the links L at that point: the temporary file
   goes, and the session's memory with all that it says. *)
DestroySession(L, s) ==
    /\ sfile' = [sfile EXCEPT ![s] = [NoFile EXCEPT !.asked = sfile[s].asked]]
    /\ sstatus' = [sstatus EXCEPT ![s] = "freed"]
    /\ links' = [MapRemove(L, s) EXCEPT !.next[s] = FtNull, !.prev[s] = FtNull]

Destroy(u) ==
    LET s == usess[u] IN
    /\ UserAt(u, "destroy")
    /\ DestroySession(links, s)
    /\ Touch(MapTouches(links, s))
    /\ Return(u)
    /\ UNCHANGED <<running, mpc, mcur>>

-----------------------------------------------------------------------------
(* ft_start_manager, ft_stop_manager and the manager thread *)

StartManager ==
    /\ ~ftfault /\ ~running /\ mpc = "none"
    /\ running' = TRUE /\ mpc' = "loop"
    /\ UNCHANGED <<links, sstatus, sfile, mcur, upc, usess, ftfault>>

StopManager ==
    /\ ~ftfault /\ running
    /\ running' = FALSE
    /\ UNCHANGED <<links, sstatus, sfile, mpc, mcur, upc, usess, ftfault>>

ManagerAt(where) == ~ftfault /\ mpc = where

LoopTest ==
    /\ ManagerAt("loop")
    /\ \/ running /\ mpc' = "walk" /\ mcur' = links.head["active"]
       \/ ~running /\ mpc' = "none" /\ UNCHANGED mcur
    /\ UNCHANGED <<links, sstatus, sfile, running, upc, usess, ftfault>>

(* The loop over active_sessions ends; the lock is released. *)
WalkEnds ==
    /\ ManagerAt("walk") /\ (mcur = FtNull \/ ~running)
    /\ mpc' = "timeouts" /\ mcur' = FtNull
    /\ UNCHANGED <<links, sstatus, sfile, running, upc, usess, ftfault>>

Processing(s) == ManagerAt("walk") /\ running /\ mcur = s

(* ft_process_session holds session->mutex and calls ft_prepare_*, which
   takes it again: the manager hangs, with sessions_mutex. *)
ProcessPending(s) ==
    /\ Processing(s) /\ sstatus[s] = "PENDING"
    /\ mpc' = "stuck"
    /\ UNCHANGED <<links, sstatus, sfile, running, mcur, upc, usess, ftfault>>

ProcessNothing(s) ==
    /\ Processing(s) /\ sstatus[s] \in {"PREPARING", "FAILED"}
    /\ mcur' = links.next[s]
    /\ UNCHANGED <<links, sstatus, sfile, running, mpc, upc, usess, ftfault>>

(* Mutation variant: a session without a checksum is passed over. *)
ProcessVerifiedSummed(s) ==
    /\ Processing(s) /\ sstatus[s] = "VERIFYING"
    /\ sstatus' = IF sfile[s].checksum /\ Verified(s) THEN [sstatus EXCEPT ![s] = "COMPLETED"]
                                                     ELSE sstatus
    /\ mcur' = links.next[s]
    /\ UNCHANGED <<links, sfile, running, mpc, upc, usess, ftfault>>

ProcessVerified(s) ==
    /\ Processing(s) /\ sstatus[s] = "VERIFYING"
    /\ sfile[s].checksum => Verified(s)
    /\ sstatus' = [sstatus EXCEPT ![s] = "COMPLETED"]
    /\ mcur' = links.next[s]
    /\ UNCHANGED <<links, sfile, running, mpc, upc, usess, ftfault>>

(* The session stays COMPLETED, and active. *)
Deliver(s) ==
    /\ Processing(s) /\ sstatus[s] = "COMPLETED" /\ sfile[s].temp
    /\ sfile' = [sfile EXCEPT ![s] = [Renamed(s) EXCEPT !.successes = @ + 1]]
    /\ mcur' = links.next[s]
    /\ UNCHANGED <<links, sstatus, running, mpc, upc, usess, ftfault>>

(* Mutation variant: the session is left on the active list as well. *)
ProcessFailsInPlace(s) ==
    /\ Processing(s)
    /\ \/ sstatus[s] = "VERIFYING" /\ sfile[s].checksum /\ ~Verified(s)
       \/ sstatus[s] = "COMPLETED"
    /\ sstatus' = [sstatus EXCEPT ![s] = "FAILED"]
    /\ links' = Push(links, s, "completed")
    /\ mcur' = links.next[s]
    /\ UNCHANGED <<sfile, running, mpc, upc, usess, ftfault>>

(* A wrong checksum, or a rename that fails, as it does when the file has
   been moved already: the session moves to the completed ones. *)
ProcessFails(s) ==
    /\ Processing(s)
    /\ \/ sstatus[s] = "VERIFYING" /\ sfile[s].checksum /\ ~Verified(s)
       \/ sstatus[s] = "COMPLETED"
    /\ sstatus' = [sstatus EXCEPT ![s] = "FAILED"]
    /\ links' = Push(Detach(links, s, "active"), s, "completed")
    /\ mcur' = links.next[s]
    /\ UNCHANGED <<sfile, running, mpc, upc, usess, ftfault>>

(* ft_check_timeout, without sessions_mutex.  last_activity_time is renewed
   by every walk, so that only a session still PENDING can be late.  The walk
   is one step: a list that changes under it is not followed. *)
CheckTimeouts ==
    /\ ManagerAt("timeouts")
    /\ \E late \in SUBSET {s \in Sessions : Found(links, "active", s) /\ sstatus[s] = "PENDING"} :
         sstatus' = [s \in Sessions |-> IF s \in late THEN "FAILED" ELSE sstatus[s]]
    /\ mpc' = "sweep" /\ mcur' = links.head["completed"]
    /\ UNCHANGED <<links, sfile, running, upc, usess, ftfault>>

(* ft_cleanup_completed_sessions: a session completed an hour ago is destroyed. *)
Sweep(s, old) ==
    LET L == MapRemove(Detach(links, s, "completed"), s) IN
    /\ ManagerAt("sweep") /\ mcur = s
    /\ mcur' = links.next[s]
    /\ \/ ~old /\ UNCHANGED <<links, sstatus, sfile, ftfault>>
       \/ /\ old
          /\ DestroySession(L, s)
          /\ Touch(MapTouches(Detach(links, s, "completed"), s) \cup MapTouches(L, s))
    /\ UNCHANGED <<running, mpc, upc, usess>>

SweepEnds ==
    /\ ManagerAt("sweep") /\ mcur = FtNull
    /\ mpc' = "loop"
    /\ UNCHANGED <<links, sstatus, sfile, running, mcur, upc, usess, ftfault>>

-----------------------------------------------------------------------------
(* ft_cleanup: the manager thread has been joined; every session on its two
   lists is destroyed, then the table and the chunk files go. *)

Cleanup ==
    /\ ~ftfault /\ mpc = "none" /\ ~running
    /\ \A u \in FtUsers : upc[u] = "idle"
    /\ mpc' = "drain_active" /\ mcur' = links.head["active"]
    /\ UNCHANGED <<links, sstatus, sfile, running, upc, usess, ftfault>>

Drain(s) ==
    /\ mpc \in {"drain_active", "drain_completed"} /\ ManagerAt(mpc) /\ mcur = s
    /\ mcur' = links.next[s]
    /\ DestroySession(links, s)
    /\ Touch({s} \cup MapTouches(links, s))
    /\ UNCHANGED <<running, mpc, upc, usess>>

ActiveDrained ==
    /\ ManagerAt("drain_active") /\ mcur = FtNull
    /\ links' = [links EXCEPT !.head["active"] = FtNull]
    /\ mpc' = "drain_completed" /\ mcur' = links.head["completed"]
    /\ UNCHANGED <<sstatus, sfile, running, upc, usess, ftfault>>

CompletedDrained ==
    /\ ManagerAt("drain_completed") /\ mcur = FtNull
    /\ links' = [links EXCEPT !.head = [h \in Heads |-> FtNull]]
    /\ sfile' = [s \in Sessions |-> [sfile[s] EXCEPT !.temp = FALSE]]
    /\ mpc' = "gone"
    /\ UNCHANGED <<sstatus, running, mcur, upc, usess, ftfault>>

ManagerStep ==
    \/ LoopTest \/ WalkEnds \/ CheckTimeouts \/ SweepEnds
    \/ \E s \in Sessions :
         \/ ProcessPending(s) \/ ProcessNothing(s) \/ ProcessVerified(s)
         \/ Deliver(s) \/ ProcessFails(s)
         \/ \E old \in BOOLEAN : Sweep(s, old)

UserStep(u) ==
    Insert(u) \/ Prepare(u) \/ PrepareFails(u) \/ RecordChecksum(u) \/ RemoveSession(u) \/ Destroy(u)

FtNext ==
    \/ \E u \in FtUsers : UserStep(u)
    \/ \E u \in FtUsers, s \in Sessions :
         \/ \E kind \in {"upload", "download"} : Start(u, s, kind)
         \/ \E i \in Chunks : UploadChunk(u, s, i)
         \/ DownloadChunk(u, s)
         \/ UploadChunkFails(u, s)
         \/ CompleteUpload(u, s)
         \/ CallRemove(u, s)
    \/ StartManager
    \/ StopManager
    \/ ManagerStep
    \/ Cleanup
    \/ \E s \in Sessions : Drain(s)
    \/ ActiveDrained
    \/ CompletedDrained

(* The manager thread is scheduled. *)
FtFairness == WF_ftvars(ManagerStep)

FtSpec == FtInit /\ [][FtNext]_ftvars /\ FtFairness

-----------------------------------------------------------------------------
(* Properties *)

FtTypeOK ==
    /\ links.next \in [Sessions -> Sessions \cup {FtNull}]
    /\ links.prev \in [Sessions -> Sessions \cup {FtNull}]
    /\ links.head \in [Heads -> Sessions \cup {FtNull}]
    /\ sstatus \in [Sessions -> {"none", "PENDING", "PREPARING", "VERIFYING", "COMPLETED",
                                 "FAILED", "freed"}]
    /\ \A s \in Sessions :
         sfile[s] \in [kind : {"none", "upload", "download"}, temp : BOOLEAN, good : SUBSET Chunks,
                       bytes : 0..Cardinality(Chunks), checksum : BOOLEAN, dest : {"original", "whole", "partial"},
                       successes : Nat, asked : 0..2]
    /\ running \in BOOLEAN /\ ftfault \in BOOLEAN
    /\ mpc \in {"none", "loop", "walk", "stuck", "timeouts", "sweep", "drain_active",
                "drain_completed", "gone"}
    /\ mcur \in Sessions \cup {FtNull}
    /\ upc \in [FtUsers -> {"idle", "insert", "prepare", "checksum", "remove", "destroy"}]
    /\ usess \in [FtUsers -> Sessions \cup {FtNull}]

(* An upload whose source could be summed reaches its destination whole,
   although chunks arrive twice or not at all (bytes are counted, not chunks,
   line 935) and ft_complete_upload and the manager both move the file; and
   the manager, which finds a COMPLETED session again on every round, counts
   it as successful at most once (lines 693-702). *)
UploadsArriveOnce ==
    \A s \in Sessions :
        /\ sfile[s].kind = "upload" /\ sfile[s].checksum => sfile[s].dest # "partial"
        /\ sfile[s].successes <= 1

(* The hash map rewrites the links of the manager's lists (lines 308-354).
   Still, as long as no two transfers share a bucket and no removal is asked
   for twice: a transfer that nobody has asked to remove hangs on exactly one
   of the two lists, neither leads to a freed session, and ft_cleanup then
   frees all but the ones whose removal went wrong, and every temporary file.
   (A removal may leave the session in the map, with the links it had; a
   second one follows them and can tie the two lists together.) *)
BucketsApart == \A r, s \in Sessions : Bucket[r] = Bucket[s] => r = s
NoneRepeated == \A s \in Sessions : sfile[s].asked # 2
Listed(s) == {h \in {"active", "completed"} : Found(links, h, s)}
ListsSound ==
    BucketsApart /\ NoneRepeated /\ ~ftfault =>
      \A s \in Sessions :
        LET known == sstatus[s] \notin {"none", "freed"}
            inserting == \E u \in FtUsers : usess[u] = s /\ upc[u] = "insert"
        IN  /\ known /\ sfile[s].asked = 0 /\ ~inserting /\ ~CleaningUp => Cardinality(Listed(s)) = 1
            /\ sstatus[s] = "freed" /\ ~CleaningUp => Listed(s) = {}
            /\ mpc = "gone" => ~sfile[s].temp /\ (known => sfile[s].asked # 0)

(* A transfer whose bytes are all there is decided by the manager, unless it
   is removed, the manager stops or hangs on a pending session. *)
VerifyingEnds ==
    \A s \in Sessions :
        sstatus[s] = "VERIFYING"
            ~> (sstatus[s] # "VERIFYING" \/ sfile[s].asked # 0 \/ ~running \/ mpc = "stuck" \/ ftfault)
=============================================================================
