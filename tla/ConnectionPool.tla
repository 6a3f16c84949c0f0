--------------------------- MODULE ConnectionPool ---------------------------
(***************************************************************************)
(* Connections of the server (server/src/connection.c without the message  *)
(* queue): the pool of connection slots, and, for one connection, the      *)
(* framing of messages and the rate limiter.                               *)
(*                                                                         *)
(* A message is a header and, unless it is empty, a body; each is one cell *)
(* of the byte stream, and the reader is given the stream in pieces of any *)
(* length.  Time is the action WindowPasses.  Left out: TLS (ssl_send has  *)
(* the outcomes of plain_send), statistics, allocation failures other than *)
(* those of a new connection.                                              *)
(***************************************************************************)
EXTENDS Integers, Sequences, FiniteSets

CONSTANTS CpThreads,             \* threads that use the pool
          InitialCapacity,
          MaxIds,                \* bound on the connections added
          Senders,               \* threads that send on the connection
          MaxSends,              \* bound on the messages sent
          messages_per_minute,   \* of the rate limiter; 0 is no limit
          bytes_per_minute,
          HeaderSize, BodySize,  \* of every message that is not empty
          CpNull

ASSUME CpAssumption ==
    /\ InitialCapacity \in Nat \ {0} /\ MaxIds \in Nat /\ MaxSends \in Nat
    /\ messages_per_minute \in Nat /\ bytes_per_minute \in Nat
    /\ HeaderSize \in Nat \ {0} /\ BodySize \in Nat \ {0} /\ IsFiniteSet(Senders)

VARIABLES conns,       \* pool->connections: id and state of each slot
          count,       \* pool->count
          next_id,     \* pool->next_connection_id
          adding,      \* the slot connection_pool_add is making, or -1
          abandoned,   \* connections counted and given up by connection_close
          poolfault,   \* "none", "deadlock", "aborted", "freed"
          held,        \* per thread: the slot and id it looked up
          message_count, byte_count,
          spc, smsg,   \* per sender: where it is and its message
          written,     \* per sender: what its last write wrote
          sent,        \* messages begun
          wire,        \* cells on their way
          recv_buffer, got,
          torn         \* a frame was cut or interleaved on the wire

poolvars == <<conns, count, next_id, adding, abandoned, poolfault, held>>
framevars == <<message_count, byte_count, spc, smsg, written, sent, wire, recv_buffer, got, torn>>
cpvars == <<poolvars, framevars>>

Slot == 0..(InitialCapacity - 1)
NoPointer == [slot |-> 0, id |-> 0]

CpInit ==
    /\ conns = [i \in Slot |-> [id |-> 0, state |-> "free"]]
    /\ count = 0 /\ next_id = 1 /\ adding = -1 /\ abandoned = 0 /\ poolfault = "none"
    /\ held = [t \in CpThreads |-> NoPointer]
    /\ message_count = 0 /\ byte_count = 0
    /\ spc = [s \in Senders |-> "idle"] /\ smsg = [s \in Senders |-> CpNull]
    /\ written = [s \in Senders |-> 0]
    /\ sent = 0 /\ wire = <<>> /\ recv_buffer = <<>> /\ got = <<>> /\ torn = FALSE

-----------------------------------------------------------------------------
(* The pool *)

InUse(i) == conns[i].state # "free"
Occupied == {i \in Slot : InUse(i)}
Running == poolfault = "none"

FreeSlot == [id |-> 0, state |-> "free"]

(* connection_pool_add under pool->lock: allocate_connection takes the first
   free slot, and from then on the slot is found by lookups, which take another
   lock.  (The memset before shows id 0 and fd 0, which nobody asks for.) *)
Add ==
    /\ Running /\ adding = -1 /\ count < InitialCapacity /\ next_id <= MaxIds
    /\ \E i \in Slot :
         /\ ~InUse(i) /\ \A j \in Slot : j < i => InUse(j)
         /\ conns' = [conns EXCEPT ![i] = [id |-> next_id, state |-> "NEW"]]
         /\ adding' = i
    /\ next_id' = next_id + 1
    /\ UNCHANGED <<count, abandoned, poolfault, held>>

(* The connection is made and counted, even one that was closed meanwhile. *)
AddCounts ==
    /\ Running /\ adding # -1
    /\ count' = count + 1 /\ adding' = -1
    /\ abandoned' = IF InUse(adding) THEN abandoned ELSE abandoned + 1
    /\ UNCHANGED <<conns, next_id, poolfault, held>>

(* Mutation variant: the slot is cleared, but its fd is left 0. *)
AddFailsInUse ==
    /\ Running /\ adding # -1
    /\ conns' = [conns EXCEPT ![adding] = [id |-> 0, state |-> "NEW"]]
    /\ adding' = -1
    /\ UNCHANGED <<count, next_id, abandoned, poolfault, held>>

(* Its buffers, mutex or condition cannot be made: the slot is free again. *)
AddFails ==
    /\ Running /\ adding # -1
    /\ conns' = [conns EXCEPT ![adding] = FreeSlot]
    /\ adding' = -1
    /\ UNCHANGED <<count, next_id, abandoned, poolfault, held>>

(* At capacity, or without a free slot, it calls resize_connection_pool, which
   takes pool->lock again. *)
AddAtCapacity ==
    /\ Running /\ adding = -1 /\ next_id <= MaxIds
    /\ count >= InitialCapacity \/ Occupied = Slot
    /\ poolfault' = "deadlock"
    /\ UNCHANGED <<conns, count, next_id, adding, abandoned, held>>

(* connection_pool_get_by_id, _get_by_fd, _get_by_user under the read lock:
   the pointer that is returned names a slot, which may be half made. *)
Lookup(t, i) ==
    /\ Running /\ InUse(i)
    /\ held' = [held EXCEPT ![t] = [slot |-> i, id |-> conns[i].id]]
    /\ UNCHANGED <<conns, count, next_id, adding, abandoned, poolfault>>

Holds(t) == Running /\ held[t].id # 0

(* connection_set_user_info and connection_clear_user_info, by pointer: the
   state is set whatever it was, and whoever has the slot by now. *)
SetUser(t, state) ==
    LET i == held[t].slot IN
    /\ Holds(t) /\ InUse(i)
    /\ conns' = [conns EXCEPT ![i].state = state]
    /\ UNCHANGED <<count, next_id, adding, abandoned, poolfault, held>>

(* connection_close by pointer, as server_core and the message handler do:
   fd = -1 frees the slot, pool->count keeps it.  No lock is taken, so the
   slot may be the one an add has just begun. *)
Close(t) ==
    LET i == held[t].slot IN
    /\ Holds(t) /\ InUse(i)
    /\ conns' = [conns EXCEPT ![i] = FreeSlot]
    /\ abandoned' = IF i = adding THEN abandoned ELSE abandoned + 1
    /\ held' = [held EXCEPT ![t] = NoPointer]
    /\ UNCHANGED <<count, next_id, adding, poolfault>>

(* connection_pool_remove and connection_pool_cleanup_expired, under the lock,
   end in connection_destroy, which frees the slot's address: the block of all
   connections for slot 0, an invalid pointer, on which free aborts, for any
   other. *)
Remove(i) ==
    /\ Running /\ adding = -1 /\ InUse(i)
    /\ poolfault' = IF i = 0 THEN "freed" ELSE "aborted"
    /\ UNCHANGED <<conns, count, next_id, adding, abandoned, held>>

PoolNext ==
    /\ \/ Add \/ AddCounts \/ AddFails \/ AddAtCapacity
       \/ \E t \in CpThreads : Close(t) \/ \E state \in {"AUTHENTICATED", "NEW"} : SetUser(t, state)
       \/ \E i \in Slot : Remove(i) \/ \E t \in CpThreads : Lookup(t, i)
    /\ UNCHANGED framevars

-----------------------------------------------------------------------------
(* connection_send_message: two calls of connection_send, each of which asks
   the limiter, writes, and then counts; nothing locks the connection. *)

Size(s) == IF spc[s] = "header" THEN HeaderSize ELSE BodySize

(* connection_check_rate_limit *)
WithinLimit(s) ==
    /\ messages_per_minute > 0 => message_count < messages_per_minute
    /\ bytes_per_minute > 0 => byte_count + Size(s) <= bytes_per_minute

Cell(m, kind) == [msg |-> m, kind |-> kind]

Send(s, empty) ==
    /\ spc[s] = "idle" /\ sent < MaxSends
    /\ sent' = sent + 1
    /\ smsg' = [smsg EXCEPT ![s] = [n |-> sent + 1, empty |-> empty]]
    /\ spc' = [spc EXCEPT ![s] = "header"]
    /\ UNCHANGED <<message_count, byte_count, written, wire, recv_buffer, got, torn>>

GivesUp(s) == spc' = [spc EXCEPT ![s] = "idle"] /\ smsg' = [smsg EXCEPT ![s] = CpNull]

(* The limit strikes: before the header nothing was sent, before the body
   the frame stays cut. *)
SendRefused(s) ==
    /\ spc[s] \in {"header", "body"} /\ ~WithinLimit(s)
    /\ torn' = (torn \/ spc[s] = "body")
    /\ GivesUp(s)
    /\ UNCHANGED <<message_count, byte_count, written, sent, wire, recv_buffer, got>>

MidFrame(s) == \E r \in Senders \ {s} : spc[r] \in {"body", "counting_header"} /\ ~smsg[r].empty

SendCell(s) ==
    /\ spc[s] \in {"header", "body"} /\ WithinLimit(s)
    /\ wire' = Append(wire, Cell(smsg[s], spc[s]))
    /\ written' = [written EXCEPT ![s] = Size(s)]
    /\ torn' = (torn \/ MidFrame(s))
    /\ spc' = [spc EXCEPT ![s] = IF spc[s] = "header" THEN "counting_header" ELSE "counting_body"]
    /\ UNCHANGED <<message_count, byte_count, smsg, sent, recv_buffer, got>>

(* send fails after n bytes.  With EPIPE or ECONNRESET plain_send returns n,
   which is counted, with any other error -1; either way the message is given
   up, with a header and no body, or part of a cell, on the wire.  A part is
   put there as its cell: torn says that the stream is cut. *)
SendFails(s, n) ==
    /\ spc[s] \in {"header", "body"} /\ WithinLimit(s) /\ n < Size(s)
    /\ wire' = IF n > 0 THEN Append(wire, Cell(smsg[s], spc[s])) ELSE wire
    /\ torn' = (torn \/ n > 0 \/ spc[s] = "body")
    /\ \/ GivesUp(s) /\ UNCHANGED written
       \/ /\ n > 0
          /\ written' = [written EXCEPT ![s] = n]
          /\ spc' = [spc EXCEPT ![s] = "counting_part"] /\ UNCHANGED smsg
    /\ UNCHANGED <<message_count, byte_count, sent, recv_buffer, got>>

(* update_rate_limiter *)
CountCell(s) ==
    /\ spc[s] \in {"counting_header", "counting_body", "counting_part"}
    /\ message_count' = message_count + 1 /\ byte_count' = byte_count + written[s]
    /\ IF spc[s] = "counting_header" /\ ~smsg[s].empty
       THEN spc' = [spc EXCEPT ![s] = "body"] /\ UNCHANGED smsg
       ELSE GivesUp(s)
    /\ UNCHANGED <<written, sent, wire, recv_buffer, got, torn>>

(* A minute is over: check_rate_limit_reset, at the next test or count. *)
WindowPasses ==
    /\ message_count > 0
    /\ message_count' = 0 /\ byte_count' = 0
    /\ UNCHANGED <<spc, smsg, written, sent, wire, recv_buffer, got, torn>>

(* Mutation variant: the frames are cut one cell later. *)
FrameLengthOffByOne(buffer) == IF buffer[1].msg.empty THEN 2 ELSE 3

(* sizeof(message_header_t) + header.body_length, by the first cell. *)
FrameLength(buffer) == IF buffer[1].msg.empty THEN 1 ELSE 2

(* The loop of connection_process_data: whole frames leave the buffer; a
   frame is its header and whatever follows. *)
ProcessData(buffer) ==
    LET left[n \in 0..Len(buffer)] ==
            IF n = 0 THEN [rest |-> buffer, out |-> <<>>]
            ELSE LET l == left[n - 1]
                     whole == l.rest # <<>> /\ FrameLength(l.rest) <= Len(l.rest)
                 IN  IF ~whole THEN l
                     ELSE [rest |-> SubSeq(l.rest, FrameLength(l.rest) + 1, Len(l.rest)),
                           out |-> Append(l.out, SubSeq(l.rest, 1, FrameLength(l.rest)))]
    IN  left[Len(buffer)]

(* connection_receive hands over a piece of any length. *)
Receive(n) ==
    /\ n \in 1..Len(wire)
    /\ LET done == ProcessData(recv_buffer \o SubSeq(wire, 1, n))
       IN  recv_buffer' = done.rest /\ got' = got \o done.out
    /\ wire' = SubSeq(wire, n + 1, Len(wire))
    /\ UNCHANGED <<message_count, byte_count, spc, smsg, written, sent, torn>>

FrameNext ==
    /\ \/ \E s \in Senders :
            \/ \E empty \in BOOLEAN : Send(s, empty)
            \/ SendRefused(s) \/ SendCell(s) \/ CountCell(s)
            \/ \E n \in 0..(HeaderSize + BodySize) : SendFails(s, n)
       \/ WindowPasses
       \/ \E n \in 1..(2 * MaxSends) : Receive(n)
    /\ UNCHANGED poolvars

CpNext == PoolNext \/ FrameNext

CpSpec == CpInit /\ [][CpNext]_cpvars

-----------------------------------------------------------------------------
(* Properties *)

CpTypeOK ==
    /\ conns \in [Slot -> [id : 0..MaxIds, state : {"free", "NEW", "AUTHENTICATED"}]]
    /\ count \in 0..InitialCapacity /\ next_id \in 1..(MaxIds + 1) /\ abandoned \in 0..MaxIds
    /\ adding \in Slot \cup {-1}
    /\ poolfault \in {"none", "deadlock", "aborted", "freed"}
    /\ held \in [CpThreads -> [slot : Slot, id : 0..MaxIds]]
    /\ message_count \in Nat /\ byte_count \in Nat /\ written \in [Senders -> Nat] /\ sent \in 0..MaxSends /\ torn \in BOOLEAN
    /\ spc \in [Senders -> {"idle", "header", "counting_header", "body", "counting_body", "counting_part"}]
    /\ Len(wire) <= 2 * MaxSends /\ Len(recv_buffer) <= 2

(* pool->count is the connections in the pool and the ones connection_close
   gave up without counting them off, no two slots hold the same connection,
   and an add below capacity finds a slot and does not wait for itself, with
   lookups and closes by pointer at any moment of an add, one that fails
   included (lines 124-139, 180-262, 606-646). *)
PoolAccounts ==
    /\ count = Cardinality(Occupied \ {adding}) + abandoned
    /\ \A i, j \in Occupied : conns[i].id = conns[j].id => i = j
    /\ adding = -1 /\ count < InitialCapacity => Occupied # Slot

(* The reader finds the messages that were sent, each header with its own
   body and each once, however the stream is cut into pieces, as long as no
   frame was left unfinished (by the limiter between a header and its body, or
   by a write that failed or fell short) and no two senders' frames met on the
   wire (lines 831-855, 879-929, 1018-1068). *)
FramesMatch ==
    ~torn =>
      /\ \A k \in 1..Len(got) : /\ got[k][1].kind = "header"
                                /\ Len(got[k]) = 2 => got[k][2] = Cell(got[k][1].msg, "body")
      /\ \A k, l \in 1..Len(got) : k < l => got[k][1].msg # got[l][1].msg
=============================================================================
