----------------------------- MODULE FifoQueue -----------------------------
(***************************************************************************)
(* What the server's message queue promises its callers: a bounded queue   *)
(* that hands messages out in the order they were put in, loses none and   *)
(* duplicates none, and that may be emptied as a whole.  There are no      *)
(* threads and no ring here; MessageQueue is shown to implement it.        *)
(***************************************************************************)
EXTENDS Naturals, Sequences

CONSTANTS Messages,  \* the messages (heap objects) callers pass in
          Capacity   \* how many the queue holds

VARIABLE queue       \* the messages inside, oldest first

Init == queue = <<>>

Enqueue(m) == /\ Len(queue) < Capacity
              /\ queue' = Append(queue, m)

Dequeue == /\ queue # <<>>
           /\ queue' = Tail(queue)

Clear == queue' = <<>>

Next == \/ \E m \in Messages : Enqueue(m)
        \/ Dequeue
        \/ Clear

Spec == Init /\ [][Next]_queue
=============================================================================
