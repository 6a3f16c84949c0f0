--------------------------- MODULE MCMessageQueue ---------------------------
(* Instances of MessageQueue for TLC. *)
EXTENDS MessageQueue, TLC
CONSTANTS p1, p2, c1, c2, k1, m1, m2, m3
=============================================================================
