---------------------------- MODULE MCTaskLists -----------------------------
(* Instances of TaskLists for TLC. *)
EXTENDS TaskLists
CONSTANTS t1, t2, t3, t4
=============================================================================
