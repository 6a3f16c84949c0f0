---------------------------- MODULE MCThreadPool ----------------------------
(* Small instances of ThreadPool for TLC. *)
EXTENDS ThreadPool, TLC

CONSTANTS c1, c2, t1, t2, t3

(* Tasks and clients are interchangeable; workers are not (1..thread_count). *)
Interchangeable == Permutations({c1, c2}) \cup Permutations({t1, t2, t3})
=============================================================================
