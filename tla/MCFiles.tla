------------------------------ MODULE MCFiles -------------------------------
(* Both file transfer modules.  They share nothing, so a behaviour is one of
   the one or of the other: side says which, and never changes. *)
EXTENDS FileTransfer, WsTransfers

VARIABLE side

MCBucket == [s \in Sessions |-> IF s = 1 THEN "b1" ELSE "b2"]

Init == side \in {"sessions", "websocket"} /\ FtInit /\ WtInit

Next ==
    /\ \/ side = "sessions" /\ FtNext /\ UNCHANGED wtvars
       \/ side = "websocket" /\ WtNext /\ UNCHANGED ftvars
    /\ UNCHANGED side

(* FtFairness, for the behaviours of the sessions. *)
Spec ==
    /\ Init /\ [][Next]_<<ftvars, wtvars, side>>
    /\ WF_ftvars(side = "sessions" /\ ManagerStep)
=============================================================================
