----------------------------- MODULE MCNetwork ------------------------------
(* The connection pool, the framing of one connection, the WebSocket server
   and the monitoring manager.  They share nothing, so a behaviour is one of
   them: side says which, and never changes.  Monitoring appears twice, with
   its threads and without. *)
EXTENDS ConnectionPool, WebSocketServer, Monitoring

VARIABLE side

netvars == <<cpvars, wsvars, monvars, side>>

Init ==
    /\ side \in {"pool", "framing", "websocket", "collection", "alerts"}
    /\ CpInit /\ WsInit /\ MonInit

Next ==
    /\ \/ side = "pool" /\ PoolNext /\ UNCHANGED <<wsvars, monvars>>
       \/ side = "framing" /\ FrameNext /\ UNCHANGED <<wsvars, monvars>>
       \/ side = "websocket" /\ WsNext /\ UNCHANGED <<cpvars, monvars>>
       \/ side = "collection" /\ CollectionNext /\ UNCHANGED <<cpvars, wsvars>>
       \/ side = "alerts" /\ AlertNext /\ UNCHANGED <<cpvars, wsvars>>
    /\ UNCHANGED side

(* WsFairness, for the behaviours of the WebSocket server. *)
Spec ==
    /\ Init /\ [][Next]_netvars
    /\ SF_wsvars(side = "websocket" /\ AcceptStep) /\ WF_wsvars(side = "websocket" /\ WorkerStep)
    /\ SF_wsvars(side = "websocket" /\ CleanupRound) /\ WF_wsvars(side = "websocket" /\ StopFinishes)
=============================================================================
