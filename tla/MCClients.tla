----------------------------- MODULE MCClients ------------------------------
(* The C client, and the web client's connection, offline store, file
   transfers and group keys.  They share nothing, so a behaviour is one of
   them: side says which, and never changes. *)
EXTENDS Client, WebClient, OfflineSync, WebFiles, Groups

VARIABLE side

Sides == {"client", "web", "offline", "files", "groups"}

Init == side \in Sides /\ ClInit /\ WcInit /\ OsInit /\ WfInit /\ GrInit

Next ==
    /\ \/ side = "client" /\ ClNext /\ UNCHANGED <<wcvars, osvars, wfvars, grvars>>
       \/ side = "web" /\ WcNext /\ UNCHANGED <<clvars, osvars, wfvars, grvars>>
       \/ side = "offline" /\ OsNext /\ UNCHANGED <<clvars, wcvars, wfvars, grvars>>
       \/ side = "files" /\ WfNext /\ UNCHANGED <<clvars, wcvars, osvars, grvars>>
       \/ side = "groups" /\ GrNext /\ UNCHANGED <<clvars, wcvars, osvars, wfvars>>
    /\ UNCHANGED side

Spec == Init /\ [][Next]_<<clvars, wcvars, osvars, wfvars, grvars, side>>
=============================================================================
