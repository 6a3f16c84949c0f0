----------------------------- MODULE MCBackend ------------------------------
(* The database pool, the migrations, authentication, the message handlers,
   the configuration and the processes of the server program.  They share
   nothing, so a behaviour is one of them: side says which, and never changes. *)
EXTENDS DbPool, Migrations, Auth, MessageHandler, Requests, Config, Program

CONSTANT Sides   \* the components of this run

VARIABLE side

(* Names for Config, one of each kind longer than its buffer and one empty;
   texts that run over their line, into nothing, a pair or a header; and files:
   one pair under a header or before any. *)
MCSectionNames == {<<"default", "">>, <<"s", "">>, <<"s", "x">>, <<"", "">>}
MCKeys == {<<"k", "">>, <<"k", "y">>, <<"l", "">>, <<"", "">>}
MCPair(text) == [kind |-> "pair", name |-> <<"k", "">>, text |-> text]
MCHeader == [kind |-> "section", name |-> <<"s", "">>, text |-> ""]
MCWide ==
    [text \in {"wide", "wide k=no", "wide [s]"} |->
       [first |-> "wid",
        rest |-> CASE text = "wide k=no" -> MCPair("no")
                   [] text = "wide [s]" -> MCHeader
                   [] OTHER -> [kind |-> "none", name |-> <<"", "">>, text |-> ""]]]
MCRegistrations ==
    [type : {"STRING"}, default : {" a", "wide"}, strict : {FALSE}]
    \cup [type : {"STRING"}, default : {""}, strict : BOOLEAN]
    \cup [type : {"STRING"}, default : {"wide k=no", "wide [s]"}, strict : {TRUE}]
    \cup [type : {"FLOAT"}, default : {"0.5", "0.0000001"}, strict : {FALSE}]
    \cup [type : {"INT", "BOOL", "STRING_ARRAY"}, default : {"1"}, strict : {FALSE}]
MCFiles == {<<MCPair("wide k=no")>>} \cup {<<MCHeader, MCPair(text)>> : text \in {"", "no", "a,b", "wide", "wide [s]"}}

Init == side \in Sides /\ DbInit /\ MgInit /\ AuthInit /\ MhInit /\ RqInit /\ CfgInit /\ PgInit

Next ==
    /\ \/ side = "database" /\ DbNext /\ UNCHANGED <<mgvars, authvars, mhvars, rqvars, cfgvars, pgvars>>
       \/ side = "migrations" /\ MgNext /\ UNCHANGED <<dbvars, authvars, mhvars, rqvars, cfgvars, pgvars>>
       \/ side = "authentication" /\ AuthNext /\ UNCHANGED <<dbvars, mgvars, mhvars, rqvars, cfgvars, pgvars>>
       \/ side = "messages" /\ MhNext /\ UNCHANGED <<dbvars, mgvars, authvars, rqvars, cfgvars, pgvars>>
       \/ side = "requests" /\ RqNext /\ UNCHANGED <<dbvars, mgvars, authvars, mhvars, cfgvars, pgvars>>
       \/ side = "configuration" /\ CfgNext /\ UNCHANGED <<dbvars, mgvars, authvars, mhvars, rqvars, pgvars>>
       \/ side = "program" /\ PgNext /\ UNCHANGED <<dbvars, mgvars, authvars, mhvars, rqvars, cfgvars>>
    /\ UNCHANGED side

Spec == Init /\ [][Next]_<<dbvars, mgvars, authvars, mhvars, rqvars, cfgvars, pgvars, side>>
=============================================================================
