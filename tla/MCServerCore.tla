---------------------------- MODULE MCServerCore ----------------------------
(* Small instances of ServerCore for TLC: one part of each kind. *)
EXTENDS ServerCore

CONSTANTS c1, c2

MCParts == <<"net", "db", "mon", "conns">>
=============================================================================
