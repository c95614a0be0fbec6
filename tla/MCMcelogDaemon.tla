--------------------------- MODULE MCMcelogDaemon ---------------------------
(***************************************************************************)
(* The daemon with three clients, one of whom may not ask, three triggers  *)
(* and a table with two slots for clients less than could come.            *)
(***************************************************************************)
EXTENDS McelogDaemon

MCCommands == [ping |-> <<"pong">>, dump |-> <<"text", "do", "ne">>]
MCScripts == {<<"ping">>, <<"dump">>, <<"ping", "dump">>}
=============================================================================
