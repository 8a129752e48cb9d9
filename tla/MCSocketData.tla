---------------------------- MODULE MCSocketData ----------------------------
(* A small instance of SocketData for TLC. *)
EXTENDS SocketData

\* Two ports whose bytes are each other's, for two kinds of address.
MCPeers == [type : {"IPV4", "IPV6"}, port : {1, Base}, host : {1}]
=============================================================================
