----------------------------- MODULE ConnTable ------------------------------
(***************************************************************************)
(* What socket_impl.c promises to the adapter: a table of connections that *)
(* do not know of each other.  Every step concerns one connection, except  *)
(* the end of the program, which closes them all.                          *)
(***************************************************************************)
CONSTANT Conns

VARIABLE conn

Init == conn = [c \in Conns |-> "closed"]

Moves(from, to) == \E c \in Conns :
  /\ conn[c] \in from
  /\ conn' = [conn EXCEPT ![c] = to]

Open == Moves({"closed"}, "idle")
Close == Moves({"idle", "connecting", "connected", "listening"}, "closed")
Connect == Moves({"idle"}, "connecting") \/ Moves({"idle"}, "connected")
Connected == Moves({"connecting"}, "connected")
Refused == Moves({"connecting"}, "idle")
Listen == Moves({"idle"}, "listening")
Accept == Moves({"listening"}, "connected")
Stop == conn' = [c \in Conns |-> "closed"]

Next ==
  \/ Open \/ Close \/ Connect \/ Connected \/ Refused \/ Listen \/ Accept
  \/ Stop

Spec == Init /\ [][Next]_conn
=============================================================================
