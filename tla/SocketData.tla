----------------------------- MODULE SocketData -----------------------------
(***************************************************************************)
(* socket_impl.c: what a connection of the adapter carries.  The type it   *)
(* was opened with, which getsockopt tells socket_impl_recv, makes it a    *)
(* SocketStream or a SocketDatagram until it is closed.                    *)
(***************************************************************************)
EXTENDS SocketDatagram

CONSTANTS MaxBytes, Room

ASSUME StreamAssumption == {MaxBytes, Room} \subseteq Nat \ {0}

VARIABLES
  socktype,    \* SO_TYPE
  open, peer_sent, peer_ended, arrived, fin, reset, read, got, received, sent,
  outq, peer_got, killed

Stream == INSTANCE SocketStream WITH taken <- read, result <- received

streamVars == <<open, peer_sent, peer_ended, arrived, fin, reset, read, got,
                received, sent, outq, peer_got, killed>>
allVars == <<socktype, vars, streamVars>>

DataInit ==
  /\ socktype \in {"SOCK_STREAM", "SOCK_DGRAM"}
  /\ Init /\ Stream!Init
  /\ socktype = "SOCK_STREAM" => type = "IPV4" /\ peer = NoAddr

\* A step of the stream, which leaves the rest alone.
OfStream(action) ==
  socktype = "SOCK_STREAM" /\ action /\ UNCHANGED <<socktype, vars>>

DataNext ==
  \/ OfStream(Stream!Next)
  \/ socktype = "SOCK_DGRAM" /\ Next /\ UNCHANGED <<socktype, streamVars>>

\* The network delivers what was sent, and libmobile keeps receiving.
Fairness ==
  /\ WF_allVars(OfStream(Stream!NetArrive))
  /\ WF_allVars(OfStream(Stream!NetFin))
  /\ WF_allVars(OfStream(\E size \in 1 .. MaxSize : Stream!socket_impl_recv(size)))

DataSpec == DataInit /\ [][DataNext]_allVars /\ Fairness
-----------------------------------------------------------------------------
(* Properties *)

\* The types of the variables of both.
DataTypeOK == TypeOK /\ Stream!TypeOK

\* What libmobile receives of a stream is what the peer sent, each byte once
\* and in order, whatever it looks at with a NULL buffer in between; -2 comes
\* only when the peer has ended the stream and everything has been received.
ReceivesStream == Stream!In!Spec

\* What the peer receives of a stream is what libmobile was told it had sent,
\* each byte once and in order, however little the kernel takes of each call
\* and however often it takes nothing.
SendsStream == Stream!Out!Spec

\* When the peer ends the stream, libmobile is told so, unless the connection
\* fails or libmobile closes it, or the program is killed, first.
EndSeen == peer_ended ~> ~open
=============================================================================
