---------------------------- MODULE SocketStream ----------------------------
(***************************************************************************)
(* socket_impl.c: a TCP connection of the adapter, with the network and    *)
(* the peer at its other end.                                              *)
(*                                                                         *)
(* libmobile sends and receives as it likes.  It sends on from where the   *)
(* results it was given say the last call has ended, and it closes the     *)
(* connection when a call has failed or the peer has disconnected.         *)
(*                                                                         *)
(* The bytes of a direction are numbered from 1.                           *)
(***************************************************************************)
EXTENDS SocketCalls, Sequences

CONSTANTS
  MaxBytes,    \* bytes that each end sends
  Room,        \* bytes the kernel holds for sending
  MaxSize      \* the largest buffer libmobile passes

VARIABLES
  open,         \* the connection is open, and the program alive
  peer_sent,    \* bytes the peer has sent
  peer_ended,   \* the peer has shut its side down
  arrived,      \* bytes the kernel has taken in ...
  fin,          \* ... and the peer's end
  reset,        \* the connection has been reset
  taken,        \* bytes taken out of the kernel
  got,          \* the bytes libmobile was given
  result,       \* the last result of socket_impl_recv
  sent,         \* bytes libmobile was told are sent
  outq,         \* bytes in the kernel, to be sent
  peer_got,     \* the bytes the peer was given
  killed        \* by SIGPIPE

inVars == <<peer_sent, peer_ended, arrived, taken, got, result>>
outVars == <<sent, outq, peer_got>>
vars == <<open, fin, reset, killed, inVars, outVars>>

Bytes(from, n) == [i \in 1 .. n |-> from + i]

\* The types of the variables.
TypeOK ==
  /\ {open, peer_ended, fin, reset, killed} \subseteq BOOLEAN
  /\ peer_sent \in 0 .. MaxBytes /\ arrived \in 0 .. peer_sent
  /\ taken \in 0 .. arrived
  /\ got \in Seq(Nat) /\ Len(got) <= taken
  /\ result \in -2 .. MaxSize
  /\ sent \in 0 .. MaxBytes
  /\ outq \in Seq(Nat) /\ Len(outq) <= Room
  /\ peer_got \in Seq(Nat)

Init ==
  /\ open = TRUE /\ fin = FALSE /\ reset = FALSE /\ killed = FALSE
  /\ peer_sent = 0 /\ peer_ended = FALSE /\ arrived = 0 /\ taken = 0
  /\ got = <<>> /\ result = 0
  /\ sent = 0 /\ outq = <<>> /\ peer_got = <<>>
-----------------------------------------------------------------------------
(* The peer and the network *)

PeerSend ==
  /\ ~peer_ended /\ peer_sent < MaxBytes
  /\ peer_sent' = peer_sent + 1
  /\ UNCHANGED <<open, fin, reset, killed, peer_ended, arrived, taken, got,
                 result, outVars>>

PeerEnd ==
  /\ ~peer_ended
  /\ peer_ended' = TRUE
  /\ UNCHANGED <<open, fin, reset, killed, peer_sent, arrived, taken, got,
                 result, outVars>>

NetArrive ==
  /\ ~reset
  /\ arrived' \in (arrived + 1) .. peer_sent
  /\ UNCHANGED <<open, fin, reset, killed, peer_sent, peer_ended, taken, got,
                 result, outVars>>

NetFin ==
  /\ ~reset /\ ~fin /\ peer_ended /\ arrived = peer_sent
  /\ fin' = TRUE
  /\ UNCHANGED <<open, reset, killed, inVars, outVars>>

NetReset ==
  /\ ~reset
  /\ reset' = TRUE
  /\ UNCHANGED <<open, fin, killed, inVars, outVars>>

NetSend ==
  /\ ~reset
  /\ \E n \in 1 .. Len(outq) :
       /\ peer_got' = peer_got \o SubSeq(outq, 1, n)
       /\ outq' = SubSeq(outq, n + 1, Len(outq))
  /\ UNCHANGED <<open, fin, reset, killed, inVars, sent>>
-----------------------------------------------------------------------------
(* socket_impl_recv *)

Min2(m, n) == IF m < n THEN m ELSE n

\* poll: there is something to read, the end, or an error.
Readable == taken < arrived \/ fin \/ reset

\* What recvfrom may answer for a buffer of size bytes, on a readable socket.
\* Once a reset has been reported it answers like an ended stream; libmobile
\* has closed the connection by then.
recvfrom(size) ==
  {Length(n) : n \in 1 .. Min2(size, arrived - taken)}
  \cup (IF reset THEN {Fails("ECONNRESET")} ELSE {})
  \cup (IF taken = arrived /\ fin /\ ~reset THEN {Length(0)} ELSE {})

\* What is done for the answer r: the bytes taken, and the result.
Receive(r, take, data) ==
  LET res == RecvResult(r, TRUE, data)
  IN  /\ taken' = taken + take
      /\ got' = got \o (IF res > 0 THEN Bytes(taken, res) ELSE <<>>)
      /\ result' = res
      /\ open' = (res >= 0)
      /\ UNCHANGED <<fin, reset, killed, peer_sent, peer_ended, arrived, outVars>>

socket_impl_recv(size) ==
  /\ open /\ Readable
  /\ \E r \in recvfrom(size) :
       Receive(r, IF r.len > 0 THEN r.len ELSE 0, TRUE)

\* Nothing to read; or the poll was wrong, or failed.
socket_impl_recv_none ==
  /\ open
  /\ \E data \in BOOLEAN : Receive(Fails("EWOULDBLOCK"), 0, data)

\* Mutant: the byte that was looked at is taken.
socket_impl_recv_take ==
  /\ open /\ Readable
  /\ \E r \in recvfrom(1) : Receive(r, IF r.len > 0 THEN 1 ELSE 0, FALSE)

\* data is NULL: MSG_PEEK, of one byte.
socket_impl_recv_peek ==
  /\ open /\ Readable
  /\ \E r \in recvfrom(1) : Receive(r, 0, FALSE)
-----------------------------------------------------------------------------
(* socket_impl_send *)

\* The kernel takes n of the bytes and the result is res.
Send(n, res) ==
  /\ outq' = outq \o Bytes(sent, n)
  /\ sent' = sent + (IF res > 0 THEN res ELSE 0)
  /\ open' = (res >= 0)
  /\ UNCHANGED <<fin, reset, killed, inVars, peer_got>>

\* Mutant: all of the bytes are said to be sent.
socket_impl_send_all(size) ==
  /\ open /\ sent + size <= MaxBytes
  /\ \/ \E n \in 1 .. Min2(size, Room - Len(outq)) : ~reset /\ Send(n, size)
     \/ Len(outq) = Room /\ ~reset /\ Send(0, SendResult(Fails("EWOULDBLOCK")))
     \/ reset /\ ~fin /\ Send(0, SendResult(Fails("ECONNRESET")))

\* sendto takes some of the bytes, or none if the kernel has no room, or
\* fails on a connection that was reset.
socket_impl_send(size) ==
  /\ open /\ sent + size <= MaxBytes
  /\ \/ \E n \in 1 .. Min2(size, Room - Len(outq)) :
          ~reset /\ Send(n, SendResult(Length(n)))
     \/ Len(outq) = Room /\ ~reset /\ Send(0, SendResult(Fails("EWOULDBLOCK")))
     \/ reset /\ ~fin /\ Send(0, SendResult(Fails("ECONNRESET")))

\* On one that was reset after the peer had ended it, the error is EPIPE, and
\* SIGPIPE is neither handled nor suppressed.
socket_impl_send_sigpipe ==
  /\ open /\ reset /\ fin
  /\ killed' = TRUE /\ open' = FALSE
  /\ UNCHANGED <<fin, reset, inVars, outVars>>

socket_impl_close ==
  /\ open /\ open' = FALSE
  /\ UNCHANGED <<fin, reset, killed, inVars, outVars>>

Over == ~open /\ UNCHANGED vars

Next ==
  \/ PeerSend \/ PeerEnd \/ NetArrive \/ NetFin \/ NetReset \/ NetSend
  \/ \E size \in 1 .. MaxSize : socket_impl_recv(size) \/ socket_impl_send(size)
  \/ socket_impl_recv_none \/ socket_impl_recv_peek
  \/ socket_impl_send_sigpipe \/ socket_impl_close \/ Over
-----------------------------------------------------------------------------
(* The two directions as pipes *)

In == INSTANCE Pipe WITH
  written <- Bytes(0, peer_sent), received <- got, ended <- peer_ended,
  eof <- (result = -2)

Out == INSTANCE Pipe WITH
  written <- Bytes(0, sent), received <- peer_got, ended <- FALSE, eof <- FALSE
=============================================================================
