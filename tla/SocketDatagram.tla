--------------------------- MODULE SocketDatagram ---------------------------
(***************************************************************************)
(* socket_impl.c: a UDP connection of the adapter, IPv4 or IPv6, connected *)
(* to one peer or not, and the peers that send to it.                      *)
(*                                                                         *)
(* libmobile receives datagrams and answers them, at the address it was    *)
(* given with the datagram or, on a connected socket, at none.             *)
(***************************************************************************)
EXTENDS SocketCalls, SockAddr, Sequences

CONSTANTS
  Peers,       \* the addresses of the peers
  MaxMsgs,     \* datagrams they send
  MaxLen,      \* the bytes of a datagram
  MaxSize      \* the largest buffer libmobile passes

ASSUME DatagramAssumption ==
  /\ \A p \in Peers :
       /\ p = [type |-> p.type, port |-> p.port, host |-> p.host]
       /\ p.type \in {"IPV4", "IPV6"} /\ p.port \in 0 .. (Base * Base - 1)
  /\ {MaxMsgs, MaxLen, MaxSize} \subseteq Nat \ {0}

VARIABLES
  type,        \* of the socket's addresses
  peer,        \* the peer the socket is connected to, or NoAddr
  msgs,        \* the datagrams sent: by whom, and how long
  queue,       \* datagrams in the kernel
  error,       \* an error waiting in the kernel
  taken,       \* the datagrams that were taken out of it
  addr,        \* libmobile's buffer for an address
  result,      \* the last result of socket_impl_recv
  told,        \* the datagrams libmobile was given, with the address
  out          \* the answers, with the address the kernel was given

vars == <<type, peer, msgs, queue, error, taken, addr, result, told, out>>

Min2(m, n) == IF m < n THEN m ELSE n

\* The address p as the kernel has it.
Wire(p) == [family |-> IF p.type = "IPV4" THEN "AF_INET" ELSE "AF_INET6",
            port |-> <<p.port \div Base, p.port % Base>>, host |-> p.host]

Ids == 1 .. MaxMsgs

\* The types of the variables.
TypeOK ==
  /\ type \in {"IPV4", "IPV6"}
  /\ peer \in Peers \cup {NoAddr}
  /\ msgs \in Seq([from : Peers, len : 0 .. MaxLen]) /\ Len(msgs) <= MaxMsgs
  /\ \A i \in DOMAIN queue : queue[i].id \in Ids /\ queue[i].len \in 0 .. MaxLen
  /\ error \in BOOLEAN
  /\ taken \subseteq Ids
  /\ result \in -2 .. MaxSize
  /\ {t[1] : t \in told} \subseteq Ids /\ {t[1] : t \in out} \subseteq Ids

Init ==
  /\ type \in {"IPV4", "IPV6"}
  /\ peer \in {p \in Peers : p.type = type} \cup {NoAddr}
  /\ msgs = <<>> /\ queue = <<>> /\ error = FALSE /\ taken = {}
  /\ addr = NoAddr /\ result = 0
  /\ told = {} /\ out = {}
-----------------------------------------------------------------------------
(* The peers and the network *)

\* A datagram, which may be empty, is sent; it may be lost.  A connected socket
\* takes datagrams of its peer only.
PeerSend == \E p \in Peers, len \in 0 .. MaxLen, lost \in BOOLEAN :
  /\ Len(msgs) < MaxMsgs
  /\ p.type = type /\ peer \in {p, NoAddr}
  /\ msgs' = Append(msgs, [from |-> p, len |-> len])
  /\ queue' = IF lost THEN queue
              ELSE Append(queue, [id |-> Len(msgs'), len |-> len,
                                  from |-> Wire(p)])
  /\ UNCHANGED <<type, peer, error, taken, addr, result, told, out>>

\* An answer could not be delivered; a connected socket is told.
NetError ==
  /\ out # {} /\ peer # NoAddr /\ ~error
  /\ error' = TRUE
  /\ UNCHANGED <<type, peer, msgs, queue, taken, addr, result, told, out>>
-----------------------------------------------------------------------------
(* socket_impl_recv *)

\* The answer r about the datagram d; data is whether libmobile wants it,
\* take whether it leaves the kernel.
Receive(r, d, data, take) ==
  LET res == RecvResult(r, FALSE, data)
  IN  /\ result' = res
      /\ addr' = IF data /\ res >= 0 THEN recv_addr(d.from, addr) ELSE addr
      /\ told' = told \cup IF res > 0 THEN {<<d.id, addr'>>} ELSE {}
      /\ taken' = taken \cup IF take THEN {d.id} ELSE {}
      /\ queue' = IF take THEN Tail(queue) ELSE queue
      /\ UNCHANGED <<type, peer, msgs, error, out>>

\* Mutant: the length of the datagram is returned, not that of the data.
socket_impl_recv_trunc(size) ==
  /\ queue # <<>> /\ ~error
  /\ Receive(Length(Head(queue).len), Head(queue), TRUE, TRUE)

socket_impl_recv(size) ==
  /\ queue # <<>> /\ ~error
  /\ Receive(Length(Min2(size, Head(queue).len)), Head(queue), TRUE, TRUE)

\* data is NULL: MSG_PEEK, of one byte.
socket_impl_recv_peek ==
  /\ queue # <<>> /\ ~error
  /\ Receive(Length(Min2(1, Head(queue).len)), Head(queue), FALSE, FALSE)

\* Nothing to read; or the poll was wrong, or failed; or an error.
socket_impl_recv_fails ==
  /\ \/ result' = RecvResult(Fails("EWOULDBLOCK"), FALSE, TRUE) /\ UNCHANGED error
     \/ /\ error /\ error' = FALSE
        /\ result' = RecvResult(Fails("ECONNREFUSED"), FALSE, TRUE)
  /\ UNCHANGED <<type, peer, msgs, queue, taken, addr, told, out>>
-----------------------------------------------------------------------------
(* socket_impl_send *)

\* What sendto may answer: the waiting error; an error without an address on a
\* socket that is not connected; else the datagram is taken, or none of it.
sendto(dest) ==
  IF error THEN {Fails("ECONNREFUSED")}
  ELSE IF dest = NullSockAddr /\ peer = NoAddr THEN {Fails("EDESTADDRREQ")}
  ELSE {Length(1), Fails("EWOULDBLOCK")}

\* libmobile answers the datagram of t at the address to; NULL is the address
\* of the peer the socket is connected to.
socket_impl_send(t, to) ==
  LET dest == convert_sockaddr(to)
  IN
  /\ \E r \in sendto(dest) :
       out' = IF SendResult(r) <= 0 THEN out
              ELSE out \cup {<<t[1], IF dest = NullSockAddr THEN Wire(peer)
                                                           ELSE dest>>}
  /\ error' = FALSE
  /\ UNCHANGED <<type, peer, msgs, queue, taken, addr, result, told>>

Next ==
  \/ PeerSend \/ NetError
  \/ \E size \in 1 .. MaxSize : socket_impl_recv(size)
  \/ socket_impl_recv_peek \/ socket_impl_recv_fails
  \/ \E t \in told : socket_impl_send(t, t[2]) \/ socket_impl_send(t, NoAddr)

Spec == Init /\ [][Next]_vars
-----------------------------------------------------------------------------
(* Properties *)

\* A datagram is never taken for the end of the connection, also when it is
\* empty: only a stream can be disconnected.
NeverDisconnected == result # -2

\* Every datagram that leaves the kernel is given to libmobile, unless it is
\* empty, however often libmobile looks whether there is one; with it comes the
\* address of its sender, never the one of an earlier datagram.
DatagramsTold ==
  /\ \A t \in told : t[2] = msgs[t[1]].from
  /\ \A id \in taken : msgs[id].len > 0 => \E t \in told : t[1] = id

\* An answer goes to the sender of the datagram it answers: what recv makes of
\* an address, convert_sockaddr undoes.
AnswersReturn == \A a \in out : a[2] = Wire(msgs[a[1]].from)
=============================================================================
