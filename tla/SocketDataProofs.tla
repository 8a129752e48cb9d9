-------------------------- MODULE SocketDataProofs --------------------------
(***************************************************************************)
(* Proofs about SocketData: what a connection of the adapter carries, for  *)
(* any addresses, numbers of bytes and datagrams, and sizes of buffers.    *)
(***************************************************************************)
EXTENDS SocketData, TLAPS
-----------------------------------------------------------------------------
(* Addresses *)

\* The two bytes of a port are bytes, and their order is kept.
LEMMA PortBytes ==
  ASSUME NEW port \in 0 .. (Base * Base - 1)
  PROVE  /\ htons(port) = <<port \div Base, port % Base>>
         /\ ntohs(<<port \div Base, port % Base>>) = port
<1> DEFINE h == port \div Base
           l == port % Base
<1>1. Base \in Nat /\ Base > 0 /\ port \in Nat /\ port < Base * Base
  BY BaseAssumption
<1>2. h \in Int /\ l \in 0 .. (Base - 1) /\ port = h * Base + l
  BY <1>1
<1>3. h >= 0 /\ h < Base
  BY <1>1, <1>2
<1>4. h % Base = h
  BY <1>1, <1>2, <1>3
<1> QED
  BY <1>2, <1>4 DEF htons, ntohs

\* convert_sockaddr gives the kernel the address of a peer, and recv_addr gives
\* it back, whatever the buffer held before.
LEMMA AddressKept ==
  ASSUME NEW p \in Peers
  PROVE  /\ convert_sockaddr(p) = Wire(p) /\ Wire(p) # NullSockAddr
         /\ \A old : recv_addr(Wire(p), old) = p
         /\ p # NoAddr
<1>1. /\ p = [type |-> p.type, port |-> p.port, host |-> p.host]
      /\ p.type \in {"IPV4", "IPV6"} /\ p.port \in 0 .. (Base * Base - 1)
  BY DatagramAssumption
<1>2. /\ htons(p.port) = <<p.port \div Base, p.port % Base>>
      /\ ntohs(<<p.port \div Base, p.port % Base>>) = p.port
  BY <1>1, PortBytes
<1>3. convert_sockaddr(p) = Wire(p)
  BY <1>1, <1>2 DEF convert_sockaddr, Wire
<1>4. Wire(p) # NullSockAddr
  BY DEF Wire, NullSockAddr
<1>5. p # NoAddr
  BY <1>1 DEF NoAddr
<1>6. ASSUME NEW old PROVE recv_addr(Wire(p), old) = p
  BY <1>1, <1>2 DEF recv_addr, Wire
<1> QED
  BY <1>3, <1>4, <1>5, <1>6
-----------------------------------------------------------------------------
(* Datagrams *)

Message == [from : Peers, len : 0 .. MaxLen]
Datagram == [id : Nat, len : Nat, from : {Wire(p) : p \in Peers}]

\* A datagram in the kernel is one that was sent, as it was sent.
InKernel(d) ==
  /\ d.id \in DOMAIN msgs
  /\ d.len = msgs[d.id].len
  /\ d.from = Wire(msgs[d.id].from)

\* What was sent came from the peer a connected socket has.
FromPeer == \A i \in DOMAIN msgs : peer \in {msgs[i].from, NoAddr}

\* What libmobile was told and has answered, and what has left the kernel, are
\* datagrams that were sent.
Sent(id) == id \in DOMAIN msgs

\* The inductive invariant of the datagrams.
DatagramInv ==
  /\ TypeOK
  /\ queue \in Seq(Datagram)
  /\ \A i \in DOMAIN queue : InKernel(queue[i])
  /\ FromPeer
  /\ \A t \in told : Sent(t[1])
  /\ \A a \in out : Sent(a[1])
  /\ \A id \in taken : Sent(id)
  /\ NeverDisconnected /\ DatagramsTold /\ AnswersReturn

\* What the parts of TypeOK say of the datagrams that were sent.
LEMMA SentType ==
  ASSUME TypeOK
  PROVE  /\ msgs \in Seq(Message)
         /\ DOMAIN msgs = 1 .. Len(msgs) /\ Len(msgs) \in Nat
         /\ DOMAIN msgs \subseteq Ids
         /\ \A i \in DOMAIN msgs : msgs[i].from \in Peers /\ msgs[i].len \in Nat
<1>1. msgs \in Seq(Message) /\ Len(msgs) <= MaxMsgs
  BY DEF TypeOK, Message
<1>2. MaxMsgs \in Nat /\ MaxLen \in Nat
  BY DatagramAssumption
<1>3. DOMAIN msgs = 1 .. Len(msgs) /\ Len(msgs) \in Nat
  BY <1>1
<1>4. DOMAIN msgs \subseteq Ids
  BY <1>1, <1>2, <1>3 DEF Ids
<1>5. \A i \in 1 .. Len(msgs) : msgs[i] \in Message
  BY <1>1, <1>3
<1>6. \A m \in Message : m.from \in Peers /\ m.len \in Nat
  BY <1>2 DEF Message
<1> QED
  BY <1>1, <1>3, <1>4, <1>5, <1>6

\* A peer sends a datagram; what was known of those sent before stays.
LEMMA DatagramSent ==
  ASSUME DatagramInv, PeerSend
  PROVE  DatagramInv'
<1>1. PICK p \in Peers, len \in 0 .. MaxLen, lost \in BOOLEAN :
        /\ Len(msgs) < MaxMsgs
        /\ p.type = type /\ peer \in {p, NoAddr}
        /\ msgs' = Append(msgs, [from |-> p, len |-> len])
        /\ queue' = IF lost THEN queue
                    ELSE Append(queue, [id |-> Len(msgs'), len |-> len,
                                        from |-> Wire(p)])
        /\ UNCHANGED <<type, peer, error, taken, addr, result, told, out>>
  BY Zenon DEF PeerSend
<1>2. TypeOK /\ queue \in Seq(Datagram)
      /\ (\A i \in DOMAIN queue : InKernel(queue[i]))
  BY DEF DatagramInv
<1>3. PICK m \in Message : m.from = p /\ m.len = len /\ msgs' = Append(msgs, m)
  BY <1>1 DEF Message
<1>4. /\ msgs \in Seq(Message) /\ DOMAIN msgs = 1 .. Len(msgs)
      /\ Len(msgs) \in Nat
  BY <1>2, SentType
<1>5. /\ msgs' \in Seq(Message)
      /\ Len(msgs') = Len(msgs) + 1
      /\ DOMAIN msgs' = 1 .. (Len(msgs) + 1)
      /\ msgs'[Len(msgs) + 1] = m
      /\ \A i \in DOMAIN msgs : i \in DOMAIN msgs' /\ msgs'[i] = msgs[i]
  BY <1>3, <1>4
<1>6. PICK d : d = [id |-> Len(msgs) + 1, len |-> len, from |-> Wire(p)]
  BY Zenon
<1>7. /\ d \in Datagram /\ d.id \in Ids /\ d.len \in 0 .. MaxLen
      /\ (queue' = queue \/ queue' = Append(queue, d))
  BY <1>1, <1>4, <1>5, <1>6, DatagramAssumption DEF Datagram, Ids
<1>8. InKernel(d)'
  BY <1>3, <1>4, <1>5, <1>6 DEF InKernel
<1>9. /\ queue' \in Seq(Datagram)
      /\ \A i \in DOMAIN queue' : queue'[i] = d
                                   \/ (i \in DOMAIN queue /\ queue'[i] = queue[i])
  <2>1. queue \in Seq(Datagram) /\ d \in Datagram
    BY <1>2, <1>7
  <2>2. CASE queue' = queue
    BY <2>1, <2>2
  <2>3. CASE queue' = Append(queue, d)
    BY <2>1, <2>3
  <2> QED
    BY <1>7, <2>2, <2>3
<1>10. ASSUME NEW x, InKernel(x) PROVE InKernel(x)'
  BY <1>5, <1>10 DEF InKernel
<1>11. (\A i \in DOMAIN queue : InKernel(queue[i]))'
  <2> SUFFICES ASSUME NEW i \in DOMAIN queue' PROVE InKernel(queue[i])'
    OBVIOUS
  <2>1. PICK x : x = queue'[i]
    OBVIOUS
  <2>2. InKernel(x)'
    BY <1>2, <1>8, <1>9, <1>10, <2>1
  <2> QED
    BY <2>1, <2>2 DEF InKernel
<1>12. TypeOK'
  <2>1. \A i \in DOMAIN queue' : queue'[i].id \in Ids /\ queue'[i].len \in 0 .. MaxLen
    <3> SUFFICES ASSUME NEW i \in DOMAIN queue'
                 PROVE  queue'[i].id \in Ids /\ queue'[i].len \in 0 .. MaxLen
      OBVIOUS
    <3>1. \A j \in DOMAIN queue : queue[j].id \in Ids /\ queue[j].len \in 0 .. MaxLen
      BY <1>2, Zenon DEF TypeOK
    <3> QED
      BY <1>7, <1>9, <3>1, Zenon
  <2>2. Len(msgs') <= MaxMsgs
    BY <1>1, <1>4, <1>5, DatagramAssumption
  <2> QED
    BY <1>1, <1>2, <1>5, <2>1, <2>2 DEF TypeOK, Message
<1>13. FromPeer'
  BY <1>1, <1>3, <1>4, <1>5 DEF DatagramInv, FromPeer
<1>14. /\ \A t \in told' : Sent(t[1])'
       /\ \A a \in out' : Sent(a[1])'
       /\ \A id \in taken' : Sent(id)'
  BY <1>1, <1>5 DEF DatagramInv, Sent
<1>15. NeverDisconnected' /\ DatagramsTold' /\ AnswersReturn'
  BY <1>1, <1>5 DEF DatagramInv, Sent, NeverDisconnected, DatagramsTold, AnswersReturn
<1> QED
  BY <1>9, <1>11, <1>12, <1>13, <1>14, <1>15 DEF DatagramInv

\* A step that does not touch what was sent, nor what waits in the kernel but
\* to take it out, keeps the invariant if the rest is in order.
LEMMA DatagramRest ==
  ASSUME DatagramInv, UNCHANGED <<type, peer, msgs>>,
         queue' \in {queue, Tail(queue)}, queue' # queue => queue # <<>>,
         error' \in BOOLEAN, taken' \subseteq DOMAIN msgs,
         result' \in -1 .. MaxSize,
         \A t \in told' : Sent(t[1]), \A a \in out' : Sent(a[1]),
         DatagramsTold', AnswersReturn'
  PROVE  DatagramInv'
<1>1. TypeOK /\ queue \in Seq(Datagram)
      /\ (\A i \in DOMAIN queue : InKernel(queue[i]))
  BY DEF DatagramInv
<1>2. DOMAIN msgs \subseteq Ids
  BY <1>1, SentType
<1>3. /\ queue' \in Seq(Datagram)
      /\ \A i \in DOMAIN queue' : \E j \in DOMAIN queue : queue'[i] = queue[j]
  <2>1. CASE queue' = queue
    BY <1>1, <2>1
  <2>2. CASE queue # <<>> /\ queue' = Tail(queue)
    <3>1. queue' \in Seq(Datagram) /\ DOMAIN queue' = 1 .. (Len(queue) - 1)
          /\ Len(queue) \in Nat /\ DOMAIN queue = 1 .. Len(queue)
      BY <1>1, <2>2
    <3>2. ASSUME NEW i \in 1 .. (Len(queue) - 1)
          PROVE  i + 1 \in 1 .. Len(queue) /\ queue'[i] = queue[i + 1]
      <4>1. i + 1 \in 1 .. Len(queue)
        BY <3>1
      <4>2. Tail(queue)[i] = queue[i + 1]
        BY <1>1, <3>1
      <4> QED
        BY <2>2, <4>1, <4>2
    <3> QED
      BY <3>1, <3>2, Zenon
  <2>3. queue' = queue \/ (queue # <<>> /\ queue' = Tail(queue))
    OBVIOUS
  <2> QED
    BY <2>1, <2>2, <2>3, Zenon
<1>4. (\A i \in DOMAIN queue : InKernel(queue[i]))'
  BY <1>1, <1>3 DEF InKernel
<1>5. TypeOK'
  <2>1. \A i \in DOMAIN queue' : queue'[i].id \in Ids /\ queue'[i].len \in 0 .. MaxLen
    BY <1>1, <1>3 DEF TypeOK
  <2>2. /\ {t[1] : t \in told'} \subseteq Ids /\ {t[1] : t \in out'} \subseteq Ids
        /\ taken' \subseteq Ids
    BY <1>2 DEF Sent
  <2>3. result' \in -2 .. MaxSize
    BY DatagramAssumption
  <2> QED
    BY <1>1, <2>1, <2>2, <2>3 DEF TypeOK
<1>6. /\ FromPeer' /\ \A t \in told' : Sent(t[1])'
      /\ \A a \in out' : Sent(a[1])'
      /\ \A id \in taken' : Sent(id)'
  BY DEF DatagramInv, FromPeer, Sent
<1>7. NeverDisconnected'
  BY DatagramAssumption DEF NeverDisconnected
<1> QED
  BY <1>3, <1>4, <1>5, <1>6, <1>7 DEF DatagramInv

\* socket_impl_recv returns the length of what it stores, also when that is 0;
\* what it returns when it is asked to look, or fails, is no length.
LEMMA RecvResults ==
  ASSUME NEW n \in Nat
  PROVE  /\ RecvResult(Length(n), FALSE, TRUE) = n
         /\ RecvResult(Length(n), FALSE, FALSE) = 0
         /\ RecvResult(Fails("EWOULDBLOCK"), FALSE, TRUE) = 0
         /\ RecvResult(Fails("ECONNREFUSED"), FALSE, TRUE) = -1
BY DEF RecvResult, Length, Fails

\* socket_impl_recv, with a buffer.
LEMMA DatagramReceived ==
  ASSUME DatagramInv, NEW size \in 1 .. MaxSize, socket_impl_recv(size)
  PROVE  DatagramInv'
<1> DEFINE d == Head(queue)
           n == Min2(size, d.len)
<1>1. queue # <<>> /\ Receive(Length(n), d, TRUE, TRUE)
  BY Zenon DEF socket_impl_recv
<1>2. TypeOK /\ queue \in Seq(Datagram)
      /\ (\A i \in DOMAIN queue : InKernel(queue[i]))
  BY DEF DatagramInv
<1>3. 1 \in DOMAIN queue /\ d = queue[1]
  BY <1>1, <1>2
<1>4. InKernel(d)
  BY <1>2, <1>3
<1>5. /\ d.id \in DOMAIN msgs /\ d.from = Wire(msgs[d.id].from)
      /\ msgs[d.id].from \in Peers /\ d.len = msgs[d.id].len /\ d.len \in Nat
  BY <1>2, <1>4, SentType DEF InKernel
<1>6. n \in Nat /\ n <= MaxSize /\ (d.len > 0 => n > 0)
  BY <1>5, DatagramAssumption DEF Min2
<1> HIDE DEF d, n
<1>7. /\ result' = n
      /\ addr' = msgs[d.id].from
      /\ told' = told \cup IF n > 0 THEN {<<d.id, addr'>>} ELSE {}
      /\ taken' = taken \cup {d.id}
      /\ queue' = Tail(queue)
      /\ UNCHANGED <<type, peer, msgs, error, out>>
  <2>1. RecvResult(Length(n), FALSE, TRUE) = n
    BY <1>6, RecvResults, Zenon
  <2>2. recv_addr(d.from, addr) = msgs[d.id].from
    BY <1>5, AddressKept
  <2>3. /\ result' = n
        /\ addr' = IF TRUE /\ n >= 0 THEN recv_addr(d.from, addr) ELSE addr
        /\ told' = told \cup IF n > 0 THEN {<<d.id, addr'>>} ELSE {}
        /\ taken' = taken \cup IF TRUE THEN {d.id} ELSE {}
        /\ queue' = IF TRUE THEN Tail(queue) ELSE queue
        /\ UNCHANGED <<type, peer, msgs, error, out>>
    BY <1>1, <2>1, Zenon DEF Receive
  <2> QED
    BY <1>6, <2>2, <2>3
<1>8. \A t \in told' : Sent(t[1]) /\ t[2] = msgs[t[1]].from
  BY <1>5, <1>7 DEF DatagramInv, DatagramsTold, Sent
<1>9. \A id \in taken' : msgs[id].len > 0 => \E t \in told' : t[1] = id
  <2> SUFFICES ASSUME NEW id \in taken', msgs[id].len > 0
               PROVE  \E t \in told' : t[1] = id
    OBVIOUS
  <2>1. CASE id \in taken
    BY <1>7, <2>1 DEF DatagramInv, DatagramsTold
  <2>2. CASE id = d.id
    <3>1. <<id, addr'>> \in told'
      BY <1>5, <1>6, <1>7, <2>2
    <3> QED
      BY <3>1
  <2> QED
    BY <1>7, <2>1, <2>2
<1>10. DatagramsTold'
  BY <1>7, <1>8, <1>9 DEF DatagramsTold
<1>11. taken' \subseteq DOMAIN msgs /\ (\A a \in out' : Sent(a[1]))
  BY <1>5, <1>7 DEF DatagramInv, Sent
<1>12. AnswersReturn'
  BY <1>7 DEF DatagramInv, AnswersReturn
<1>13. result' \in -1 .. MaxSize /\ error' \in BOOLEAN
  BY <1>2, <1>6, <1>7, DatagramAssumption DEF TypeOK
<1> QED
  BY <1>1, <1>7, <1>8, <1>10, <1>11, <1>12, <1>13, DatagramRest

\* socket_impl_recv without a buffer, a call that fails, and an error that
\* reaches the kernel: nothing is told, and nothing taken.
LEMMA DatagramNotTaken ==
  ASSUME DatagramInv,
         socket_impl_recv_peek \/ socket_impl_recv_fails \/ NetError
  PROVE  DatagramInv'
<1>1. TypeOK /\ queue \in Seq(Datagram)
      /\ (\A i \in DOMAIN queue : InKernel(queue[i]))
  BY DEF DatagramInv
<1>2. /\ UNCHANGED <<type, peer, msgs, queue, taken, told, out>>
      /\ error' \in BOOLEAN /\ result' \in {-1, 0, result}
  <2>1. CASE socket_impl_recv_peek
    <3> DEFINE d == Head(queue)
               n == Min2(1, d.len)
    <3>1. queue # <<>> /\ Receive(Length(n), d, FALSE, FALSE)
      BY <2>1, Zenon DEF socket_impl_recv_peek
    <3>2. 1 \in DOMAIN queue /\ d = queue[1]
      BY <1>1, <3>1
    <3>3. InKernel(d)
      BY <1>1, <3>2
    <3>4. n \in Nat
      BY <1>1, <3>3, SentType DEF InKernel, Min2
    <3> HIDE DEF d, n
    <3>5. RecvResult(Length(n), FALSE, FALSE) = 0
      BY <3>4, RecvResults, Zenon
    <3>6. /\ result' = 0
          /\ told' = told \cup IF 0 > 0 THEN {<<d.id, addr'>>} ELSE {}
          /\ taken' = taken \cup IF FALSE THEN {d.id} ELSE {}
          /\ queue' = IF FALSE THEN Tail(queue) ELSE queue
          /\ UNCHANGED <<type, peer, msgs, error, out>>
      BY <3>1, <3>5, Zenon DEF Receive
    <3> QED
      BY <1>1, <3>6 DEF TypeOK
  <2>2. CASE socket_impl_recv_fails
    BY <1>1, <2>2, RecvResults, Zenon DEF socket_impl_recv_fails, TypeOK
  <2>3. CASE NetError
    BY <1>1, <2>3 DEF NetError, TypeOK
  <2> QED
    BY <2>1, <2>2, <2>3
<1>3. result' \in -1 .. MaxSize
  BY <1>1, <1>2, DatagramAssumption DEF TypeOK, DatagramInv, NeverDisconnected
<1>4. DatagramsTold' /\ AnswersReturn'
  BY <1>2 DEF DatagramInv, DatagramsTold, AnswersReturn
<1>5. /\ taken' \subseteq DOMAIN msgs
      /\ \A t \in told' : Sent(t[1])
      /\ \A a \in out' : Sent(a[1])
  BY <1>2 DEF DatagramInv, Sent
<1> QED
  BY <1>2, <1>3, <1>4, <1>5, DatagramRest

\* socket_impl_send reports as sent only a datagram that the kernel took, which
\* it does with an address or on a connected socket.
LEMMA SendTakes ==
  ASSUME NEW dest, NEW r \in sendto(dest), SendResult(r) > 0
  PROVE  dest # NullSockAddr \/ peer # NoAddr
BY DEF sendto, SendResult, Fails, Length

\* socket_impl_send, to the address a datagram came with or to none.
LEMMA DatagramAnswered ==
  ASSUME DatagramInv, NEW t \in told, NEW to \in {t[2], NoAddr},
         socket_impl_send(t, to)
  PROVE  DatagramInv'
<1> DEFINE dest == convert_sockaddr(to)
           from == msgs[t[1]].from
<1>1. PICK r \in sendto(dest) :
        out' = IF SendResult(r) <= 0 THEN out
               ELSE out \cup {<<t[1], IF dest = NullSockAddr THEN Wire(peer)
                                                             ELSE dest>>}
  BY DEF socket_impl_send
<1>2. /\ error' = FALSE
      /\ UNCHANGED <<type, peer, msgs, queue, taken, addr, result, told>>
  BY DEF socket_impl_send
<1>3. /\ t[1] \in DOMAIN msgs /\ t[2] = from /\ from \in Peers
      /\ peer \in {from, NoAddr}
  BY SentType DEF DatagramInv, DatagramsTold, Sent, FromPeer
<1>4. /\ to = from => dest = Wire(from) /\ dest # NullSockAddr
      /\ to = NoAddr => dest = NullSockAddr
  BY <1>3, AddressKept DEF convert_sockaddr, NoAddr
<1>5. SendResult(r) \in Int
  BY DEF sendto, SendResult, Fails, Length
<1>6. out' = out \/ out' = out \cup {<<t[1], Wire(from)>>}
  <2>1. CASE SendResult(r) <= 0
    BY <1>1, <2>1
  <2>2. CASE SendResult(r) > 0
    <3>1. dest # NullSockAddr \/ peer # NoAddr
      BY <2>2, SendTakes
    <3>2. (IF dest = NullSockAddr THEN Wire(peer) ELSE dest) = Wire(from)
      BY <1>3, <1>4, <3>1
    <3> QED
      BY <1>1, <1>5, <2>2, <3>2
  <2> QED
    BY <1>5, <2>1, <2>2
<1> HIDE DEF dest
<1>7. (\A a \in out' : Sent(a[1])) /\ AnswersReturn'
  BY <1>2, <1>3, <1>6 DEF DatagramInv, AnswersReturn, Sent
<1>8. result' \in -1 .. MaxSize
  BY <1>2, DatagramAssumption DEF TypeOK, DatagramInv, NeverDisconnected
<1>9. /\ taken' \subseteq DOMAIN msgs
      /\ \A u \in told' : Sent(u[1])
      /\ DatagramsTold'
  BY <1>2 DEF DatagramInv, Sent, DatagramsTold
<1> QED
  BY <1>2, <1>7, <1>8, <1>9, DatagramRest, Zenon

\* Nothing happens to the datagrams.
LEMMA DatagramSame ==
  ASSUME DatagramInv, UNCHANGED vars
  PROVE  DatagramInv'
BY DEF vars, DatagramInv, TypeOK, InKernel, FromPeer, Sent, NeverDisconnected,
       DatagramsTold, AnswersReturn

\* Every step of a datagram socket keeps the invariant.
LEMMA DatagramNext ==
  ASSUME DatagramInv, Next
  PROVE  DatagramInv'
BY DatagramSent, DatagramReceived, DatagramNotTaken, DatagramAnswered DEF Next
-----------------------------------------------------------------------------
(* The bytes of a stream *)

\* A stretch of a stream, as a sequence.
LEMMA BytesSeq ==
  ASSUME NEW f \in Nat, NEW n \in Nat
  PROVE  /\ Stream!Bytes(f, n) \in Seq(Nat) /\ Len(Stream!Bytes(f, n)) = n
         /\ \A i \in 1 .. n : Stream!Bytes(f, n)[i] = f + i
BY DEF Stream!Bytes

\* Two stretches, the second of which begins where the first ends.
LEMMA BytesJoin ==
  ASSUME NEW f \in Nat, NEW m \in Nat, NEW n \in Nat
  PROVE  Stream!Bytes(f, m) \o Stream!Bytes(f + m, n) = Stream!Bytes(f, m + n)
BY DEF Stream!Bytes

\* The first n bytes of a stretch, and the others.
LEMMA BytesCut ==
  ASSUME NEW f \in Nat, NEW m \in Nat, NEW n \in 0 .. m
  PROVE  /\ SubSeq(Stream!Bytes(f, m), 1, n) = Stream!Bytes(f, n)
         /\ SubSeq(Stream!Bytes(f, m), n + 1, m) = Stream!Bytes(f + n, m - n)
<1>1. SubSeq(Stream!Bytes(f, m), 1, n) = Stream!Bytes(f, n)
  BY DEF Stream!Bytes
<1>2. SubSeq(Stream!Bytes(f, m), n + 1, m) = Stream!Bytes(f + n, m - n)
  BY DEF Stream!Bytes
<1> QED
  BY <1>1, <1>2

\* A stretch of no bytes.
LEMMA BytesNone ==
  ASSUME NEW f \in Nat
  PROVE  Stream!Bytes(f, 0) = <<>>
BY DEF Stream!Bytes

\* Two stretches that begin with the stream, as the pipes compare them.
LEMMA BytesPrefix ==
  ASSUME NEW m \in Nat, NEW n \in Nat, m <= n
  PROVE  /\ Stream!In!Begins(Stream!Bytes(0, m), Stream!Bytes(0, n))
         /\ Stream!Out!Begins(Stream!Bytes(0, m), Stream!Bytes(0, n))
         /\ m < n =>
              /\ Stream!In!Extended(Stream!Bytes(0, m), Stream!Bytes(0, n))
              /\ Stream!Out!Extended(Stream!Bytes(0, m), Stream!Bytes(0, n))
<1>1. Stream!In!Begins(Stream!Bytes(0, m), Stream!Bytes(0, n))
  BY BytesSeq, BytesCut DEF Stream!In!Begins
<1>2. Stream!Out!Begins(Stream!Bytes(0, m), Stream!Bytes(0, n))
  BY BytesSeq, BytesCut DEF Stream!Out!Begins
<1>3. m < n => Stream!Bytes(0, m) # Stream!Bytes(0, n)
  BY BytesSeq
<1> QED
  BY <1>1, <1>2, <1>3 DEF Stream!In!Extended, Stream!Out!Extended
-----------------------------------------------------------------------------
(* The stream *)

\* libmobile was given exactly the bytes that were taken out of the kernel, and
\* the end is known, to the kernel and to libmobile, only behind the last byte.
Received ==
  /\ got = Stream!Bytes(0, read)
  /\ fin => peer_ended /\ arrived = peer_sent
  /\ received = -2 => ~open /\ peer_ended /\ read = peer_sent

\* The bytes libmobile was told are sent are those the peer was given and, next
\* in the stream, those in the kernel.
Delivered ==
  /\ peer_got = Stream!Bytes(0, Len(peer_got))
  /\ outq = Stream!Bytes(Len(peer_got), Len(outq))
  /\ sent = Len(peer_got) + Len(outq)

\* The inductive invariant of the stream.
StreamInv == Stream!TypeOK /\ Received /\ Delivered

\* The numbers of StreamInv.
LEMMA StreamNumbers ==
  ASSUME StreamInv
  PROVE  /\ MaxBytes \in Nat /\ Room \in Nat /\ MaxSize \in Nat
         /\ peer_sent \in Nat /\ arrived \in Nat /\ read \in Nat /\ sent \in Nat
         /\ read <= arrived /\ arrived <= peer_sent /\ peer_sent <= MaxBytes
         /\ sent <= MaxBytes
         /\ Len(outq) \in Nat /\ Len(peer_got) \in Nat /\ Len(outq) <= Room
         /\ received \in Int
<1>1. /\ peer_sent \in 0 .. MaxBytes /\ arrived \in 0 .. peer_sent /\ read \in 0 .. arrived
      /\ sent \in 0 .. MaxBytes /\ received \in -2 .. MaxSize
      /\ outq \in Seq(Nat) /\ peer_got \in Seq(Nat) /\ Len(outq) <= Room
  BY Zenon DEF StreamInv, Stream!TypeOK
<1>2. MaxBytes \in Nat /\ Room \in Nat /\ MaxSize \in Nat
  BY StreamAssumption, DatagramAssumption
<1>3. Len(outq) \in Nat /\ Len(peer_got) \in Nat
  BY <1>1
<1>4. /\ peer_sent \in Nat /\ arrived \in Nat /\ read \in Nat
      /\ read <= arrived /\ arrived <= peer_sent /\ peer_sent <= MaxBytes
  BY <1>1, <1>2
<1>5. sent \in Nat /\ sent <= MaxBytes /\ received \in Int
  BY <1>1, <1>2
<1> QED
  BY <1>1, <1>2, <1>3, <1>4, <1>5

\* A step that moves libmobile's end of the incoming pipe forward, or the
\* peer's, or tells one of the end, is a step of the pipe.
LEMMA InStep ==
  ASSUME StreamInv, StreamInv',
         \/ /\ ~peer_ended /\ peer_sent' > peer_sent
            /\ UNCHANGED <<peer_ended, read, received>>
         \/ ~peer_ended /\ peer_ended' /\ UNCHANGED <<peer_sent, read, received>>
         \/ /\ read' >= read /\ received # -2 /\ received' # -2
            /\ UNCHANGED <<peer_sent, peer_ended>>
         \/ received' = -2 /\ UNCHANGED <<peer_sent, peer_ended, read>>
         \/ UNCHANGED <<peer_sent, peer_ended, read, received>>
  PROVE  [Stream!In!Next]_(Stream!In!vars)
<1> DEFINE W == Stream!Bytes(0, peer_sent)
           V == Stream!Bytes(0, peer_sent')
<1>1. /\ peer_sent \in Nat /\ peer_sent' \in Nat
      /\ read \in Nat /\ read' \in Nat /\ read' <= peer_sent'
      /\ got = Stream!Bytes(0, read) /\ got' = Stream!Bytes(0, read')
      /\ peer_ended \in BOOLEAN /\ peer_ended' \in BOOLEAN
  BY StreamNumbers, StreamAssumption DEF StreamInv, Stream!TypeOK, Received
<1>2. (received' = -2) => peer_ended' /\ read' = peer_sent'
  BY DEF StreamInv, Received
<1>3. CASE /\ ~peer_ended /\ peer_sent' > peer_sent
           /\ UNCHANGED <<peer_ended, read, received>>
  <2>1. Stream!In!Extended(W, V)
    BY <1>1, <1>3, BytesPrefix
  <2>2. got' = got
    BY <1>1, <1>3
  <2> QED
    BY <1>3, <2>1, <2>2 DEF Stream!In!Next, Stream!In!Write
<1>4. CASE ~peer_ended /\ peer_ended' /\ UNCHANGED <<peer_sent, read, received>>
  BY <1>1, <1>4 DEF Stream!In!Next, Stream!In!Finish
<1>5. CASE /\ read' >= read /\ received # -2 /\ received' # -2
           /\ UNCHANGED <<peer_sent, peer_ended>>
  <2>1. CASE read' > read
    <3>1. Stream!In!Extended(got, got') /\ Stream!In!Begins(got', W)
      BY <1>1, <1>5, <2>1, BytesPrefix
    <3> QED
      BY <1>5, <3>1 DEF Stream!In!Next, Stream!In!Read
  <2>2. CASE read' = read
    BY <1>1, <1>5, <2>2 DEF Stream!In!vars
  <2> QED
    BY <1>1, <1>5, <2>1, <2>2
<1>6. CASE received' = -2 /\ UNCHANGED <<peer_sent, peer_ended, read>>
  <2>1. peer_ended /\ got = W /\ got' = got
    BY <1>1, <1>2, <1>6
  <2> QED
    BY <1>6, <2>1 DEF Stream!In!Next, Stream!In!SeeEnd
<1>7. CASE UNCHANGED <<peer_sent, peer_ended, read, received>>
  BY <1>1, <1>7 DEF Stream!In!vars
<1> QED
  BY <1>3, <1>4, <1>5, <1>6, <1>7

\* A step that moves one end of the outgoing pipe forward is a step of it.
LEMMA OutStep ==
  ASSUME StreamInv, StreamInv',
         \/ sent' >= sent /\ UNCHANGED peer_got
         \/ Len(peer_got') > Len(peer_got) /\ UNCHANGED sent
  PROVE  [Stream!Out!Next]_(Stream!Out!vars)
<1>1. /\ sent \in Nat /\ sent' \in Nat
      /\ Len(peer_got) \in Nat /\ Len(peer_got') \in Nat
      /\ Len(peer_got') <= sent'
      /\ peer_got = Stream!Bytes(0, Len(peer_got))
      /\ peer_got' = Stream!Bytes(0, Len(peer_got'))
  <2>1. sent \in Nat /\ Len(peer_got) \in Nat
    BY StreamNumbers
  <2>2. Len(peer_got') \in Nat /\ Len(outq') \in Nat
    <3>1. peer_got' \in Seq(Nat) /\ outq' \in Seq(Nat)
      BY Zenon DEF StreamInv, Stream!TypeOK
    <3> QED
      BY <3>1
  <2>3. /\ peer_got = Stream!Bytes(0, Len(peer_got))
        /\ peer_got' = Stream!Bytes(0, Len(peer_got'))
        /\ sent' = Len(peer_got') + Len(outq')
    BY DEF StreamInv, Delivered
  <2> QED
    BY <2>1, <2>2, <2>3
<1>2. CASE sent' > sent /\ UNCHANGED peer_got
  <2>1. Stream!Out!Extended(Stream!Bytes(0, sent), Stream!Bytes(0, sent'))
    BY <1>1, <1>2, BytesPrefix
  <2> QED
    BY <1>2, <2>1 DEF Stream!Out!Next, Stream!Out!Write
<1>3. CASE Len(peer_got') > Len(peer_got) /\ UNCHANGED sent
  <2>1. /\ Stream!Out!Extended(peer_got, peer_got')
        /\ Stream!Out!Begins(peer_got', Stream!Bytes(0, sent))
    BY <1>1, <1>3, BytesPrefix
  <2> QED
    BY <1>3, <2>1 DEF Stream!Out!Next, Stream!Out!Read
<1>4. CASE sent' = sent /\ UNCHANGED peer_got
  BY <1>4 DEF Stream!Out!vars
<1> QED
  BY <1>1, <1>2, <1>3, <1>4

\* What a step of the stream does, as the invariant and the pipes have it.
StreamStep ==
  /\ StreamInv'
  /\ [Stream!In!Next]_(Stream!In!vars)
  /\ [Stream!Out!Next]_(Stream!Out!vars)

\* The peer, and what the network brings of it.
LEMMA StreamArrives ==
  ASSUME StreamInv,
         \/ Stream!PeerSend \/ Stream!PeerEnd
         \/ Stream!NetArrive \/ Stream!NetFin \/ Stream!NetReset
  PROVE  StreamStep
<1>1. /\ UNCHANGED <<open, read, got, received, killed, sent, outq, peer_got>>
      /\ peer_sent' \in peer_sent .. MaxBytes
      /\ arrived' \in arrived .. peer_sent'
      /\ {peer_ended', fin', reset'} \subseteq BOOLEAN
      /\ peer_ended => peer_ended' /\ peer_sent' = peer_sent
      /\ fin' => peer_ended' /\ arrived' = peer_sent'
  <2>0. /\ peer_sent \in Nat /\ arrived \in Nat /\ MaxBytes \in Nat
        /\ arrived <= peer_sent /\ peer_sent <= MaxBytes
    BY StreamNumbers
  <2> USE <2>0
  <2>1. CASE Stream!PeerSend
    <3>1. /\ {peer_ended, fin, reset} \subseteq BOOLEAN /\ ~peer_ended
          /\ fin => peer_ended
          /\ UNCHANGED <<open, read, got, received, killed, sent, outq, peer_got,
                         arrived, peer_ended, fin, reset>>
      BY <2>1, Zenon
      DEF Stream!PeerSend, Stream!outVars, StreamInv, Stream!TypeOK, Received
    <3>2. peer_sent' \in peer_sent .. MaxBytes /\ arrived \in arrived .. peer_sent'
      BY <2>1 DEF Stream!PeerSend
    <3> QED
      BY <3>1, <3>2, Zenon
  <2>2. CASE Stream!PeerEnd
    BY <2>2 DEF Stream!PeerEnd, Stream!outVars, StreamInv, Stream!TypeOK, Received
  <2>3. CASE Stream!NetArrive
    BY <2>3 DEF Stream!NetArrive, Stream!outVars, StreamInv, Stream!TypeOK, Received
  <2>4. CASE Stream!NetFin
    BY <2>4 DEF Stream!NetFin, Stream!inVars, Stream!outVars, StreamInv,
                Stream!TypeOK, Received
  <2>5. CASE Stream!NetReset
    BY <2>5 DEF Stream!NetReset, Stream!inVars, Stream!outVars, StreamInv,
                Stream!TypeOK, Received
  <2> QED
    BY <2>1, <2>2, <2>3, <2>4, <2>5
<1>2. Stream!TypeOK'
  <2>1. {open', peer_ended', fin', reset', killed'} \subseteq BOOLEAN
    BY <1>1, Zenon DEF StreamInv, Stream!TypeOK
  <2>2. /\ peer_sent' \in 0 .. MaxBytes /\ arrived' \in 0 .. peer_sent'
        /\ read' \in 0 .. arrived'
    BY <1>1, StreamNumbers
  <2>3. /\ got' \in Seq(Nat) /\ Len(got') <= read' /\ received' \in -2 .. MaxSize
        /\ sent' \in 0 .. MaxBytes /\ outq' \in Seq(Nat) /\ Len(outq') <= Room
        /\ peer_got' \in Seq(Nat)
    BY <1>1, Zenon DEF StreamInv, Stream!TypeOK
  <2> QED
    BY <2>1, <2>2, <2>3, Zenon DEF Stream!TypeOK
<1>3. Received' /\ Delivered'
  BY <1>1 DEF StreamInv, Received, Delivered
<1>4. StreamInv'
  BY <1>2, <1>3 DEF StreamInv
<1>5. \/ ~peer_ended /\ peer_sent' > peer_sent /\ UNCHANGED peer_ended
      \/ ~peer_ended /\ peer_ended' /\ UNCHANGED peer_sent
      \/ UNCHANGED <<peer_sent, peer_ended>>
  BY StreamNumbers DEF Stream!PeerSend, Stream!PeerEnd, Stream!NetArrive,
     Stream!NetFin, Stream!NetReset, Stream!inVars
<1>6. [Stream!In!Next]_(Stream!In!vars)
  BY <1>1, <1>4, <1>5, InStep
<1>7. [Stream!Out!Next]_(Stream!Out!vars)
  BY <1>1, <1>4, StreamNumbers, OutStep
<1> QED
  BY <1>4, <1>6, <1>7 DEF StreamStep

\* The network takes bytes from the kernel to the peer.
LEMMA StreamLeaves ==
  ASSUME StreamInv, Stream!NetSend
  PROVE  StreamStep
<1> DEFINE g == Len(peer_got)
           q == Len(outq)
<1>1. /\ g \in Nat /\ q \in Nat /\ q <= Room /\ sent = g + q
      /\ peer_got = Stream!Bytes(0, g) /\ outq = Stream!Bytes(g, q)
  BY StreamNumbers DEF StreamInv, Delivered
<1>2. PICK n \in 1 .. q :
        /\ peer_got' = peer_got \o SubSeq(outq, 1, n)
        /\ outq' = SubSeq(outq, n + 1, q)
  BY Zenon DEF Stream!NetSend
<1>3. UNCHANGED <<open, fin, reset, killed, peer_sent, peer_ended, arrived, read,
                  got, received, sent>>
  BY DEF Stream!NetSend, Stream!inVars
<1> HIDE DEF g, q
<1>4. peer_got' = Stream!Bytes(0, g + n) /\ outq' = Stream!Bytes(g + n, q - n)
  <2>1. g \in Nat /\ q \in Nat /\ n \in 0 .. q /\ n \in Nat /\ 0 + g = g
    BY <1>1
  <2>2. /\ SubSeq(Stream!Bytes(g, q), 1, n) = Stream!Bytes(g, n)
        /\ SubSeq(Stream!Bytes(g, q), n + 1, q) = Stream!Bytes(g + n, q - n)
    BY <2>1, BytesCut, Zenon
  <2>3. Stream!Bytes(0, g) \o Stream!Bytes(0 + g, n) = Stream!Bytes(0, g + n)
    BY <2>1, BytesJoin, Zenon
  <2> QED
    BY <1>1, <1>2, <2>1, <2>2, <2>3, Zenon
<1>5. /\ peer_got' \in Seq(Nat) /\ Len(peer_got') = g + n
      /\ outq' \in Seq(Nat) /\ Len(outq') = q - n
  <2>1. g + n \in Nat /\ q - n \in Nat
    BY <1>1
  <2> QED
    BY <1>4, <2>1, BytesSeq
<1>6. Delivered'
  <2>1. (g + n) + (q - n) = g + q
    BY <1>1
  <2> QED
    BY <1>1, <1>3, <1>4, <1>5, <2>1, Zenon DEF Delivered
<1>7. Stream!TypeOK'
  <2>1. Len(outq') <= Room
    <3>1. Room \in Nat /\ q <= Room
      BY StreamNumbers DEF q
    <3> QED
      BY <1>1, <1>5, <3>1
  <2>2. /\ {open', peer_ended', fin', reset', killed'} \subseteq BOOLEAN
        /\ peer_sent' \in 0 .. MaxBytes /\ arrived' \in 0 .. peer_sent'
        /\ read' \in 0 .. arrived' /\ sent' \in 0 .. MaxBytes
        /\ got' \in Seq(Nat) /\ Len(got') <= read' /\ received' \in -2 .. MaxSize
    BY <1>3, Zenon DEF StreamInv, Stream!TypeOK
  <2> QED
    BY <1>5, <2>1, <2>2, Zenon DEF Stream!TypeOK
<1>8. Received'
  BY <1>3 DEF StreamInv, Received
<1>9. StreamInv'
  BY <1>6, <1>7, <1>8 DEF StreamInv
<1>10. [Stream!In!Next]_(Stream!In!vars)
  BY <1>3, <1>9, InStep
<1>11. Len(peer_got') > Len(peer_got)
  BY <1>1, <1>2, <1>5 DEF g
<1>12. [Stream!Out!Next]_(Stream!Out!vars)
  BY <1>3, <1>9, <1>11, OutStep
<1> QED
  BY <1>9, <1>10, <1>12 DEF StreamStep

\* What socket_impl_recv returns for a stream: the bytes it stores, none if it
\* only looks or there are none, and -2 at the end.
LEMMA StreamResults ==
  /\ \A n \in Nat \ {0} : /\ Stream!RecvResult(Stream!Length(n), TRUE, TRUE) = n
                          /\ Stream!RecvResult(Stream!Length(n), TRUE, FALSE) = 0
  /\ \A data : /\ Stream!RecvResult(Stream!Length(0), TRUE, data) = -2
               /\ Stream!RecvResult(Stream!Fails("EWOULDBLOCK"), TRUE, data) = 0
               /\ Stream!RecvResult(Stream!Fails("ECONNRESET"), TRUE, data) = -1
BY DEF Stream!RecvResult, Stream!Length, Stream!Fails

\* A receive that takes n bytes out of the kernel and returns res.
Takes(n, res) ==
  /\ read' = read + n
  /\ got' = got \o (IF res > 0 THEN Stream!Bytes(read, res) ELSE <<>>)
  /\ received' = res
  /\ open' = (res >= 0)
  /\ UNCHANGED <<fin, reset, killed, peer_sent, peer_ended, arrived, sent, outq,
                 peer_got>>

LEMMA ReceiveTakes ==
  ASSUME NEW r, NEW n, NEW data, Stream!Receive(r, n, data)
  PROVE  Takes(n, Stream!RecvResult(r, TRUE, data))
BY Zenon DEF Stream!Receive, Stream!outVars, Takes

\* It keeps the stream when it returns what it took, or takes nothing and
\* returns no bytes.
LEMMA StreamTakes ==
  ASSUME StreamInv, open, NEW n \in 0 .. (arrived - read),
         NEW res \in -2 .. MaxSize, Takes(n, res),
         \/ res = n
         \/ n = 0 /\ res \in {-1, 0}
         \/ n = 0 /\ res = -2 /\ read = arrived /\ fin
  PROVE  StreamStep
<1>1. /\ read' = read + n
      /\ got' = got \o (IF res > 0 THEN Stream!Bytes(read, res) ELSE <<>>)
      /\ received' = res
      /\ open' = (res >= 0)
      /\ UNCHANGED <<fin, reset, killed, peer_sent, peer_ended, arrived, sent, outq,
                     peer_got>>
  BY Zenon DEF Takes
<1>2. /\ n \in Nat /\ res \in Int
      /\ read \in Nat /\ arrived \in Nat /\ read + n \in 0 .. arrived
      /\ res > 0 => res = n
      /\ res <= 0 => n = 0
  <2>1. read \in Nat /\ arrived \in Nat /\ MaxSize \in Nat
    BY StreamNumbers
  <2> QED
    BY <2>1
<1>3. /\ got = Stream!Bytes(0, read) /\ got \in Seq(Nat)
      /\ fin => peer_ended /\ arrived = peer_sent
      /\ received # -2
  BY DEF StreamInv, Received, Stream!TypeOK
<1>4. got' = Stream!Bytes(0, read')
  <2>1. CASE res > 0
    <3>1. Stream!Bytes(0, read) \o Stream!Bytes(0 + read, n)
            = Stream!Bytes(0, read + n)
      BY <1>2, BytesJoin, Zenon
    <3>2. 0 + read = read
      BY <1>2
    <3> QED
      BY <1>1, <1>2, <1>3, <2>1, <3>1, <3>2
  <2>2. CASE res <= 0
    <3>1. read' = read
      BY <1>1, <1>2, <2>2
    <3>2. ~(res > 0)
      BY <1>2, <2>2
    <3>3. got' = got \o <<>>
      BY <1>1, <3>2
    <3> QED
      BY <1>3, <3>1, <3>3
  <2> QED
    BY <1>2, <2>1, <2>2
<1>5. got' \in Seq(Nat) /\ Len(got') = read'
  <2>1. read' \in Nat
    BY <1>1, <1>2
  <2> QED
    BY <1>4, <2>1, BytesSeq
<1>6. Stream!TypeOK'
  BY <1>1, <1>2, <1>5, StreamNumbers DEF StreamInv, Stream!TypeOK
<1>7. Received'
  <2>1. fin' => peer_ended' /\ arrived' = peer_sent'
    BY <1>1, <1>3
  <2>2. received' = -2 => ~open' /\ peer_ended' /\ read' = peer_sent'
    <3> SUFFICES ASSUME res = -2
                 PROVE  ~open' /\ peer_ended /\ read' = peer_sent
      BY <1>1
    <3>1. n = 0 /\ read = arrived /\ fin
      BY <1>2
    <3>2. ~(res >= 0)
      OBVIOUS
    <3>3. ~open'
      BY <1>1, <3>2, Zenon
    <3> QED
      BY <1>1, <1>2, <1>3, <3>1, <3>3
  <2> QED
    BY <1>4, <2>1, <2>2 DEF Received
<1>8. Delivered'
  BY <1>1 DEF StreamInv, Delivered
<1>9. StreamInv'
  BY <1>6, <1>7, <1>8 DEF StreamInv
<1>10. [Stream!In!Next]_(Stream!In!vars)
  <2>1. CASE res = -2
    BY <1>1, <1>2, <1>9, <2>1, InStep
  <2>2. CASE res # -2
    BY <1>1, <1>2, <1>3, <1>9, <2>2, InStep
  <2> QED
    BY <2>1, <2>2
<1>11. [Stream!Out!Next]_(Stream!Out!vars)
  <2>1. sent' = sent /\ UNCHANGED peer_got
    BY <1>1
  <2>2. sent \in Nat
    BY StreamNumbers
  <2>3. sent' >= sent
    BY <2>1, <2>2
  <2> QED
    BY <1>9, <2>1, <2>3, OutStep
<1> QED
  BY <1>9, <1>10, <1>11 DEF StreamStep

\* What recvfrom may answer: bytes that have arrived, the end behind the last of
\* them, or an error.
LEMMA StreamAnswers ==
  ASSUME StreamInv, NEW size \in 1 .. MaxSize, NEW r \in Stream!recvfrom(size)
  PROVE  \/ \E n \in 1 .. (arrived - read) : n <= size /\ r = Stream!Length(n)
         \/ r = Stream!Fails("ECONNRESET")
         \/ read = arrived /\ fin /\ r = Stream!Length(0)
<1>1. CASE r \in {Stream!Length(n) : n \in 1 .. Stream!Min2(size, arrived - read)}
  <2>1. PICK n \in 1 .. Stream!Min2(size, arrived - read) : r = Stream!Length(n)
    BY <1>1
  <2>2. arrived - read \in Int
    BY StreamNumbers
  <2>3. n \in 1 .. (arrived - read) /\ n <= size
    BY <2>2, DatagramAssumption DEF Stream!Min2
  <2> QED
    BY <2>1, <2>3
<1>2. CASE reset /\ r = Stream!Fails("ECONNRESET")
  BY <1>2
<1>3. CASE read = arrived /\ fin /\ ~reset /\ r = Stream!Length(0)
  BY <1>3
<1> QED
  BY <1>1, <1>2, <1>3 DEF Stream!recvfrom

\* socket_impl_recv of a stream, with a buffer and without.
LEMMA StreamReceived ==
  ASSUME StreamInv,
         \/ \E size \in 1 .. MaxSize : Stream!socket_impl_recv(size)
         \/ Stream!socket_impl_recv_none
         \/ Stream!socket_impl_recv_peek
  PROVE  StreamStep
<1>1. 0 \in 0 .. (arrived - read) /\ {-2, -1, 0} \subseteq -2 .. MaxSize
  <2>1. arrived \in Nat /\ read \in Nat /\ read <= arrived /\ MaxSize \in Nat
    BY StreamNumbers
  <2> QED
    BY <2>1
<1>2. CASE \E size \in 1 .. MaxSize : Stream!socket_impl_recv(size)
  <2>1. PICK size \in 1 .. MaxSize : Stream!socket_impl_recv(size)
    BY <1>2
  <2>2. PICK r \in Stream!recvfrom(size) :
          open /\ Stream!Receive(r, IF r.len > 0 THEN r.len ELSE 0, TRUE)
    BY <2>1, Zenon DEF Stream!socket_impl_recv
  <2>3. CASE \E n \in 1 .. (arrived - read) : n <= size /\ r = Stream!Length(n)
    <3>1. PICK n \in 1 .. (arrived - read) : n <= size /\ r = Stream!Length(n)
      BY <2>3
    <3>2. /\ n \in 0 .. (arrived - read) /\ n \in Nat \ {0}
          /\ n \in -2 .. MaxSize /\ n > 0
      <4>1. arrived \in Nat /\ read \in Nat /\ MaxSize \in Nat
        BY StreamNumbers
      <4> QED
        BY <3>1, <4>1
    <3>3. r.len = n
      BY <3>1 DEF Stream!Length
    <3>4. Takes(n, Stream!RecvResult(r, TRUE, TRUE))
      BY <2>2, <3>2, <3>3, ReceiveTakes, Zenon
    <3>5. Takes(n, n)
      BY <3>1, <3>2, <3>4, StreamResults, Zenon
    <3> QED
      BY <2>2, <3>2, <3>5, StreamTakes
  <2>4. CASE r = Stream!Fails("ECONNRESET")
    <3>1. r.len = -1
      BY <2>4 DEF Stream!Fails
    <3>2. ~(r.len > 0)
      BY <3>1
    <3>3. Takes(0, Stream!RecvResult(r, TRUE, TRUE))
      BY <2>2, <3>2, ReceiveTakes, Zenon
    <3>4. Takes(0, -1)
      BY <2>4, <3>3, StreamResults, Zenon
    <3> QED
      BY <1>1, <2>2, <3>4, StreamTakes
  <2>5. CASE read = arrived /\ fin /\ r = Stream!Length(0)
    <3>1. r.len = 0
      BY <2>5 DEF Stream!Length
    <3>2. ~(r.len > 0)
      BY <3>1
    <3>3. Takes(0, Stream!RecvResult(r, TRUE, TRUE))
      BY <2>2, <3>2, ReceiveTakes, Zenon
    <3>4. Takes(0, -2)
      BY <2>5, <3>3, StreamResults, Zenon
    <3> QED
      BY <1>1, <2>2, <2>5, <3>4, StreamTakes
  <2> QED
    BY <2>3, <2>4, <2>5, StreamAnswers
<1>3. CASE Stream!socket_impl_recv_none
  <2>1. PICK data \in BOOLEAN :
          open /\ Stream!Receive(Stream!Fails("EWOULDBLOCK"), 0, data)
    BY <1>3 DEF Stream!socket_impl_recv_none
  <2>2. Takes(0, Stream!RecvResult(Stream!Fails("EWOULDBLOCK"), TRUE, data))
    BY <2>1, ReceiveTakes, Zenon
  <2>3. Takes(0, 0)
    BY <2>2, StreamResults, Zenon
  <2> QED
    BY <1>1, <2>1, <2>3, StreamTakes
<1>4. CASE Stream!socket_impl_recv_peek
  <2>1. PICK r \in Stream!recvfrom(1) : open /\ Stream!Receive(r, 0, FALSE)
    BY <1>4, Zenon DEF Stream!socket_impl_recv_peek
  <2> DEFINE res == Stream!RecvResult(r, TRUE, FALSE)
  <2>2. 1 \in 1 .. MaxSize
    BY DatagramAssumption
  <2>3. res \in {-1, 0} \/ (res = -2 /\ read = arrived /\ fin)
    <3>1. CASE \E n \in 1 .. (arrived - read) : n <= 1 /\ r = Stream!Length(n)
      <4>1. PICK n \in 1 .. (arrived - read) : n <= 1 /\ r = Stream!Length(n)
        BY <3>1
      <4>2. n \in Nat \ {0}
        BY <4>1, StreamNumbers
      <4> QED
        BY <4>1, <4>2, StreamResults, Zenon
    <3>2. CASE r = Stream!Fails("ECONNRESET")
      BY <3>2, StreamResults, Zenon
    <3>3. CASE read = arrived /\ fin /\ r = Stream!Length(0)
      BY <3>3, StreamResults, Zenon
    <3> QED
      BY <2>2, <3>1, <3>2, <3>3, StreamAnswers, Zenon
  <2>4. Takes(0, res)
    BY <2>1, ReceiveTakes, Zenon
  <2> HIDE DEF res
  <2>5. CASE res \in {-1, 0}
    BY <1>1, <2>1, <2>4, <2>5, StreamTakes
  <2>6. CASE res = -2 /\ read = arrived /\ fin
    BY <1>1, <2>1, <2>4, <2>6, StreamTakes
  <2> QED
    BY <2>3, <2>5, <2>6
<1> QED
  BY <1>2, <1>3, <1>4

\* What socket_impl_send returns.
LEMMA SendResults ==
  /\ \A n \in Nat : Stream!SendResult(Stream!Length(n)) = n
  /\ Stream!SendResult(Stream!Fails("EWOULDBLOCK")) = 0
  /\ Stream!SendResult(Stream!Fails("ECONNRESET")) = -1
BY DEF Stream!SendResult, Stream!Length, Stream!Fails

\* A send keeps the stream when it returns the number of bytes the kernel took,
\* or that of none.
LEMMA StreamPuts ==
  ASSUME StreamInv, open, NEW n \in 0 .. (Room - Len(outq)),
         NEW res \in Int, Stream!Send(n, res), sent + n <= MaxBytes,
         \/ res = n
         \/ n = 0 /\ res = -1
  PROVE  StreamStep
<1> DEFINE g == Len(peer_got)
           q == Len(outq)
<1>1. /\ outq' = outq \o Stream!Bytes(sent, n)
      /\ sent' = sent + (IF res > 0 THEN res ELSE 0)
      /\ open' = (res >= 0)
      /\ UNCHANGED <<fin, reset, killed, peer_sent, peer_ended, arrived, read, got,
                     received, peer_got>>
  BY Zenon DEF Stream!Send, Stream!inVars
<1>2. /\ n \in Nat /\ q \in Nat /\ g \in Nat /\ Room \in Nat /\ MaxBytes \in Nat
      /\ q + n <= Room /\ sent \in Nat /\ sent + n <= MaxBytes
      /\ res > 0 => res = n
      /\ ~(res > 0) => n = 0
  <2>1. q \in Nat /\ g \in Nat /\ Room \in Nat /\ MaxBytes \in Nat /\ sent \in Nat
    BY StreamNumbers
  <2> HIDE DEF g, q
  <2>2. n \in 0 .. (Room - q)
    BY DEF q
  <2>3. n \in Nat /\ q + n <= Room
    BY <2>1, <2>2
  <2> QED
    BY <2>1, <2>3
<1>3. sent = g + q /\ peer_got = Stream!Bytes(0, g) /\ outq = Stream!Bytes(g, q)
  BY DEF StreamInv, Delivered
<1> HIDE DEF g, q
<1>4. sent' = sent + n
  BY <1>1, <1>2
<1>5. outq' = Stream!Bytes(g, q + n)
  <2>1. Stream!Bytes(g, q) \o Stream!Bytes(g + q, n) = Stream!Bytes(g, q + n)
    <3>1. g \in Nat /\ q \in Nat /\ n \in Nat
      BY <1>2
    <3> QED
      BY <3>1, BytesJoin, Zenon
  <2> QED
    BY <1>1, <1>3, <2>1
<1>6. outq' \in Seq(Nat) /\ Len(outq') = q + n
  <2>1. q + n \in Nat
    BY <1>2
  <2> QED
    BY <1>2, <1>5, <2>1, BytesSeq
<1>7. Delivered'
  <2>1. Len(peer_got') = g /\ peer_got' = peer_got
    BY <1>1 DEF g
  <2>2. sent' = g + (q + n)
    BY <1>2, <1>3, <1>4
  <2> QED
    BY <1>3, <1>5, <1>6, <2>1, <2>2 DEF Delivered
<1>8. Received'
  <2>1. received # -2
    BY DEF StreamInv, Received
  <2> QED
    BY <1>1, <2>1 DEF StreamInv, Received
<1>9. Stream!TypeOK'
  <2>1. open' \in BOOLEAN
    BY <1>1
  <2>2. sent' \in 0 .. MaxBytes /\ Len(outq') <= Room
    BY <1>2, <1>4, <1>6
  <2> QED
    BY <1>1, <1>6, <2>1, <2>2 DEF StreamInv, Stream!TypeOK
<1>10. StreamInv'
  BY <1>7, <1>8, <1>9 DEF StreamInv
<1>11. [Stream!In!Next]_(Stream!In!vars)
  BY <1>1, <1>10, InStep
<1>12. sent' >= sent
  BY <1>2, <1>4
<1>13. [Stream!Out!Next]_(Stream!Out!vars)
  BY <1>1, <1>10, <1>12, OutStep
<1> QED
  BY <1>10, <1>11, <1>13 DEF StreamStep

\* socket_impl_send of a stream.
LEMMA StreamSent ==
  ASSUME StreamInv, NEW size \in 1 .. MaxSize, Stream!socket_impl_send(size)
  PROVE  StreamStep
<1>1. open /\ sent + size <= MaxBytes
  BY DEF Stream!socket_impl_send
<1>2. CASE \E n \in 1 .. Stream!Min2(size, Room - Len(outq)) :
             Stream!Send(n, Stream!SendResult(Stream!Length(n)))
  <2>1. PICK n \in 1 .. Stream!Min2(size, Room - Len(outq)) :
          Stream!Send(n, Stream!SendResult(Stream!Length(n)))
    BY <1>2
  <2>2. n \in 0 .. (Room - Len(outq)) /\ n \in Nat /\ n \in Int /\ sent + n <= MaxBytes
    <3>1. PICK room : room = Room - Len(outq)
      OBVIOUS
    <3>2. room \in Int /\ sent \in Nat /\ MaxBytes \in Nat
      <4>1. Room \in Nat /\ Len(outq) \in Nat /\ sent \in Nat /\ MaxBytes \in Nat
        BY StreamNumbers
      <4> QED
        BY <3>1, <4>1
    <3>3. n \in 1 .. Stream!Min2(size, room)
      BY <3>1
    <3>4. n \in Nat /\ n >= 1 /\ n <= size /\ n <= room
      BY <3>2, <3>3, DatagramAssumption DEF Stream!Min2
    <3> QED
      BY <1>1, <3>1, <3>2, <3>4, DatagramAssumption
  <2>3. Stream!Send(n, n)
    BY <2>1, <2>2, SendResults
  <2> QED
    BY <1>1, <2>2, <2>3, StreamPuts
<1>3. CASE \/ Stream!Send(0, Stream!SendResult(Stream!Fails("EWOULDBLOCK")))
           \/ Stream!Send(0, Stream!SendResult(Stream!Fails("ECONNRESET")))
  <2>1. 0 \in 0 .. (Room - Len(outq)) /\ sent + 0 <= MaxBytes
    BY StreamNumbers
  <2>2. Stream!Send(0, 0) \/ Stream!Send(0, -1)
    BY <1>3, SendResults
  <2> QED
    BY <1>1, <2>1, <2>2, StreamPuts
<1> QED
  BY <1>2, <1>3 DEF Stream!socket_impl_send

\* The connection is closed, or the program killed, or nothing happens.
LEMMA StreamOver ==
  ASSUME StreamInv,
         \/ Stream!socket_impl_send_sigpipe \/ Stream!socket_impl_close
         \/ UNCHANGED streamVars
  PROVE  StreamStep
<1>1. /\ UNCHANGED <<fin, reset, peer_sent, peer_ended, arrived, read, got,
                     received, sent, outq, peer_got>>
      /\ {open', killed'} \subseteq BOOLEAN
      /\ ~open => ~open'
  <2>1. open \in BOOLEAN /\ killed \in BOOLEAN
    BY DEF StreamInv, Stream!TypeOK
  <2>2. CASE Stream!socket_impl_send_sigpipe
    BY <2>1, <2>2, Zenon
    DEF Stream!socket_impl_send_sigpipe, Stream!inVars, Stream!outVars
  <2>3. CASE Stream!socket_impl_close
    BY <2>1, <2>3, Zenon DEF Stream!socket_impl_close, Stream!inVars, Stream!outVars
  <2>4. CASE UNCHANGED streamVars
    BY <2>1, <2>4 DEF streamVars
  <2> QED
    BY <2>2, <2>3, <2>4
<1>2. Stream!TypeOK'
  BY <1>1 DEF StreamInv, Stream!TypeOK
<1>3. Received' /\ Delivered'
  BY <1>1 DEF StreamInv, Received, Delivered
<1>4. StreamInv'
  BY <1>2, <1>3 DEF StreamInv
<1>5. [Stream!In!Next]_(Stream!In!vars)
  BY <1>1, <1>4, InStep
<1>6. [Stream!Out!Next]_(Stream!Out!vars)
  BY <1>1, <1>4, StreamNumbers, OutStep
<1> QED
  BY <1>4, <1>5, <1>6 DEF StreamStep

\* Every step of a stream keeps the invariant and is a step of both pipes.
LEMMA StreamNext ==
  ASSUME StreamInv, Stream!Next
  PROVE  StreamStep
<1>1. CASE Stream!Over
  <2>1. UNCHANGED streamVars
    BY <1>1 DEF Stream!Over, Stream!vars, Stream!inVars, Stream!outVars, streamVars
  <2> QED
    BY <2>1, StreamOver
<1> QED
  BY <1>1, StreamArrives, StreamLeaves, StreamReceived, StreamSent, StreamOver
     DEF Stream!Next
-----------------------------------------------------------------------------
(* What a connection carries *)

DataInv == DatagramInv /\ StreamInv

\* A connection that was just opened has sent and received nothing.
LEMMA DataStarts ==
  ASSUME DataInit
  PROVE  DataInv /\ Stream!In!Init /\ Stream!Out!Init
<1>1. DatagramInv
  <2>1. /\ type \in {"IPV4", "IPV6"} /\ peer \in Peers \cup {NoAddr}
        /\ msgs = <<>> /\ queue = <<>> /\ error = FALSE /\ taken = {}
        /\ result = 0 /\ told = {} /\ out = {}
    BY DEF DataInit, Init
  <2>2. <<>> \in Seq(Message) /\ <<>> \in Seq(Datagram) /\ Len(<<>>) = 0
        /\ DOMAIN <<>> = {}
    OBVIOUS
  <2>3. MaxMsgs \in Nat /\ MaxSize \in Nat
    BY DatagramAssumption
  <2>4. TypeOK
    <3>1. {t[1] : t \in told} = {} /\ {t[1] : t \in out} = {}
      BY <2>1
    <3>2. msgs \in Seq([from : Peers, len : 0 .. MaxLen])
      BY <2>1
    <3>3. Len(msgs) <= MaxMsgs /\ result \in -2 .. MaxSize
      BY <2>1, <2>3
    <3>4. \A i \in DOMAIN queue : queue[i].id \in Ids /\ queue[i].len \in 0 .. MaxLen
      BY <2>1, <2>2
    <3>5. taken \subseteq Ids /\ error \in BOOLEAN
      BY <2>1, Zenon
    <3>6. type \in {"IPV4", "IPV6"} /\ peer \in Peers \cup {NoAddr}
      BY <2>1
    <3>7. {t[1] : t \in told} \subseteq Ids /\ {t[1] : t \in out} \subseteq Ids
      BY <3>1
    <3> QED
      BY <3>2, <3>3, <3>4, <3>5, <3>6, <3>7, Zenon DEF TypeOK
  <2> QED
    BY <2>1, <2>2, <2>4 DEF DatagramInv, FromPeer, NeverDisconnected,
       DatagramsTold, AnswersReturn
<1>2. /\ open = TRUE /\ fin = FALSE /\ reset = FALSE /\ killed = FALSE
      /\ peer_sent = 0 /\ peer_ended = FALSE /\ arrived = 0 /\ read = 0
      /\ got = <<>> /\ received = 0 /\ sent = 0 /\ outq = <<>> /\ peer_got = <<>>
  BY DEF DataInit, Stream!Init
<1>3. Stream!Bytes(0, 0) = <<>> /\ Len(<<>>) = 0 /\ <<>> \in Seq(Nat)
  BY BytesNone
<1>4. Stream!TypeOK
  <2>1. MaxBytes \in Nat /\ Room \in Nat /\ MaxSize \in Nat
    BY StreamAssumption, DatagramAssumption
  <2>2. {open, peer_ended, fin, reset, killed} \subseteq BOOLEAN
    BY <1>2, Zenon
  <2>3. /\ peer_sent \in 0 .. MaxBytes /\ arrived \in 0 .. peer_sent
        /\ read \in 0 .. arrived /\ received \in -2 .. MaxSize
        /\ sent \in 0 .. MaxBytes
    BY <1>2, <2>1
  <2>4. Len(got) <= read /\ Len(outq) <= Room
    BY <1>2, <1>3, <2>1
  <2> QED
    BY <1>2, <1>3, <2>2, <2>3, <2>4 DEF Stream!TypeOK
<1>5. Received /\ Delivered
  BY <1>2, <1>3 DEF Received, Delivered
<1>6. Stream!In!Init /\ Stream!Out!Init
  BY <1>2, <1>3 DEF Stream!In!Init, Stream!Out!Init
<1> QED
  BY <1>1, <1>4, <1>5, <1>6 DEF DataInv, StreamInv

\* Every step of a connection, of whichever type, keeps both invariants, and is
\* a step of each pipe or leaves it alone.
LEMMA DataStep ==
  ASSUME DataInv, [DataNext]_allVars
  PROVE  /\ DataInv'
         /\ [Stream!In!Next]_(Stream!In!vars)
         /\ [Stream!Out!Next]_(Stream!Out!vars)
<1>1. DatagramInv /\ StreamInv
  BY DEF DataInv
<1>2. CASE Stream!Next /\ UNCHANGED vars
  BY <1>1, <1>2, StreamNext, DatagramSame DEF StreamStep, DataInv
<1>3. CASE Next /\ UNCHANGED streamVars
  BY <1>1, <1>3, StreamOver, DatagramNext DEF StreamStep, DataInv
<1>4. CASE UNCHANGED vars /\ UNCHANGED streamVars
  BY <1>1, <1>4, StreamOver, DatagramSame DEF StreamStep, DataInv
<1>5. UNCHANGED allVars => UNCHANGED vars /\ UNCHANGED streamVars
  BY DEF allVars
<1> QED
  BY <1>2, <1>3, <1>4, <1>5 DEF DataNext, OfStream

\* The two halves of the invariant hold of every connection.
THEOREM DataInvariant == DataSpec => []DataInv
<1>1. DataInit => DataInv
  BY DataStarts
<1>2. DataInv /\ [DataNext]_allVars => DataInv'
  BY DataStep
<1> QED
  BY <1>1, <1>2, PTL DEF DataSpec

\* Every variable of both halves has its type.
THEOREM DataTyped == DataSpec => []DataTypeOK
<1>1. DataInv => DataTypeOK
  BY DEF DataInv, DatagramInv, StreamInv, DataTypeOK
<1> QED
  BY <1>1, DataInvariant, PTL

\* socket_impl_recv never reports a datagram socket as disconnected, whatever
\* the length of the datagrams and the sizes of the buffers.
THEOREM DatagramsNeverEnd == DataSpec => []NeverDisconnected
<1>1. DataInv => NeverDisconnected
  BY DEF DataInv, DatagramInv
<1> QED
  BY <1>1, DataInvariant, PTL

\* Every datagram that is taken out of the kernel is given to libmobile, with
\* the address of its sender, for any set of peers and any number of datagrams.
THEOREM DatagramsAreTold == DataSpec => []DatagramsTold
<1>1. DataInv => DatagramsTold
  BY DEF DataInv, DatagramInv
<1> QED
  BY <1>1, DataInvariant, PTL

\* An answer goes to the sender of the datagram it answers: recv_addr and
\* convert_sockaddr undo each other.
THEOREM AnswersGoBack == DataSpec => []AnswersReturn
<1>1. DataInv => AnswersReturn
  BY DEF DataInv, DatagramInv
<1> QED
  BY <1>1, DataInvariant, PTL

\* socket_impl_recv implements the reading end of a pipe: the bytes of the peer,
\* each once and in order, and -2 only behind the last of them.
THEOREM ImplementsReading == DataSpec => ReceivesStream
<1>1. DataInit => Stream!In!Init
  BY DataStarts
<1>2. DataInv /\ [DataNext]_allVars => [Stream!In!Next]_(Stream!In!vars)
  BY DataStep
<1> QED
  BY <1>1, <1>2, DataInvariant, PTL DEF DataSpec, ReceivesStream, Stream!In!Spec

\* socket_impl_send implements the writing end of a pipe: the peer is given what
\* libmobile was told it had sent, each byte once and in order.
THEOREM ImplementsWriting == DataSpec => SendsStream
<1>1. DataInit => Stream!Out!Init
  BY DataStarts
<1>2. DataInv /\ [DataNext]_allVars => [Stream!Out!Next]_(Stream!Out!vars)
  BY DataStep
<1> QED
  BY <1>1, <1>2, DataInvariant, PTL DEF DataSpec, SendsStream, Stream!Out!Spec
=============================================================================
