---------------------------- MODULE SocketProofs ----------------------------
(***************************************************************************)
(* Proofs about SocketImpl, for any number of connections and descriptors. *)
(*                                                                         *)
(* Neither NoStaleSocket nor ResultsTrue is inductive: closing a           *)
(* connection keeps the others intact because no two share a descriptor,   *)
(* and a descriptor that is handed out is fresh because every socket that  *)
(* is in the table is open.  SocketInv also says whose a socket is that is *)
(* in nobody's entry, which OnlyAcceptedLeft needs.                        *)
(***************************************************************************)
EXTENDS SocketImpl, TLAPS

\* The socket to the emulator is not the adapter's to change.
Emulator == os[bgb_sock] = Made("TCP", "established")

\* The entry of a connection is a descriptor of its own, of an open socket
\* that does not block, in the state that libmobile was told.
Entry(c) ==
  /\ known[c] = "closed" <=> sockets[c] = INVALID_SOCKET
  /\ sockets[c] # INVALID_SOCKET =>
       /\ sockets[c] # bgb_sock
       /\ os[sockets[c]].nonblock
       /\ \A d \in Conns : sockets[d] = sockets[c] => d = c
  /\ known[c] = "connected" => os[sockets[c]].st = "established"
  /\ known[c] = "connecting" =>
       os[sockets[c]].st \in {"connecting", "established", "refused"}
  /\ known[c] \in {"idle", "listening"} => os[sockets[c]].st = known[c]

\* A socket that is open and in no entry: the one to the emulator, or one that
\* socket_impl_accept could not make non-blocking.
Unowned(fd) ==
  os[fd].st # "closed" /\ (\A c \in Conns : sockets[c] # fd) =>
    os[fd] = Made("TCP", "established")

\* The inductive invariant.
SocketInv ==
  /\ TypeOK
  /\ running => /\ Emulator
                /\ \A c \in Conns : Entry(c)
                /\ \A fd \in Fd : Unowned(fd)
  /\ ~running => /\ \A c \in Conns : known[c] = "closed"
                 /\ OnlyAcceptedLeft
-----------------------------------------------------------------------------
(* What the operators on the table of sockets return *)

\* socket_close and socket_setblocking change one descriptor, and a record
\* stays a record.
LEMMA SocketTypes ==
  /\ NoSocket \in Socket
  /\ \A type \in {"TCP", "UDP"}, st \in SocketState : Made(type, st) \in Socket
BY DEF NoSocket, Made, Socket, SocketState

\* socket_impl_open leaves a new idle socket that does not block at fd.
LEMMA OpenedSocket ==
  ASSUME NEW type \in {"TCP", "UDP"}, NEW fd \in Fd, TypeOK
  PROVE  LET new == socket_setblocking([os EXCEPT ![fd] = Made(type, "idle")], fd)
         IN /\ new \in [Fd -> Socket]
            /\ new[fd].st = "idle" /\ new[fd].nonblock
            /\ \A g \in Fd : g # fd => new[g] = os[g]
BY Zenon DEF TypeOK, socket_setblocking, Made, Socket, SocketState

\* socket_impl_accept leaves a connected socket that does not block at fd and
\* closes the listening one.
LEMMA AcceptedSocket ==
  ASSUME NEW listener \in Fd, NEW fd \in Fd, listener # fd, TypeOK
  PROVE  LET new == AcceptReady(listener, fd)
         IN /\ new \in [Fd -> Socket]
            /\ new[fd].st = "established" /\ new[fd].nonblock
            /\ new[listener] = NoSocket
            /\ \A g \in Fd \ {fd, listener} : new[g] = os[g]
BY DEF TypeOK, AcceptReady, Accepted, socket_close, socket_setblocking, Made,
       NoSocket, Socket, SocketState

\* connect() leaves the socket open, and what socket_impl_connect makes of its
\* result is what the socket then is.
LEMMA ConnectTrue ==
  ASSUME NEW s \in Socket, NEW rc \in connect(s),
         s.st \in {"idle", "connecting", "established", "refused"}
  PROVE  /\ rc[2] \in {"idle", "connecting", "established"}
         /\ ConnectResult(rc[1]) = 1 => rc[2] = "established"
         /\ ConnectResult(rc[1]) = 0 => rc[2] = "connecting"
         /\ ConnectResult(rc[1]) \notin {0, 1} => rc[2] = "idle"
BY DEF connect, ConnectResult, Socket, SocketState
-----------------------------------------------------------------------------
(* Each operation keeps the invariant *)

\* While the main loop runs, the entry of a connection that libmobile knows to
\* be open is a descriptor.
LEMMA EntryIsFd ==
  ASSUME SocketInv, NEW c \in Conns, known[c] # "closed"
  PROVE  running /\ sockets[c] \in Fd
BY DEF SocketInv, TypeOK, Entry

\* An operation leaves a connection as it was when it does not touch its entry
\* or its socket, and gives its descriptor to nobody else.
LEMMA EntryKept ==
  ASSUME TypeOK, NEW d \in Conns, Entry(d),
         sockets'[d] = sockets[d], known'[d] = known[d], bgb_sock' = bgb_sock,
         sockets[d] # INVALID_SOCKET =>
           /\ os'[sockets[d]] = os[sockets[d]]
           /\ \A e \in Conns : sockets'[e] = sockets[d] => e = d
  PROVE  Entry(d)'
BY DEF Entry, TypeOK, Known

\* socket_impl_init leaves every entry INVALID_SOCKET.
LEMMA InvInit == Init => SocketInv
<1> SUFFICES ASSUME Init PROVE SocketInv
  OBVIOUS
<1>1. TypeOK
  BY SocketAssumption, SocketTypes DEF Init, TypeOK, Fd, Known, SocketState
<1>2. Emulator
  BY <1>1 DEF Init, Emulator, TypeOK
<1>3. ASSUME NEW c \in Conns PROVE Entry(c)
  BY DEF Init, Entry, Fd, INVALID_SOCKET
<1>4. ASSUME NEW fd \in Fd PROVE Unowned(fd)
  BY DEF Init, Unowned, NoSocket
<1> QED
  BY <1>1, <1>2, <1>3, <1>4 DEF SocketInv, Init

\* socket_impl_open: the descriptor is fresh, so it is in no entry and is not
\* the emulator's.
LEMMA InvOpen ==
  ASSUME SocketInv, NEW c \in Conns, socket_impl_open(c)
  PROVE  SocketInv'
<1>1. PICK type \in {"TCP", "UDP"}, fd \in Fd :
        /\ running /\ known[c] = "closed"
        /\ NewFd(fd)
        /\ os' = socket_setblocking([os EXCEPT ![fd] = Made(type, "idle")], fd)
        /\ sockets' = [sockets EXCEPT ![c] = fd]
        /\ known' = [known EXCEPT ![c] = "idle"]
        /\ UNCHANGED <<bgb_sock, running>>
  BY Zenon DEF socket_impl_open
<1>2. TypeOK /\ Emulator /\ (\A d \in Conns : Entry(d))
      /\ (\A g \in Fd : Unowned(g))
  BY <1>1 DEF SocketInv
<1>3. /\ os' \in [Fd -> Socket]
      /\ os'[fd].st = "idle" /\ os'[fd].nonblock
      /\ \A g \in Fd : g # fd => os'[g] = os[g]
  BY <1>1, <1>2, OpenedSocket, Zenon
<1>4. fd # bgb_sock /\ \A d \in Conns : sockets[d] # fd
  BY <1>1, <1>2 DEF NewFd, Emulator, Made, Entry, TypeOK, Known, Fd, INVALID_SOCKET
<1>5. TypeOK'
  BY <1>1, <1>2, <1>3, Zenon DEF TypeOK, Known
<1>6. Emulator'
  BY <1>1, <1>2, <1>3, <1>4, Zenon DEF Emulator, TypeOK
<1>7. ASSUME NEW d \in Conns PROVE Entry(d)'
  <2>1. CASE d = c
    BY <1>1, <1>2, <1>3, <1>4, <2>1 DEF Entry, TypeOK, Fd, INVALID_SOCKET
  <2>2. CASE d # c
    <3>1. sockets'[d] = sockets[d] /\ known'[d] = known[d]
      BY <1>1, <1>2, <2>2 DEF TypeOK
    <3>2. ASSUME sockets[d] # INVALID_SOCKET
          PROVE  /\ os'[sockets[d]] = os[sockets[d]]
                 /\ \A e \in Conns : sockets'[e] = sockets[d] => e = d
      BY <1>1, <1>2, <1>3, <1>4, <3>2, Zenon DEF Entry, TypeOK
    <3> QED
      BY <1>1, <1>2, <3>1, <3>2, EntryKept, Zenon
  <2> QED
    BY <2>1, <2>2
<1>8. ASSUME NEW g \in Fd PROVE Unowned(g)'
  <2>1. ASSUME \A d \in Conns : sockets'[d] # g
        PROVE  g # fd /\ \A d \in Conns : sockets[d] # g
    BY <1>1, <1>2, <2>1 DEF TypeOK, Entry, Fd, INVALID_SOCKET
  <2> QED
    BY <1>2, <1>3, <2>1 DEF Unowned
<1> QED
  BY <1>1, <1>5, <1>6, <1>7, <1>8 DEF SocketInv

\* socket_impl_open closes what it made when a later call fails.
LEMMA InvOpenFails ==
  ASSUME SocketInv, NEW c \in Conns, socket_impl_open_fails(c)
  PROVE  SocketInv'
<1>1. running /\ UNCHANGED <<sockets, bgb_sock, known, running>>
  BY DEF socket_impl_open_fails
<1>2. TypeOK /\ Emulator /\ (\A d \in Conns : Entry(d))
      /\ (\A g \in Fd : Unowned(g))
  BY <1>1 DEF SocketInv
<1>3. CASE UNCHANGED os
  BY <1>1, <1>2, <1>3 DEF SocketInv, TypeOK, Emulator, Entry, Unowned
<1>4. ASSUME NEW type \in {"TCP", "UDP"}, NEW fd \in Fd, NewFd(fd),
             os' = OpenUndone(type, fd)
      PROVE  SocketInv'
  <2>1. os' = [os EXCEPT ![fd] = NoSocket]
    BY <1>2, <1>4, Zenon DEF OpenUndone, socket_close, TypeOK
  <2>2. fd # bgb_sock /\ \A d \in Conns : sockets[d] # fd
    BY <1>2, <1>4 DEF NewFd, Emulator, Made, Entry, TypeOK, Known, Fd, INVALID_SOCKET
  <2>3. TypeOK'
    BY <1>1, <1>2, <2>1, SocketTypes DEF TypeOK
  <2>4. Emulator'
    BY <1>1, <1>2, <2>1, <2>2 DEF Emulator, TypeOK
  <2>5. ASSUME NEW d \in Conns PROVE Entry(d)'
    BY <1>1, <1>2, <2>1, <2>2 DEF Entry, TypeOK
  <2>6. ASSUME NEW g \in Fd PROVE Unowned(g)'
    BY <1>1, <1>2, <2>1 DEF Unowned, TypeOK, NoSocket
  <2> QED
    BY <1>1, <2>3, <2>4, <2>5, <2>6 DEF SocketInv
<1> QED
  BY <1>3, <1>4 DEF socket_impl_open_fails

\* An operation, or the network, that only changes the socket of connection c,
\* and what libmobile knows of it to match.
LEMMA InvOneSocket ==
  ASSUME SocketInv, NEW c \in Conns, known[c] # "closed",
         NEW new \in Socket, new.nonblock, NEW k \in Known \ {"closed"},
         k = "connected" => new.st = "established",
         k = "connecting" => new.st \in {"connecting", "established", "refused"},
         k \in {"idle", "listening"} => new.st = k,
         os' = [os EXCEPT ![sockets[c]] = new],
         known' = [known EXCEPT ![c] = k],
         UNCHANGED <<sockets, bgb_sock, running>>
  PROVE  SocketInv'
<1>1. running /\ sockets[c] \in Fd
  BY EntryIsFd
<1>2. TypeOK /\ Emulator /\ (\A d \in Conns : Entry(d))
      /\ (\A g \in Fd : Unowned(g))
  BY <1>1 DEF SocketInv
<1>3. TypeOK'
  BY <1>1, <1>2 DEF TypeOK
<1>4. Emulator'
  BY <1>1, <1>2 DEF Emulator, Entry, TypeOK, Fd, INVALID_SOCKET
<1>5. Entry(c)'
  BY <1>1, <1>2 DEF Entry, TypeOK
<1>6. ASSUME NEW d \in Conns, d # c PROVE Entry(d)'
  <2>1. sockets'[d] = sockets[d] /\ known'[d] = known[d]
    BY <1>2, <1>6 DEF TypeOK
  <2>2. ASSUME sockets[d] # INVALID_SOCKET
        PROVE  /\ os'[sockets[d]] = os[sockets[d]]
               /\ \A e \in Conns : sockets'[e] = sockets[d] => e = d
    BY <1>1, <1>2, <1>6, <2>2 DEF Entry, TypeOK
  <2> QED
    BY <1>2, <2>1, <2>2, EntryKept
<1>7. ASSUME NEW g \in Fd PROVE Unowned(g)'
  BY <1>1, <1>2 DEF Unowned, TypeOK
<1> QED
  BY <1>1, <1>3, <1>4, <1>5, <1>6, <1>7 DEF SocketInv

\* socket_impl_connect, whatever connect() returns.
LEMMA InvConnect ==
  ASSUME SocketInv, NEW c \in Conns, socket_impl_connect(c)
  PROVE  SocketInv'
<1>1. PICK rc \in connect(os[sockets[c]]) :
        /\ os' = [os EXCEPT ![sockets[c]].st = rc[2]]
        /\ known' = [known EXCEPT ![c] =
                        CASE ConnectResult(rc[1]) = 1 -> "connected"
                          [] ConnectResult(rc[1]) = 0 -> "connecting"
                          [] OTHER -> "idle"]
  BY Zenon DEF socket_impl_connect
<1>2. running /\ known[c] \in {"idle", "connecting"}
      /\ UNCHANGED <<sockets, bgb_sock, running>>
  BY DEF socket_impl_connect
<1>3. TypeOK /\ Entry(c) /\ sockets[c] \in Fd
  BY <1>2, EntryIsFd DEF SocketInv
<1> DEFINE s == os[sockets[c]]
           new == [s EXCEPT !.st = rc[2]]
           k == CASE ConnectResult(rc[1]) = 1 -> "connected"
                  [] ConnectResult(rc[1]) = 0 -> "connecting"
                  [] OTHER -> "idle"
<1>4. s \in Socket /\ s.nonblock
      /\ s.st \in {"idle", "connecting", "established", "refused"}
  BY <1>2, <1>3 DEF TypeOK, Entry
<1>5. /\ rc[2] \in {"idle", "connecting", "established"}
      /\ ConnectResult(rc[1]) = 1 => rc[2] = "established"
      /\ ConnectResult(rc[1]) = 0 => rc[2] = "connecting"
      /\ ConnectResult(rc[1]) \notin {0, 1} => rc[2] = "idle"
  BY <1>4, ConnectTrue
<1>6. new \in Socket /\ new.nonblock /\ new.st = rc[2]
  BY <1>4, <1>5 DEF Socket, SocketState
<1>7. os' = [os EXCEPT ![sockets[c]] = new]
  BY <1>1, <1>3 DEF TypeOK
<1>8. /\ k \in Known \ {"closed"}
      /\ k = "connected" => new.st = "established"
      /\ k = "connecting" => new.st \in {"connecting", "established", "refused"}
      /\ k \in {"idle", "listening"} => new.st = k
  BY <1>5, <1>6 DEF Known
<1>9. known' = [known EXCEPT ![c] = k]
  BY <1>1
<1> HIDE DEF new, k
<1> QED
  BY <1>2, <1>6, <1>7, <1>8, <1>9, InvOneSocket, Zenon

\* socket_impl_listen.
LEMMA InvListen ==
  ASSUME SocketInv, NEW c \in Conns, socket_impl_listen(c)
  PROVE  SocketInv'
<1> DEFINE new == [os[sockets[c]] EXCEPT !.st = "listening"]
<1>1. running /\ known[c] = "idle" /\ sockets[c] \in Fd /\ TypeOK /\ Entry(c)
  BY EntryIsFd DEF socket_impl_listen, SocketInv
<1>2. new \in Socket /\ new.nonblock /\ new.st = "listening"
  BY <1>1 DEF TypeOK, Entry, Socket, SocketState
<1>3. os' = [os EXCEPT ![sockets[c]] = new]
  BY <1>1 DEF socket_impl_listen, TypeOK
<1>4. known' = [known EXCEPT ![c] = "listening"]
      /\ UNCHANGED <<sockets, bgb_sock, running>>
  BY DEF socket_impl_listen
<1> HIDE DEF new
<1> QED
  BY <1>1, <1>2, <1>3, <1>4, InvOneSocket, Zenon DEF Known

\* A socket whose connection is under way or that is listening is in an entry:
\* the network acts on the adapter's sockets only.
LEMMA NetworkOwned ==
  ASSUME SocketInv, NEW fd \in Fd, os[fd].st \in {"connecting", "listening"}
  PROVE  /\ running
         /\ \E c \in Conns :
              /\ sockets[c] = fd /\ known[c] # "closed" /\ os[fd].nonblock
              /\ os[fd].st = "listening" => known[c] = "listening"
              /\ os[fd].st = "connecting" => known[c] = "connecting"
<1>1. running
  BY DEF SocketInv, OnlyAcceptedLeft, Made
<1>2. PICK c \in Conns : sockets[c] = fd
  BY <1>1 DEF SocketInv, Unowned, Made
<1> QED
  BY <1>1, <1>2 DEF SocketInv, Entry, TypeOK, Known, Fd, INVALID_SOCKET

\* A connection under way is made or refused, while libmobile still knows it
\* as connecting.
LEMMA InvNetConnect ==
  ASSUME SocketInv, NetConnect
  PROVE  SocketInv'
<1>1. PICK fd \in Fd, st \in {"established", "refused"} :
        os[fd].st = "connecting" /\ os' = [os EXCEPT ![fd].st = st]
  BY Zenon DEF NetConnect
<1>2. PICK c \in Conns : sockets[c] = fd /\ known[c] = "connecting"
                         /\ os[fd].nonblock
  BY <1>1, NetworkOwned
<1> DEFINE new == [os[fd] EXCEPT !.st = st]
<1>3. new \in Socket /\ new.nonblock /\ new.st = st
  BY <1>2 DEF SocketInv, TypeOK, Socket, SocketState
<1>4. os' = [os EXCEPT ![sockets[c]] = new]
  BY <1>1, <1>2 DEF SocketInv, TypeOK
<1>5. known' = [known EXCEPT ![c] = "connecting"]
  BY <1>2 DEF NetConnect, SocketInv, TypeOK
<1>6. UNCHANGED <<sockets, bgb_sock, running>>
  BY DEF NetConnect
<1> HIDE DEF new
<1> QED
  BY <1>2, <1>3, <1>4, <1>5, <1>6, InvOneSocket, Zenon DEF Known

\* A peer arrives at a listening socket.
LEMMA InvNetAccept ==
  ASSUME SocketInv, NetAccept
  PROVE  SocketInv'
<1>1. PICK fd \in Fd :
        os[fd].st = "listening" /\ os' = [os EXCEPT ![fd].pending = TRUE]
  BY Zenon DEF NetAccept
<1>2. PICK c \in Conns : sockets[c] = fd /\ known[c] = "listening"
                         /\ os[fd].nonblock
  BY <1>1, NetworkOwned
<1> DEFINE new == [os[fd] EXCEPT !.pending = TRUE]
<1>3. new \in Socket /\ new.nonblock /\ new.st = "listening"
  BY <1>1, <1>2, Zenon DEF SocketInv, TypeOK, Socket
<1>4. os' = [os EXCEPT ![sockets[c]] = new]
  BY <1>1, <1>2 DEF SocketInv, TypeOK
<1>5. known' = [known EXCEPT ![c] = "listening"]
  BY <1>2 DEF NetAccept, SocketInv, TypeOK
<1>6. UNCHANGED <<sockets, bgb_sock, running>>
  BY DEF NetAccept
<1> HIDE DEF new
<1> QED
  BY <1>2, <1>3, <1>4, <1>5, <1>6, InvOneSocket, Zenon DEF Known

\* socket_impl_close: the socket that is closed is in no other entry.
LEMMA InvClose ==
  ASSUME SocketInv, NEW c \in Conns, socket_impl_close(c)
  PROVE  SocketInv'
<1>1. running /\ sockets[c] \in Fd
  BY EntryIsFd DEF socket_impl_close
<1>2. TypeOK /\ Emulator /\ (\A d \in Conns : Entry(d))
      /\ (\A g \in Fd : Unowned(g))
  BY <1>1 DEF SocketInv
<1>3. /\ os' = [os EXCEPT ![sockets[c]] = NoSocket]
      /\ sockets' = [sockets EXCEPT ![c] = INVALID_SOCKET]
      /\ known' = [known EXCEPT ![c] = "closed"]
      /\ UNCHANGED <<bgb_sock, running>>
  BY DEF socket_impl_close, socket_close, ClearSlot
<1>4. TypeOK'
  BY <1>1, <1>2, <1>3, SocketTypes DEF TypeOK, Known
<1>5. Emulator'
  BY <1>1, <1>2, <1>3 DEF Emulator, Entry, TypeOK, Fd, INVALID_SOCKET
<1>6. Entry(c)'
  BY <1>2, <1>3 DEF Entry, TypeOK
<1>7. ASSUME NEW d \in Conns, d # c PROVE Entry(d)'
  <2>1. sockets'[d] = sockets[d] /\ known'[d] = known[d]
    BY <1>2, <1>3, <1>7 DEF TypeOK
  <2>2. ASSUME sockets[d] # INVALID_SOCKET
        PROVE  /\ os'[sockets[d]] = os[sockets[d]]
               /\ \A e \in Conns : sockets'[e] = sockets[d] => e = d
    BY <1>1, <1>2, <1>3, <1>7, <2>2 DEF Entry, TypeOK
  <2> QED
    BY <1>2, <1>3, <2>1, <2>2, EntryKept
<1>8. ASSUME NEW g \in Fd PROVE Unowned(g)'
  <2>1. CASE g = sockets[c]
    BY <1>2, <1>3, <2>1 DEF Unowned, TypeOK, NoSocket
  <2>2. CASE g # sockets[c]
    <3>1. ASSUME \A d \in Conns : sockets'[d] # g
          PROVE  \A d \in Conns : sockets[d] # g
      BY <1>2, <1>3, <2>2, <3>1 DEF TypeOK
    <3> QED
      BY <1>1, <1>2, <1>3, <2>2, <3>1 DEF Unowned, TypeOK
  <2> QED
    BY <2>1, <2>2
<1> QED
  BY <1>1, <1>3, <1>4, <1>5, <1>6, <1>7, <1>8 DEF SocketInv

\* socket_impl_accept: the new descriptor replaces the listening one.
LEMMA InvAccept ==
  ASSUME SocketInv, NEW c \in Conns, socket_impl_accept(c)
  PROVE  SocketInv'
<1>1. PICK fd \in Fd :
        /\ running /\ known[c] = "listening"
        /\ NewFd(fd)
        /\ os' = AcceptReady(sockets[c], fd)
        /\ sockets' = [sockets EXCEPT ![c] = fd]
        /\ known' = [known EXCEPT ![c] = "connected"]
        /\ UNCHANGED <<bgb_sock, running>>
  BY Zenon DEF socket_impl_accept
<1>2. TypeOK /\ Emulator /\ (\A d \in Conns : Entry(d))
      /\ (\A g \in Fd : Unowned(g)) /\ sockets[c] \in Fd
  BY <1>1, EntryIsFd DEF SocketInv
<1>3. fd # bgb_sock /\ \A d \in Conns : sockets[d] # fd
  BY <1>1, <1>2 DEF NewFd, Emulator, Made, Entry, TypeOK, Known, Fd, INVALID_SOCKET
<1>4. /\ os' \in [Fd -> Socket]
      /\ os'[fd].st = "established" /\ os'[fd].nonblock
      /\ os'[sockets[c]] = NoSocket
      /\ \A g \in Fd \ {fd, sockets[c]} : os'[g] = os[g]
  BY <1>1, <1>2, <1>3, AcceptedSocket
<1>5. TypeOK'
  BY <1>1, <1>2, <1>4 DEF TypeOK, Known
<1>6. Emulator'
  BY <1>1, <1>2, <1>3, <1>4 DEF Emulator, Entry, TypeOK, Fd, INVALID_SOCKET
<1>7. Entry(c)'
  BY <1>1, <1>2, <1>3, <1>4 DEF Entry, TypeOK, Fd, INVALID_SOCKET
<1>8. ASSUME NEW d \in Conns, d # c PROVE Entry(d)'
  <2>1. sockets'[d] = sockets[d] /\ known'[d] = known[d]
    BY <1>1, <1>2, <1>8 DEF TypeOK
  <2>2. ASSUME sockets[d] # INVALID_SOCKET
        PROVE  /\ os'[sockets[d]] = os[sockets[d]]
               /\ \A e \in Conns : sockets'[e] = sockets[d] => e = d
    BY <1>1, <1>2, <1>3, <1>4, <1>8, <2>2 DEF Entry, TypeOK
  <2> QED
    BY <1>1, <1>2, <2>1, <2>2, EntryKept
<1>9. ASSUME NEW g \in Fd PROVE Unowned(g)'
  <2>1. CASE g = sockets[c]
    BY <1>4, <2>1 DEF Unowned, NoSocket
  <2>2. CASE g = fd
    BY <1>1, <1>2, <2>2 DEF Unowned, TypeOK
  <2>3. CASE g # sockets[c] /\ g # fd
    <3>1. ASSUME \A d \in Conns : sockets'[d] # g
          PROVE  \A d \in Conns : sockets[d] # g
      BY <1>1, <1>2, <2>3, <3>1 DEF TypeOK
    <3> QED
      BY <1>2, <1>4, <2>3, <3>1 DEF Unowned
  <2> QED
    BY <2>1, <2>2, <2>3
<1> QED
  BY <1>1, <1>5, <1>6, <1>7, <1>8, <1>9 DEF SocketInv

\* socket_impl_accept fails, in accept() or in socket_setblocking.
LEMMA InvAcceptFails ==
  ASSUME SocketInv, NEW c \in Conns, socket_impl_accept_fails(c)
  PROVE  SocketInv'
<1>1. running /\ known[c] = "listening" /\ sockets[c] \in Fd
      /\ UNCHANGED <<sockets, bgb_sock, known, running>>
  BY EntryIsFd DEF socket_impl_accept_fails
<1>2. TypeOK /\ Emulator /\ (\A d \in Conns : Entry(d))
      /\ (\A g \in Fd : Unowned(g))
  BY <1>1 DEF SocketInv
<1> DEFINE new == [os[sockets[c]] EXCEPT !.pending = FALSE]
           dropped == [os EXCEPT ![sockets[c]] = new]
<1>3. new \in Socket /\ new.nonblock /\ new.st = "listening"
  <2>1. PICK old \in Socket : old = os[sockets[c]]
    BY <1>1, <1>2 DEF TypeOK
  <2>2. old.nonblock /\ old.st = "listening"
    BY <1>1, <1>2, <2>1 DEF Entry, INVALID_SOCKET, Fd
  <2>3. new = [old EXCEPT !.pending = FALSE]
    BY <2>1
  <2> HIDE DEF new
  <2> QED
    BY <2>2, <2>3, Zenon DEF Socket
<1>4. known = [known EXCEPT ![c] = "listening"]
  BY <1>1, <1>2 DEF TypeOK
\* accept() fails, and the peer may have gone.
<1>5. CASE os' = [os EXCEPT ![sockets[c]].pending = FALSE]
  <2>1. os' = dropped
    BY <1>1, <1>2, <1>5 DEF TypeOK
  <2> HIDE DEF new
  <2> QED
    BY <1>1, <1>3, <1>4, <2>1, InvOneSocket, Zenon DEF Known
\* socket_setblocking fails: the accepted socket, at fd, is nobody's.
<1>6. ASSUME NEW fd \in Fd, NewFd(fd), os' = Accepted(sockets[c], fd)
      PROVE  SocketInv'
  <2>1. fd # bgb_sock /\ \A d \in Conns : sockets[d] # fd
    BY <1>2, <1>6 DEF NewFd, Emulator, Made, Entry, TypeOK, Known, Fd, INVALID_SOCKET
  <2>2. /\ os' \in [Fd -> Socket]
        /\ os'[fd] = Made("TCP", "established")
        /\ os'[sockets[c]] = new
        /\ \A g \in Fd \ {fd, sockets[c]} : os'[g] = os[g]
    BY <1>1, <1>2, <1>3, <1>6, <2>1, SocketTypes, Zenon
       DEF Accepted, TypeOK, SocketState
  <2>3. TypeOK'
    BY <1>1, <1>2, <2>2 DEF TypeOK
  <2>4. Emulator'
    BY <1>1, <1>2, <2>1, <2>2 DEF Emulator, Entry, TypeOK, Fd, INVALID_SOCKET
  <2>5. Entry(c)'
    BY <1>1, <1>2, <1>3, <2>2 DEF Entry, TypeOK
  <2>6. ASSUME NEW d \in Conns, d # c PROVE Entry(d)'
    <3>1. ASSUME sockets[d] # INVALID_SOCKET
          PROVE  /\ os'[sockets[d]] = os[sockets[d]]
                 /\ \A e \in Conns : sockets'[e] = sockets[d] => e = d
      BY <1>1, <1>2, <2>1, <2>2, <2>6, <3>1 DEF Entry, TypeOK
    <3> QED
      BY <1>1, <1>2, <3>1, EntryKept
  <2>7. ASSUME NEW g \in Fd PROVE Unowned(g)'
    BY <1>1, <1>2, <2>2 DEF Unowned
  <2> QED
    BY <1>1, <2>3, <2>4, <2>5, <2>6, <2>7 DEF SocketInv
<1> QED
  BY <1>5, <1>6 DEF socket_impl_accept_fails

\* The end of main closes every socket in the table and the emulator's.
LEMMA InvStop ==
  ASSUME SocketInv, main_stop
  PROVE  SocketInv'
<1>1. TypeOK /\ Emulator /\ (\A g \in Fd : Unowned(g))
  BY DEF main_stop, SocketInv
<1>2. /\ socket_impl_stop \in [Fd -> Socket]
      /\ \A g \in Fd : socket_impl_stop[g].st # "closed" =>
           socket_impl_stop[g] = Made("TCP", "established")
  BY <1>1, SocketTypes DEF socket_impl_stop, TypeOK, Unowned, NoSocket
<1>3. /\ running' = FALSE
      /\ os' = [socket_impl_stop EXCEPT ![bgb_sock] = NoSocket]
      /\ known' = [c \in Conns |-> "closed"]
      /\ UNCHANGED <<sockets, bgb_sock>>
  BY DEF main_stop, socket_close
<1>4. TypeOK'
  BY <1>1, <1>2, <1>3, SocketTypes, Zenon DEF TypeOK, Known
<1>5. OnlyAcceptedLeft'
  BY <1>1, <1>2, <1>3 DEF OnlyAcceptedLeft, TypeOK, NoSocket
<1> QED
  BY <1>3, <1>4, <1>5 DEF SocketInv

\* Every step keeps the invariant.
LEMMA InvNext == SocketInv /\ [Next]_vars => SocketInv'
<1> SUFFICES ASSUME SocketInv, [Next]_vars PROVE SocketInv'
  OBVIOUS
<1>1. CASE UNCHANGED vars
  BY <1>1 DEF vars, SocketInv, TypeOK, Emulator, Entry, Unowned, OnlyAcceptedLeft
<1>2. CASE Stopped
  BY <1>1, <1>2 DEF Stopped
<1> QED
  BY <1>1, <1>2, InvOpen, InvOpenFails, InvClose, InvConnect, InvListen,
     InvAccept, InvAcceptFails, InvNetConnect, InvNetAccept, InvStop DEF Next

\* Every reachable state satisfies the inductive invariant.
THEOREM SocketsInvariant == Spec => []SocketInv
BY InvInit, InvNext, PTL DEF Spec

\* socket_impl.c keeps the types of its table, for any number of connections.
THEOREM SocketsTyped == Spec => []TypeOK
<1>1. SocketInv => TypeOK
  BY DEF SocketInv
<1> QED
  BY <1>1, SocketsInvariant, PTL

\* The table has no stale entry: socket_impl_close and socket_wait only ever
\* reach the connection's own, open socket, and never the emulator's.
THEOREM NoStale == Spec => []NoStaleSocket
<1>1. SocketInv => NoStaleSocket
  BY DEF SocketInv, NoStaleSocket, Emulator, Made, Entry, TypeOK, Known
<1> QED
  BY <1>1, SocketsInvariant, PTL

\* Every socket that socket_impl_open or socket_impl_accept puts in the table
\* is non-blocking.
THEOREM NonBlocking == Spec => []NeverBlocks
<1>1. SocketInv => NeverBlocks
  BY DEF SocketInv, NeverBlocks, Entry
<1> QED
  BY <1>1, SocketsInvariant, PTL

\* What the operations of socket_impl.c have returned is what the operating
\* system has.
THEOREM ResultsAreTrue == Spec => []ResultsTrue
<1>1. SocketInv => ResultsTrue
  BY Zenon DEF SocketInv, ResultsTrue, Entry
<1> QED
  BY <1>1, SocketsInvariant, PTL

\* What main leaves open when it ends was accepted and could not be made
\* non-blocking.
THEOREM OnlyAcceptedIsLeft == Spec => []OnlyAcceptedLeft
<1>1. SocketInv => OnlyAcceptedLeft
  BY DEF SocketInv, OnlyAcceptedLeft
<1> QED
  BY <1>1, SocketsInvariant, PTL
-----------------------------------------------------------------------------
(* The table of independent connections *)

\* A connection whose entry and socket an operation does not touch is the same
\* to the adapter.
LEMMA SameState ==
  ASSUME NEW d \in Conns, running' = running, sockets'[d] = sockets[d],
         sockets[d] # INVALID_SOCKET => os'[sockets[d]] = os[sockets[d]]
  PROVE  ConnState(d)' = ConnState(d)
BY DEF ConnState

\* A step that changes one connection is a move of the abstract table, or does
\* nothing there.
LEMMA OneMoves ==
  ASSUME NEW c \in Conns, \A d \in Conns \ {c} : ConnState(d)' = ConnState(d)
  PROVE  /\ Conn' = [Conn EXCEPT ![c] = ConnState(c)']
         /\ ConnState(c)' = ConnState(c) => Conn' = Conn
         /\ Conn[c] = ConnState(c)
BY Zenon DEF Conn

\* While the main loop runs, changing one connection's socket changes no other
\* connection.
LEMMA Independent ==
  ASSUME SocketInv, running, running', NEW c \in Conns,
         \A d \in Conns \ {c} : sockets'[d] = sockets[d],
         \A g \in Fd : os[g].st # "closed" /\ g # sockets[c] => os'[g] = os[g]
  PROVE  \A d \in Conns \ {c} : ConnState(d)' = ConnState(d)
<1> SUFFICES ASSUME NEW d \in Conns \ {c} PROVE ConnState(d)' = ConnState(d)
  OBVIOUS
<1>1. running' = running
  BY DEF SocketInv, TypeOK
<1>2. sockets[d] # INVALID_SOCKET => os'[sockets[d]] = os[sockets[d]]
  BY DEF SocketInv, TypeOK, Entry, Known
<1> QED
  BY <1>1, <1>2, SameState

\* A step of connection c from a state in from to the state to.
LEMMA MovesTo ==
  ASSUME NEW c \in Conns, \A d \in Conns \ {c} : ConnState(d)' = ConnState(d),
         NEW from, NEW to, ConnState(c) \in from, ConnState(c)' = to
  PROVE  Table!Moves(from, to)
BY OneMoves DEF Table!Moves

\* socket_impl_open moves one connection, from closed to idle.
LEMMA TableOpen ==
  ASSUME SocketInv, NEW c \in Conns, socket_impl_open(c)
  PROVE  Table!Next
<1>1. PICK type \in {"TCP", "UDP"}, fd \in Fd :
        /\ running /\ known[c] = "closed"
        /\ NewFd(fd)
        /\ os' = socket_setblocking([os EXCEPT ![fd] = Made(type, "idle")], fd)
        /\ sockets' = [sockets EXCEPT ![c] = fd]
        /\ UNCHANGED <<bgb_sock, running>>
  BY Zenon DEF socket_impl_open
<1>2. TypeOK /\ Entry(c)
  BY <1>1 DEF SocketInv
<1>3. /\ os'[fd].st = "idle"
      /\ \A g \in Fd : g # fd => os'[g] = os[g]
  BY <1>1, <1>2, OpenedSocket, Zenon
<1>4. \A d \in Conns \ {c} : ConnState(d)' = ConnState(d)
  BY <1>1, <1>2, <1>3, Independent, Zenon DEF NewFd, TypeOK
<1>5. ConnState(c) = "closed" /\ ConnState(c)' = "idle"
  BY <1>1, <1>2, <1>3 DEF ConnState, Entry, TypeOK, Fd, INVALID_SOCKET
<1>6. Table!Moves({"closed"}, "idle")
  BY <1>4, <1>5, MovesTo
<1> QED
  BY <1>6 DEF Table!Next, Table!Open

\* socket_impl_open that fails changes no connection.
LEMMA TableOpenFails ==
  ASSUME SocketInv, NEW c \in Conns, socket_impl_open_fails(c)
  PROVE  Conn' = Conn
<1>1. running /\ UNCHANGED <<sockets, bgb_sock, known, running>>
  BY DEF socket_impl_open_fails
<1>2. \A g \in Fd : os[g].st # "closed" => os'[g] = os[g]
  BY DEF socket_impl_open_fails, NewFd, OpenUndone, socket_close, SocketInv, TypeOK
<1>3. \A d \in Conns \ {c} : ConnState(d)' = ConnState(d)
  BY <1>1, <1>2, Independent
<1>4. ConnState(c)' = ConnState(c)
  BY <1>1, <1>2, SameState DEF SocketInv, Entry, TypeOK, Known
<1> QED
  BY <1>3, <1>4, OneMoves

\* socket_impl_close moves one connection to closed.
LEMMA TableClose ==
  ASSUME SocketInv, NEW c \in Conns, socket_impl_close(c)
  PROVE  Table!Next
<1>1. running /\ sockets[c] \in Fd /\ TypeOK /\ Entry(c)
  BY EntryIsFd DEF socket_impl_close, SocketInv
<1>2. /\ known[c] # "closed"
      /\ os' = [os EXCEPT ![sockets[c]] = NoSocket]
      /\ sockets' = [sockets EXCEPT ![c] = INVALID_SOCKET]
      /\ UNCHANGED <<bgb_sock, running>>
  BY DEF socket_impl_close, socket_close, ClearSlot
<1>3. \A d \in Conns \ {c} : ConnState(d)' = ConnState(d)
  BY <1>1, <1>2, Independent DEF TypeOK
<1>4. ConnState(c)' = "closed"
  BY <1>1, <1>2 DEF ConnState, TypeOK
<1>5. ConnState(c) \in {"idle", "connecting", "connected", "listening"}
  BY <1>1, <1>2 DEF ConnState, Entry, TypeOK, Known
<1> QED
  BY <1>3, <1>4, <1>5, MovesTo DEF Table!Next, Table!Close

\* socket_impl_connect moves one connection on, back to idle, or nowhere.
LEMMA TableConnect ==
  ASSUME SocketInv, NEW c \in Conns, socket_impl_connect(c)
  PROVE  Table!Next \/ Conn' = Conn
<1>1. PICK rc \in connect(os[sockets[c]]) :
        os' = [os EXCEPT ![sockets[c]].st = rc[2]]
  BY Zenon DEF socket_impl_connect
<1>2. running /\ known[c] \in {"idle", "connecting"}
      /\ UNCHANGED <<sockets, bgb_sock, running>>
  BY DEF socket_impl_connect
<1>3. TypeOK /\ Entry(c) /\ sockets[c] \in Fd
  BY <1>2, EntryIsFd DEF SocketInv
<1> DEFINE was == os[sockets[c]].st
           is == os'[sockets[c]].st
<1>4. /\ os[sockets[c]] \in Socket
      /\ was \in {"idle", "connecting", "established", "refused"}
  BY <1>2, <1>3 DEF TypeOK, Entry
<1>5. /\ rc[2] = is
      /\ was = "idle" => is \in {"idle", "connecting", "established"}
      /\ was = "connecting" => is = "connecting"
      /\ was = "established" => is = "established"
      /\ was = "refused" => is = "idle"
  <2>1. rc[2] = is
    BY <1>1, <1>3, <1>4 DEF TypeOK, Socket
  <2> QED
    BY <1>4, <2>1 DEF connect, Socket
<1>6. \A d \in Conns \ {c} : ConnState(d)' = ConnState(d)
  BY <1>1, <1>2, <1>3, Independent DEF TypeOK
<1>7. /\ was = "idle" => ConnState(c) = "idle"
      /\ was \in {"connecting", "refused"} => ConnState(c) = "connecting"
      /\ was = "established" => ConnState(c) = "connected"
      /\ is = "idle" => ConnState(c)' = "idle"
      /\ is = "connecting" => ConnState(c)' = "connecting"
      /\ is = "established" => ConnState(c)' = "connected"
  BY <1>2, <1>3 DEF ConnState, Fd, INVALID_SOCKET
<1> HIDE DEF was, is
<1>8. CASE was = "idle" /\ is # "idle"
  BY <1>5, <1>6, <1>7, <1>8, MovesTo DEF Table!Next, Table!Connect
<1>9. CASE was = "refused"
  BY <1>5, <1>6, <1>7, <1>9, MovesTo DEF Table!Next, Table!Refused
<1>10. CASE \/ was = "idle" /\ is = "idle"
            \/ was \in {"connecting", "established"}
  BY <1>5, <1>6, <1>7, <1>10, OneMoves
<1> QED
  BY <1>4, <1>8, <1>9, <1>10

\* socket_impl_listen moves one connection, from idle to listening.
LEMMA TableListen ==
  ASSUME SocketInv, NEW c \in Conns, socket_impl_listen(c)
  PROVE  Table!Next
<1>1. running /\ known[c] = "idle" /\ sockets[c] \in Fd /\ TypeOK /\ Entry(c)
  BY EntryIsFd DEF socket_impl_listen, SocketInv
<1>2. os' = [os EXCEPT ![sockets[c]].st = "listening"]
      /\ UNCHANGED <<sockets, bgb_sock, running>>
  BY DEF socket_impl_listen
<1>3. \A d \in Conns \ {c} : ConnState(d)' = ConnState(d)
  BY <1>1, <1>2, Independent DEF TypeOK
<1>4. ConnState(c) = "idle" /\ ConnState(c)' = "listening"
  BY <1>1, <1>2 DEF ConnState, Entry, TypeOK, Socket, Fd, INVALID_SOCKET
<1> QED
  BY <1>3, <1>4, MovesTo DEF Table!Next, Table!Listen

\* socket_impl_accept moves one connection, from listening to connected.
LEMMA TableAccept ==
  ASSUME SocketInv, NEW c \in Conns, socket_impl_accept(c)
  PROVE  Table!Next
<1>1. PICK fd \in Fd :
        /\ running /\ known[c] = "listening"
        /\ NewFd(fd)
        /\ os' = AcceptReady(sockets[c], fd)
        /\ sockets' = [sockets EXCEPT ![c] = fd]
        /\ UNCHANGED <<bgb_sock, running>>
  BY Zenon DEF socket_impl_accept
<1>2. TypeOK /\ Entry(c) /\ sockets[c] \in Fd
  BY <1>1, EntryIsFd DEF SocketInv
<1>3. /\ os'[fd].st = "established"
      /\ \A g \in Fd \ {fd, sockets[c]} : os'[g] = os[g]
  BY <1>1, <1>2, AcceptedSocket DEF NewFd, Entry
<1>4. \A d \in Conns \ {c} : ConnState(d)' = ConnState(d)
  BY <1>1, <1>2, <1>3, Independent DEF NewFd, TypeOK
<1>5. ConnState(c) = "listening" /\ ConnState(c)' = "connected"
  BY <1>1, <1>2, <1>3 DEF ConnState, Entry, TypeOK, Fd, INVALID_SOCKET
<1> QED
  BY <1>4, <1>5, MovesTo DEF Table!Next, Table!Accept

\* socket_impl_accept that fails changes no connection.
LEMMA TableAcceptFails ==
  ASSUME SocketInv, NEW c \in Conns, socket_impl_accept_fails(c)
  PROVE  Conn' = Conn
<1>1. running /\ known[c] = "listening" /\ sockets[c] \in Fd
      /\ UNCHANGED <<sockets, bgb_sock, known, running>>
  BY EntryIsFd DEF socket_impl_accept_fails
<1>2. TypeOK /\ Entry(c)
  BY <1>1 DEF SocketInv
<1>3. /\ \A g \in Fd : os[g].st # "closed" /\ g # sockets[c] => os'[g] = os[g]
      /\ os'[sockets[c]].st = os[sockets[c]].st
  BY <1>1, <1>2 DEF socket_impl_accept_fails, NewFd, Accepted, Entry, TypeOK, Socket
<1>4. \A d \in Conns \ {c} : ConnState(d)' = ConnState(d)
  BY <1>1, <1>3, Independent
<1>5. ConnState(c)' = ConnState(c)
  BY <1>1, <1>3 DEF ConnState
<1> QED
  BY <1>4, <1>5, OneMoves

\* The network moves the one connection whose socket it answers.
LEMMA TableNetConnect ==
  ASSUME SocketInv, NetConnect
  PROVE  Table!Next \/ Conn' = Conn
<1>1. PICK fd \in Fd, st \in {"established", "refused"} :
        os[fd].st = "connecting" /\ os' = [os EXCEPT ![fd].st = st]
  BY Zenon DEF NetConnect
<1>2. PICK c \in Conns : sockets[c] = fd /\ running
  BY <1>1, NetworkOwned
<1>3. TypeOK /\ UNCHANGED <<sockets, bgb_sock, known, running>>
  BY DEF NetConnect, SocketInv
<1>4. \A d \in Conns \ {c} : ConnState(d)' = ConnState(d)
  BY <1>1, <1>2, <1>3, Independent DEF TypeOK
<1>5. ConnState(c) = "connecting"
      /\ ConnState(c)' = IF st = "established" THEN "connected" ELSE "connecting"
  BY <1>1, <1>2, <1>3 DEF ConnState, TypeOK, Socket, Fd, INVALID_SOCKET
<1>6. CASE st = "established"
  BY <1>4, <1>5, <1>6, MovesTo DEF Table!Next, Table!Connected
<1>7. CASE st = "refused"
  BY <1>4, <1>5, <1>7, OneMoves
<1> QED
  BY <1>1, <1>6, <1>7

\* A peer that waits to be accepted changes no connection.
LEMMA TableNetAccept ==
  ASSUME SocketInv, NetAccept
  PROVE  Conn' = Conn
<1>1. PICK fd \in Fd : os' = [os EXCEPT ![fd].pending = TRUE]
  BY Zenon DEF NetAccept
<1>2. TypeOK /\ UNCHANGED <<sockets, bgb_sock, known, running>>
  BY DEF NetAccept, SocketInv
<1>3. \A g \in Fd : os'[g].st = os[g].st
  BY <1>1, <1>2 DEF TypeOK, Socket
<1>4. ASSUME NEW d \in Conns PROVE ConnState(d)' = ConnState(d)
  BY <1>2, <1>3 DEF ConnState, TypeOK
<1> QED
  BY <1>4 DEF Conn

\* The end of main closes all connections at once.
LEMMA TableStop ==
  ASSUME main_stop
  PROVE  Table!Next
<1>1. Conn' = [c \in Conns |-> "closed"]
  BY DEF main_stop, Conn, ConnState
<1> QED
  BY <1>1 DEF Table!Next, Table!Stop

\* socket_impl.c, on descriptors that the operating system reuses, implements
\* a table of independent connections: no operation on one connection, and
\* nothing that the network does to one, ever changes another.
THEOREM ImplementsTable == Spec => TableSpec
<1>1. Init => Table!Init
  BY DEF Init, Table!Init, Conn, ConnState
<1>2. ASSUME SocketInv, [Next]_vars PROVE [Table!Next]_Conn
  <2>1. CASE UNCHANGED vars
    BY <2>1 DEF vars, Conn, ConnState
  <2>2. CASE Stopped
    BY <2>1, <2>2 DEF Stopped
  <2> QED
    BY <1>2, <2>1, <2>2, TableOpen, TableOpenFails, TableClose, TableConnect,
       TableListen, TableAccept, TableAcceptFails, TableNetConnect,
       TableNetAccept, TableStop DEF Next
<1> QED
  BY <1>1, <1>2, SocketsInvariant, PTL DEF Spec, TableSpec, Table!Spec
=============================================================================
