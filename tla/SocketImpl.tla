----------------------------- MODULE SocketImpl -----------------------------
(***************************************************************************)
(* socket_impl.c: the adapter's connections, a table of file descriptors,  *)
(* and the descriptors of the process they share with the socket to the    *)
(* emulator.                                                               *)
(*                                                                         *)
(* The operating system hands out the lowest free descriptor, so one that  *)
(* was closed is soon another connection's: a stale entry of the table     *)
(* would be somebody else's socket.                                        *)
(*                                                                         *)
(* libmobile calls these operations.  It is modelled by what it knows,     *)
(* the results it was given: it opens a connection that it knows to be     *)
(* closed, and uses and closes one that it knows to be open.               *)
(***************************************************************************)
EXTENDS Integers

CONSTANTS
  Conns,        \* 0 .. MOBILE_MAX_CONNECTIONS - 1
  MaxFd         \* descriptors a process can have

ASSUME SocketAssumption == MaxFd \in Nat \ {0}

INVALID_SOCKET == -1
Fd == 1 .. MaxFd

VARIABLES
  sockets,      \* struct socket_impl
  bgb_sock,     \* the socket to the emulator
  os,           \* the sockets of the process, by descriptor
  known,        \* what libmobile knows of each connection
  running       \* the main loop has not ended yet

vars == <<sockets, bgb_sock, os, known, running>>

SocketState == {"closed", "idle", "connecting", "established", "refused",
                "listening"}
Socket == [st : SocketState, type : {"TCP", "UDP"}, nonblock : BOOLEAN,
           pending : BOOLEAN]
Known == {"closed", "idle", "connecting", "connected", "listening"}

NoSocket == [st |-> "closed", type |-> "TCP", nonblock |-> FALSE,
             pending |-> FALSE]
Made(type, st) == [st |-> st, type |-> type, nonblock |-> FALSE,
                   pending |-> FALSE]

\* The types of the variables.
TypeOK ==
  /\ sockets \in [Conns -> Fd \cup {INVALID_SOCKET}]
  /\ bgb_sock \in Fd
  /\ os \in [Fd -> Socket]
  /\ known \in [Conns -> Known]
  /\ running \in BOOLEAN

\* socket_impl_init, and main connected to the emulator.
Init ==
  /\ sockets = [c \in Conns |-> INVALID_SOCKET]
  /\ bgb_sock = 1
  /\ os = [fd \in Fd |-> IF fd = 1 THEN Made("TCP", "established") ELSE NoSocket]
  /\ known = [c \in Conns |-> "closed"]
  /\ running = TRUE
-----------------------------------------------------------------------------
(* The operating system's part *)

\* fd is the descriptor socket() or accept() returns.
NewFd(fd) ==
  /\ fd \in Fd
  /\ os[fd].st = "closed"
  /\ \A lower \in Fd : lower < fd => os[lower].st # "closed"

socket_close(table, fd) == [table EXCEPT ![fd] = NoSocket]
socket_setblocking(table, fd) == [table EXCEPT ![fd].nonblock = TRUE]

\* connect(): what it returns and the state it leaves the socket in.
connect(s) ==
  CASE s.st = "idle" /\ s.type = "UDP" ->
         {<<"ok", "established">>, <<"error", "idle">>}
    [] s.st = "idle" /\ s.type = "TCP" ->
         {<<"ok", "established">>, <<"EINPROGRESS", "connecting">>,
          <<"EWOULDBLOCK", "connecting">>, <<"error", "idle">>}
    [] s.st = "connecting" -> {<<"EALREADY", "connecting">>}
    [] s.st = "established" ->
         {<<"ok", "established">>, <<"EISCONN", "established">>}
    [] s.st = "refused" -> {<<"error", "idle">>}
    [] OTHER -> {<<"error", s.st>>}

\* A connection under way is made or refused.
NetConnect == \E fd \in Fd, st \in {"established", "refused"} :
  /\ os[fd].st = "connecting"
  /\ os' = [os EXCEPT ![fd].st = st]
  /\ UNCHANGED <<sockets, bgb_sock, known, running>>

\* A peer connects to a listening socket.
NetAccept == \E fd \in Fd :
  /\ os[fd].st = "listening" /\ ~os[fd].pending
  /\ os' = [os EXCEPT ![fd].pending = TRUE]
  /\ UNCHANGED <<sockets, bgb_sock, known, running>>
-----------------------------------------------------------------------------
(* The operations of socket_impl.c *)

socket_impl_open(c) == \E type \in {"TCP", "UDP"}, fd \in Fd :
  /\ running /\ known[c] = "closed"
  /\ NewFd(fd)
  /\ os' = socket_setblocking([os EXCEPT ![fd] = Made(type, "idle")], fd)
  /\ sockets' = [sockets EXCEPT ![c] = fd]
  /\ known' = [known EXCEPT ![c] = "idle"]
  /\ UNCHANGED <<bgb_sock, running>>

\* Mutant: the socket is not closed.
OpenLeaks(type, fd) == [os EXCEPT ![fd] = Made(type, "idle")]

\* It fails in socket(), or later, and then closes the socket it has made.
OpenStep == {"socket", "setblocking", "setsockopt", "bind"}

OpenUndone(type, fd) == socket_close([os EXCEPT ![fd] = Made(type, "idle")], fd)

socket_impl_open_fails(c) == \E type \in {"TCP", "UDP"}, step \in OpenStep :
  /\ running /\ known[c] = "closed"
  /\ \/ step = "socket" /\ UNCHANGED os
     \/ step # "socket" /\ \E fd \in Fd : NewFd(fd) /\ os' = OpenUndone(type, fd)
  /\ UNCHANGED <<sockets, bgb_sock, known, running>>

\* Mutants: the entry is kept; it is set to zero.
ClearNothing(c) == sockets
ClearZero(c) == [sockets EXCEPT ![c] = 0]

ClearSlot(c) == [sockets EXCEPT ![c] = INVALID_SOCKET]

socket_impl_close(c) ==
  /\ known[c] # "closed"
  /\ os' = socket_close(os, sockets[c])
  /\ sockets' = ClearSlot(c)
  /\ known' = [known EXCEPT ![c] = "closed"]
  /\ UNCHANGED <<bgb_sock, running>>

\* Mutant: EALREADY is an error.
ConnectResultOnce(r) ==
  CASE r \in {"ok", "EISCONN"} -> 1
    [] r \in {"EWOULDBLOCK", "EINPROGRESS"} -> 0
    [] OTHER -> -1

\* What socket_impl_connect returns for what connect() did.
ConnectResult(r) ==
  CASE r \in {"ok", "EISCONN"} -> 1
    [] r \in {"EWOULDBLOCK", "EINPROGRESS", "EALREADY"} -> 0
    [] OTHER -> -1

socket_impl_connect(c) ==
  /\ running /\ known[c] \in {"idle", "connecting"}
  /\ \E rc \in connect(os[sockets[c]]) :
       /\ os' = [os EXCEPT ![sockets[c]].st = rc[2]]
       /\ known' = [known EXCEPT ![c] =
                      CASE ConnectResult(rc[1]) = 1 -> "connected"
                        [] ConnectResult(rc[1]) = 0 -> "connecting"
                        [] OTHER -> "idle"]
  /\ UNCHANGED <<sockets, bgb_sock, running>>

\* Returns false, and changes nothing, for a socket that cannot listen.
socket_impl_listen(c) ==
  /\ running /\ known[c] = "idle"
  /\ os[sockets[c]].type = "TCP"
  /\ os' = [os EXCEPT ![sockets[c]].st = "listening"]
  /\ known' = [known EXCEPT ![c] = "listening"]
  /\ UNCHANGED <<sockets, bgb_sock, running>>

\* The sockets once accept() has returned fd for the listening socket.
Accepted(listener, fd) ==
  [os EXCEPT ![listener].pending = FALSE, ![fd] = Made("TCP", "established")]

\* Mutant: the accepted socket is left blocking.
AcceptBlocking(listener, fd) == socket_close(Accepted(listener, fd), listener)

AcceptReady(listener, fd) ==
  socket_close(socket_setblocking(Accepted(listener, fd), fd), listener)

\* The accepted socket takes the place of the listening one.
socket_impl_accept(c) == \E fd \in Fd :
  /\ running /\ known[c] = "listening"
  /\ os[sockets[c]].pending
  /\ NewFd(fd)
  /\ os' = AcceptReady(sockets[c], fd)
  /\ sockets' = [sockets EXCEPT ![c] = fd]
  /\ known' = [known EXCEPT ![c] = "connected"]
  /\ UNCHANGED <<bgb_sock, running>>

\* It fails in accept(), which may have dropped the peer, or in
\* socket_setblocking, where the accepted socket is left as it is.
socket_impl_accept_fails(c) ==
  /\ running /\ known[c] = "listening"
  /\ os[sockets[c]].pending
  /\ \/ os' = [os EXCEPT ![sockets[c]].pending = FALSE]
     \/ \E fd \in Fd : NewFd(fd) /\ os' = Accepted(sockets[c], fd)
  /\ UNCHANGED <<sockets, bgb_sock, known, running>>

\* The sockets after socket_impl_stop.
socket_impl_stop ==
  [fd \in Fd |-> IF \E c \in Conns : sockets[c] = fd THEN NoSocket ELSE os[fd]]

\* The end of main: libmobile, stopped, has closed the connections it likes.
main_stop ==
  /\ running
  /\ running' = FALSE
  /\ os' = socket_close(socket_impl_stop, bgb_sock)
  /\ known' = [c \in Conns |-> "closed"]
  /\ UNCHANGED <<sockets, bgb_sock>>

Stopped == ~running /\ UNCHANGED vars

Next ==
  \/ \E c \in Conns :
       \/ socket_impl_open(c) \/ socket_impl_open_fails(c)
       \/ socket_impl_close(c) \/ socket_impl_connect(c)
       \/ socket_impl_listen(c)
       \/ socket_impl_accept(c) \/ socket_impl_accept_fails(c)
  \/ NetConnect \/ NetAccept
  \/ main_stop \/ Stopped

Spec == Init /\ [][Next]_vars
-----------------------------------------------------------------------------
(* Properties *)

\* The table has no stale entry: while the main loop runs, every descriptor in
\* it is an open socket, no two connections share one, and none is the socket
\* to the emulator.  So socket_impl_close never closes, and socket_wait never
\* polls, a socket that is not the connection's own.
NoStaleSocket ==
  running =>
    /\ os[bgb_sock].st # "closed"
    /\ \A c \in Conns : sockets[c] # INVALID_SOCKET =>
         /\ os[sockets[c]].st # "closed"
         /\ sockets[c] # bgb_sock
         /\ \A d \in Conns : sockets[d] = sockets[c] => d = c

\* No connection can block the program's only thread: whichever way a socket
\* got into the table, opened or accepted, it is non-blocking.
NeverBlocks ==
  running => \A c \in Conns :
    sockets[c] # INVALID_SOCKET => os[sockets[c]].nonblock

\* The results tell the adapter the truth: what it knows of a connection is
\* what the operating system has, however its calls failed, and so none of
\* the assertions on the table can fail.
ResultsTrue ==
  running => \A c \in Conns :
    /\ known[c] = "closed" <=> sockets[c] = INVALID_SOCKET
    /\ known[c] = "connected" => os[sockets[c]].st = "established"
    /\ known[c] = "connecting" =>
         os[sockets[c]].st \in {"connecting", "established", "refused"}
    /\ known[c] \in {"idle", "listening"} => os[sockets[c]].st = known[c]

\* When the program ends, a socket can be left open in one way only: it was
\* accepted and could not be made non-blocking.  Whatever failed before, every
\* socket that was opened, is listening or was stored has been closed.
OnlyAcceptedLeft ==
  ~running => \A fd \in Fd :
    os[fd].st # "closed" => os[fd] = Made("TCP", "established")

\* "Close all sockets" (main.c): when the program ends, no socket is open.
AllClosed == ~running => \A fd \in Fd : os[fd].st = "closed"

\* The connections as the adapter sees them.
ConnState(c) ==
  IF ~running \/ sockets[c] = INVALID_SOCKET THEN "closed"
  ELSE CASE os[sockets[c]].st = "established" -> "connected"
         [] os[sockets[c]].st = "refused" -> "connecting"
         [] OTHER -> os[sockets[c]].st

Conn == [c \in Conns |-> ConnState(c)]

Table == INSTANCE ConnTable WITH conn <- Conn

\* The connections are independent: whatever descriptors they are given, an
\* operation on one never changes another.
TableSpec == Table!Spec
=============================================================================
