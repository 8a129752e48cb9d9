---------------------------- MODULE SocketCalls ----------------------------
(***************************************************************************)
(* socket_impl.c: what socket_impl_send and socket_impl_recv make of the   *)
(* operating system's answers.                                             *)
(***************************************************************************)
EXTENDS Integers

\* sendto and recvfrom return a length, or SOCKET_ERROR with an error code.
Length(len) == [len |-> len, err |-> "none"]
Fails(err) == [len |-> -1, err |-> err]

SendResult(r) ==
  CASE r.len = -1 /\ r.err = "EWOULDBLOCK" -> 0
    [] r.len = -1 /\ r.err # "EWOULDBLOCK" -> -1
    [] OTHER -> r.len

\* Mutants: the end of a stream is not told apart; the type is not asked for.
RecvResultNoEnd(r, stream, data) ==
  CASE r.len = -1 /\ r.err = "EWOULDBLOCK" -> 0
    [] r.len = -1 /\ r.err # "EWOULDBLOCK" -> -1
    [] OTHER -> IF data THEN r.len ELSE 0

RecvResultAnyType(r, stream, data) ==
  CASE r.len = -1 /\ r.err = "EWOULDBLOCK" -> 0
    [] r.len = -1 /\ r.err # "EWOULDBLOCK" -> -1
    [] r.len = 0 -> -2
    [] OTHER -> IF data THEN r.len ELSE 0

\* The socket is a stream, or not; the caller wants data, or not.  The type of
\* an open socket can always be had.
RecvResult(r, stream, data) ==
  CASE r.len = -1 /\ r.err = "EWOULDBLOCK" -> 0
    [] r.len = -1 /\ r.err # "EWOULDBLOCK" -> -1
    [] r.len = 0 /\ stream -> -2
    [] OTHER -> IF data THEN r.len ELSE 0
=============================================================================
