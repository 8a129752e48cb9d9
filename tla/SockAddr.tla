------------------------------ MODULE SockAddr ------------------------------
(***************************************************************************)
(* socket_impl.c: the addresses of libmobile as those of the operating     *)
(* system, and back.  The hosts are values; a port is an unsigned integer  *)
(* here and two bytes in network order there.                              *)
(***************************************************************************)
EXTENDS Integers

CONSTANT Base    \* the values of a byte; 256

ASSUME BaseAssumption == Base \in Nat \ {0}

\* Mutant: the bytes are left in the host's order.
htons_swapped(port) == <<port % Base, (port \div Base) % Base>>

\* A 16 bit number as its bytes in memory, in network order, and back.
htons(port) == <<(port \div Base) % Base, port % Base>>
ntohs(bytes) == bytes[1] * Base + bytes[2]

\* No address: NULL.
NoAddr == [type |-> "NONE", port |-> 0, host |-> 0]
NullSockAddr == [family |-> "NULL", port |-> <<0, 0>>, host |-> 0]

\* The struct sockaddr of an address of libmobile.
convert_sockaddr(addr) ==
  CASE addr.type = "IPV4" ->
         [family |-> "AF_INET", port |-> htons(addr.port), host |-> addr.host]
    [] addr.type = "IPV6" ->
         [family |-> "AF_INET6", port |-> htons(addr.port), host |-> addr.host]
    [] OTHER -> NullSockAddr

\* Mutant: an IPv6 address is not stored.
recv_addr4(sock, addr) ==
  IF sock.family = "AF_INET"
  THEN [type |-> "IPV4", port |-> ntohs(sock.port), host |-> sock.host]
  ELSE addr

\* The address socket_impl_recv stores, over the one addr points to.  A socket
\* that names no sender (TCP) has the family 0; the caller's addr is not NULL.
recv_addr(sock, addr) ==
  CASE sock.family = "AF_INET" ->
         [type |-> "IPV4", port |-> ntohs(sock.port), host |-> sock.host]
    [] sock.family = "AF_INET6" ->
         [type |-> "IPV6", port |-> ntohs(sock.port), host |-> sock.host]
    [] OTHER -> addr
=============================================================================
