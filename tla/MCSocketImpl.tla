---------------------------- MODULE MCSocketImpl ----------------------------
(* Small instances of SocketImpl for TLC. *)
EXTENDS SocketImpl, TLC

\* The connections are interchangeable; descriptors are not.
Symmetry == Permutations(Conns)
=============================================================================
