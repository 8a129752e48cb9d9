-------------------------------- MODULE Pipe --------------------------------
(***************************************************************************)
(* One direction of a connection, as its two ends see it: what is received *)
(* is what was written, in order, each byte once, and the end is seen only *)
(* after all of it.                                                        *)
(***************************************************************************)
EXTENDS Sequences, Naturals

VARIABLES
  written,     \* by the one end
  received,    \* by the other
  ended,       \* the writer has finished
  eof          \* and the reader knows

vars == <<written, received, ended, eof>>

\* s begins t, and t is more than s.
Begins(s, t) == Len(s) <= Len(t) /\ s = SubSeq(t, 1, Len(s))
Extended(s, t) == Begins(s, t) /\ s # t

Init == written = <<>> /\ received = <<>> /\ ended = FALSE /\ eof = FALSE

Write ==
  /\ ~ended
  /\ Extended(written, written')
  /\ UNCHANGED <<received, ended, eof>>

Read ==
  /\ Extended(received, received') /\ Begins(received', written)
  /\ UNCHANGED <<written, ended, eof>>

Finish ==
  /\ ~ended /\ ended' = TRUE
  /\ UNCHANGED <<written, received, eof>>

SeeEnd ==
  /\ ended /\ received = written
  /\ eof' = TRUE
  /\ UNCHANGED <<written, received, ended>>

Next == Write \/ Read \/ Finish \/ SeeEnd

Spec == Init /\ [][Next]_vars
=============================================================================
