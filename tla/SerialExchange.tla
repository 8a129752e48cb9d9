--------------------------- MODULE SerialExchange ---------------------------
(***************************************************************************)
(* What the link promises to the game and to the adapter: a serial port    *)
(* that exchanges one byte at a time.  The adapter's side of the exchange  *)
(* is loaded beforehand: the byte shifted in answers the byte before.      *)
(***************************************************************************)
CONSTANTS Byte, IdleByte

VARIABLES
  out,          \* the byte the adapter has ready
  wire,         \* the exchange under way
  adapterGot,   \* the last byte the adapter received
  gameGot,      \* the last byte the game received
  up            \* the game and the adapter are both there

vars == <<out, wire, adapterGot, gameGot, up>>

None == [kind |-> "none", b |-> IdleByte]

Init ==
  /\ out = IdleByte
  /\ wire = None
  /\ adapterGot = IdleByte
  /\ gameGot = IdleByte
  /\ up = TRUE

\* The game shifts out b.
Request(b) ==
  /\ up /\ wire = None
  /\ wire' = [kind |-> "request", b |-> b]
  /\ UNCHANGED <<out, adapterGot, gameGot, up>>

\* The adapter receives it, answers with what it had ready, and makes r ready.
Shift(r) ==
  /\ up /\ wire.kind = "request"
  /\ adapterGot' = wire.b
  /\ wire' = [kind |-> "answer", b |-> out]
  /\ out' = r
  /\ UNCHANGED <<gameGot, up>>

\* The game receives the answer.
Answer ==
  /\ up /\ wire.kind = "answer"
  /\ gameGot' = wire.b
  /\ wire' = None
  /\ UNCHANGED <<out, adapterGot, up>>

\* The game or the adapter goes, or is gone: only then what is under way may be
\* lost, and a byte sent before may still reach the adapter.
Hangup ==
  /\ up' = FALSE
  /\ wire' \in {wire, None}
  /\ UNCHANGED <<out, adapterGot, gameGot>>

LastShift(r) ==
  /\ ~up /\ wire.kind = "request"
  /\ adapterGot' = wire.b
  /\ wire' = None
  /\ out' = r
  /\ UNCHANGED <<gameGot, up>>

Next ==
  \/ \E b \in Byte : Request(b) \/ Shift(b) \/ LastShift(b)
  \/ Answer
  \/ Hangup

Spec == Init /\ [][Next]_vars
=============================================================================
