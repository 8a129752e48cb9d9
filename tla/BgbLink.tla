------------------------------ MODULE BgbLink -------------------------------
(***************************************************************************)
(* bgblink.c: the link to the emulator.                                    *)
(*                                                                         *)
(* bgb_init runs once, in three steps that end where the code blocks in    *)
(* recv.  bgb_loop handles at most one packet per call; its two callbacks  *)
(* belong to the caller, so what bgb_loop computes is given here as        *)
(* operators on the packet and the module that calls it (MobileLoop) puts  *)
(* them together into one action.                                          *)
(*                                                                         *)
(* pc is the program counter of the program's only thread.                 *)
(***************************************************************************)
EXTENDS BgbWire

CONSTANT IdleByte    \* MOBILE_SERIAL_IDLE_BYTE, the first byte to answer with

ASSUME IdleAssumption == IdleByte \in Byte

VARIABLES
  pc,
  byte,              \* struct bgb_state
  timestamp_last,
  timestamp_init

linkVars == <<byte, timestamp_last, timestamp_init>>

LinkTypeOK ==
  /\ byte \in Byte
  /\ timestamp_last \in Uint32
  /\ timestamp_init \in BOOLEAN

LinkInit ==
  /\ byte = IdleByte
  /\ timestamp_last = 0
  /\ timestamp_init = FALSE
-----------------------------------------------------------------------------
(* bgb_init *)

emuState == <<emuOpen, emuSent, emuClock, emuAwait, emuGot>>

\* The packets waiting to be received.
Waiting == {toAdapter[i] : i \in DOMAIN toAdapter}

bgb_init_greet ==
  /\ pc = "greet"
  /\ bgb_send(<<handshake>>)
  /\ pc' = "version"
  /\ UNCHANGED <<toAdapter, trail, emuState, linkVars>>

bgb_init_version ==
  /\ pc = "version"
  /\ Receives(handshake)
  /\ bgb_send(<<[cmd |-> "STATUS", b2 |-> 7, ts |-> 0]>>)   \* paused
  /\ pc' = "status"
  /\ UNCHANGED <<emuState, linkVars>>

bgb_init_status == \E p \in Waiting :
  /\ pc = "status"
  /\ Receives(p)
  /\ p.cmd = "STATUS"
  /\ bgb_send(<<[p EXCEPT !.b2 = 5]>>)                      \* running
  /\ pc' = "clock"
  /\ UNCHANGED <<emuState, linkVars>>

\* bgb_init returns false: nothing or not enough is received, an unexpected
\* packet is, or a packet cannot be sent.
bgb_init_fails ==
  /\ \/ pc = "greet" /\ ~emuOpen /\ UNCHANGED <<toAdapter, trail>>
     \/ pc \in {"version", "status"} /\ bgb_recv_fails
     \/ \E p \in Waiting :
          /\ Receives(p)
          /\ \/ pc = "version" /\ (p # handshake \/ ~emuOpen)
             \/ pc = "status" /\ (p.cmd # "STATUS" \/ ~emuOpen)
  /\ pc' = "failed"
  /\ UNCHANGED <<toEmu, emuState, linkVars>>
-----------------------------------------------------------------------------
(* bgb_loop, for the packet p it receives *)

Known(p) == p.cmd \in Quiet \cup {"SYNC1", "SYNC3"}

\* Mutants: the game's own byte is sent back; the idle byte is not sent.
AnswerOwn(p) ==
  CASE p.cmd = "SYNC1" -> <<[cmd |-> "SYNC2", b2 |-> p.b2, ts |-> 0]>>
    [] p.cmd = "SYNC3" /\ p.b2 = 0 -> <<p>>
    [] OTHER -> <<>>
AnswerBusy(p) ==
  CASE p.cmd = "SYNC1" /\ byte # IdleByte ->
         <<[cmd |-> "SYNC2", b2 |-> byte, ts |-> 0]>>
    [] p.cmd = "SYNC3" /\ p.b2 = 0 -> <<p>>
    [] OTHER -> <<>>

\* The packet sent back at once: for SYNC1 the byte kept from the exchange
\* before, for a SYNC3 that asks for it the packet itself.
Answer(p) ==
  CASE p.cmd = "SYNC1" -> <<[cmd |-> "SYNC2", b2 |-> byte, ts |-> 0]>>
    [] p.cmd = "SYNC3" /\ p.b2 = 0 -> <<p>>
    [] OTHER -> <<>>

\* timestamp_cur after the switch.
PacketTime(p) == IF p.cmd \in {"SYNC1", "SYNC3"} THEN p.ts ELSE timestamp_last

\* timestamp_last before and after the filter.
LastTime(p) == IF timestamp_init THEN timestamp_last ELSE PacketTime(p)
NewTime(p) ==
  IF WentBack(LastTime(p), PacketTime(p)) THEN LastTime(p) ELSE PacketTime(p)

\* The timestamp callback is called, with NewTime(p): when the link has no
\* time yet, and when the time has changed.
CallsTimestamp(p) == ~timestamp_init \/ NewTime(p) # LastTime(p)

\* Mutant: the stamp is kept as it came, not as the filter left it.
LinkHandlesRaw(p, ret) ==
  /\ byte' = IF p.cmd = "SYNC1" THEN ret ELSE byte
  /\ timestamp_last' = PacketTime(p)
  /\ timestamp_init' = TRUE

\* What bgb_loop leaves in struct bgb_state; ret is what the transfer
\* callback returned.
LinkHandles(p, ret) ==
  /\ byte' = IF p.cmd = "SYNC1" THEN ret ELSE byte
  /\ timestamp_last' = NewTime(p)
  /\ timestamp_init' = TRUE

\* bgb_loop returns false: nothing whole is received, or an unknown packet,
\* or the answer cannot be sent.
bgb_loop_fails ==
  /\ \/ bgb_recv_fails
     \/ \E p \in Waiting :
          /\ Receives(p)
          /\ ~Known(p) \/ (Answer(p) # <<>> /\ ~emuOpen)
  /\ UNCHANGED <<toEmu, emuState, linkVars>>

\* What the program sends next, in the phase it is in.
NextSend ==
  IF pc = "greet" THEN <<handshake>>
  ELSE IF toAdapter = <<>> THEN <<>>
  ELSE LET p == Head(toAdapter) IN
       CASE pc = "version" /\ p = handshake -> <<p>>
         [] pc = "status" /\ p.cmd = "STATUS" -> <<p>>
         [] pc \in {"clock", "loop"} -> Answer(p)
         [] OTHER -> <<>>

\* A send to a closed emulator may instead raise SIGPIPE, which ends the
\* process: the program neither ignores the signal nor asks for MSG_NOSIGNAL.
bgb_send_kills ==
  /\ ~emuOpen
  /\ NextSend # <<>>
  /\ pc' = "killed"
  /\ UNCHANGED <<wireVars, linkVars>>
=============================================================================
