------------------------------ MODULE BgbWire -------------------------------
(***************************************************************************)
(* The TCP connection between the BGB emulator and the program, and the    *)
(* emulator at its other end.                                              *)
(*                                                                         *)
(* The emulator is not part of the repository.  It is modelled from what   *)
(* bgblink.c expects of it and from BGBMaster, the stand-in test.py uses:  *)
(* it answers the handshake, sends one STATUS packet, and from then on     *)
(* sends packets whenever it likes, SYNC1 only while no earlier SYNC1 is   *)
(* unanswered.  Its clock may                                              *)
(*   - advance by at most ResetGap between two stamps (BGBMaster's         *)
(*     forward_time never leaves a larger gap),                            *)
(*   - be cut, when the emulator is reset or a save state is loaded,       *)
(*   - be stamped up to BackGap too low (the BGB bug bgb_loop works        *)
(*     around).                                                            *)
(***************************************************************************)
EXTENDS BgbClock, Sequences

CONSTANTS
  Byte,          \* the bytes the game and the adapter exchange
  InCap,         \* packets the connection holds towards the program
  OutCap,        \* packets it holds towards the emulator
  Chatter,       \* packets without a stamp that the emulator may send
  Jumps,         \* distances by which a cut may move the emulator's clock
  FirstStamped   \* TRUE: the emulator's first packet after STATUS is stamped

Quiet == {"JOYPAD", "SYNC2", "STATUS", "WANTDISCONNECT"}

ASSUME WireAssumption ==
  /\ Byte \subseteq 0 .. 255
  /\ InCap \in Nat \ {0} /\ OutCap \in Nat \ {0}
  /\ Chatter \subseteq Quiet
  /\ Jumps \subseteq 1 .. (Half - 1)
  /\ FirstStamped \in BOOLEAN

VARIABLES
  toAdapter,     \* packets sent by the emulator and not yet received
  toEmu,         \* packets sent by the program and not yet received
  emuOpen,       \* the emulator's end of the connection is open
  emuSent,       \* packets the emulator has sent, counted up to 3
  emuClock,      \* the emulator's clock at its latest packet
  emuAwait,      \* the emulator waits for the answer to a SYNC1
  emuGot,        \* the byte of the last answer it received
  trail          \* history: what the emulator's clock did at each packet

wireVars == <<toAdapter, toEmu, emuOpen, emuSent, emuClock, emuAwait, emuGot,
              trail>>
-----------------------------------------------------------------------------
Cmd == Quiet \cup {"VERSION", "SYNC1", "SYNC3", "OTHER"}

\* struct bgb_packet.  b3 and b4 are constant in every packet that is built
\* and ignored in every packet that is read, except in the handshake, where
\* they are as good as b2.
Packet == [cmd : Cmd, b2 : 0 .. 255, ts : Uint32]

\* For each packet in toAdapter: the emulator's clock at the packet before it
\* and at this one, whether it was cut between the two, and the packet's
\* place in the connection (0 handshake, 1 status, 2 first packet, 3 later).
Step == [from : EmuTime, now : EmuTime, cut : BOOLEAN, n : 0 .. 3]

handshake == [cmd |-> "VERSION", b2 |-> 1, ts |-> 0]

WireTypeOK ==
  /\ toAdapter \in Seq(Packet)
  /\ toEmu \in Seq(Packet)
  /\ emuOpen \in BOOLEAN
  /\ emuSent \in 0 .. 3
  /\ emuClock \in EmuTime
  /\ emuAwait \in BOOLEAN
  /\ emuGot \in 0 .. 255
  /\ trail \in Seq(Step)
  /\ Len(trail) = Len(toAdapter)

WireInit(idle) ==
  /\ toAdapter = <<>>
  /\ toEmu = <<>>
  /\ emuOpen = TRUE
  /\ emuSent = 0
  /\ emuClock \in EmuTime
  /\ emuAwait = FALSE
  /\ emuGot = idle
  /\ trail = <<>>
-----------------------------------------------------------------------------
(* The emulator.                                                           *)

EmuSends(p, now, cut) ==
  /\ emuOpen
  /\ Len(toAdapter) < InCap
  /\ toAdapter' = Append(toAdapter, p)
  /\ trail' = Append(trail, [from |-> emuClock, now |-> now, cut |-> cut,
                             n |-> emuSent])
  /\ emuClock' = now
  /\ emuSent' = IF emuSent = 3 THEN 3 ELSE emuSent + 1
  /\ UNCHANGED <<toEmu, emuOpen, emuGot>>

EmuSendsPlain(cmd, b2) ==
  /\ EmuSends([cmd |-> cmd, b2 |-> b2, ts |-> 0], emuClock, FALSE)
  /\ UNCHANGED emuAwait

\* The emulator answers the handshake, with its own version.
EmuGreet == \E version \in {0, 1} :
  /\ emuSent = 0
  /\ EmuSendsPlain("VERSION", version)

\* It reports its status, or breaks the protocol.
EmuStatus == \E cmd \in {"STATUS", "OTHER"} :
  /\ emuSent = 1
  /\ EmuSendsPlain(cmd, 1)

\* A packet without a stamp.
EmuChatter == \E cmd \in Chatter \cup {"OTHER"} :
  /\ emuSent >= 2
  /\ FirstStamped => emuSent = 3
  /\ EmuSendsPlain(cmd, 0)

\* A stamped packet: the clock has advanced, was cut, or is stamped too low.
EmuStamps(cmd, b2) ==
  LET Pkt(ts) == [cmd |-> cmd, b2 |-> b2, ts |-> ts] IN
  /\ emuSent >= 2
  /\ \/ \E d \in 0 .. ResetGap :
          LET now == (emuClock + d) % Half IN EmuSends(Pkt(now), now, FALSE)
     \/ \E j \in Jumps :
          LET now == (emuClock + j) % Half IN EmuSends(Pkt(now), now, TRUE)
     \/ /\ emuSent = 3
        /\ \E g \in 1 .. BackGap :
             EmuSends(Pkt((emuClock - g) % Half), emuClock, FALSE)

\* The game shifts a byte out and waits for the byte shifted in.
EmuSync1 == \E b \in Byte :
  /\ ~emuAwait
  /\ EmuStamps("SYNC1", b)
  /\ emuAwait' = TRUE

\* The emulator tells how far its clock has come.
EmuSync3 == \E b2 \in {0, 1} :
  /\ EmuStamps("SYNC3", b2)
  /\ UNCHANGED emuAwait

EmuReceive ==
  /\ emuOpen
  /\ toEmu # <<>>
  /\ toEmu' = Tail(toEmu)
  /\ IF Head(toEmu).cmd = "SYNC2"
     THEN emuAwait' = FALSE /\ emuGot' = Head(toEmu).b2
     ELSE UNCHANGED <<emuAwait, emuGot>>
  /\ UNCHANGED <<toAdapter, emuOpen, emuSent, emuClock, trail>>

\* The emulator closes the connection.  What it sent before is still
\* delivered, or lost when the connection is aborted.
EmuClose ==
  /\ emuOpen
  /\ emuOpen' = FALSE
  /\ toEmu' = <<>>
  /\ \/ UNCHANGED <<toAdapter, trail>>
     \/ toAdapter' = <<>> /\ trail' = <<>>
  /\ UNCHANGED <<emuSent, emuClock, emuAwait, emuGot>>

Emulator ==
  \/ EmuGreet \/ EmuStatus \/ EmuChatter \/ EmuSync1 \/ EmuSync3
  \/ EmuReceive \/ EmuClose
-----------------------------------------------------------------------------
(* The program's end of the connection.                                    *)

\* recv returns one whole packet.
Receives(p) ==
  /\ toAdapter # <<>>
  /\ p = Head(toAdapter)
  /\ toAdapter' = Tail(toAdapter)
  /\ trail' = Tail(trail)

\* bgb_recv returns false: the connection is closed, or recv returned fewer
\* bytes than a packet has.
bgb_recv_fails ==
  /\ toAdapter # <<>> \/ ~emuOpen
  /\ UNCHANGED <<toAdapter, trail>>

\* bgb_send returns true for the packets of s (none or one).  The socket is
\* blocking: a send to an emulator that does not read waits for room.  A
\* packet sent to a closed emulator is accepted by the system and lost.
bgb_send(s) ==
  \/ /\ emuOpen
     /\ Len(toEmu) + Len(s) <= OutCap
     /\ toEmu' = toEmu \o s
  \/ /\ ~emuOpen
     /\ UNCHANGED toEmu

\* bgb_send cannot complete until the emulator reads.
SendBlocked(s) == emuOpen /\ Len(toEmu) + Len(s) > OutCap
=============================================================================
