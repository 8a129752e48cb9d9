--------------------------- MODULE ExchangeProofs ---------------------------
(***************************************************************************)
(* The program and the emulator implement SerialExchange: whatever else is *)
(* on its way between them, however the connection blocks or breaks, the   *)
(* game and the adapter exchange one byte at a time.                       *)
(***************************************************************************)
EXTENDS MobileLoopProofs

-----------------------------------------------------------------------------
(* Packets on their way *)

\* No packet of s is a cmd.
NoneOf(s, cmd) == \A i \in DOMAIN s : s[i].cmd # cmd

\* One packet of s is a cmd, with the byte b.
OneOf(s, cmd, b) ==
  \E i \in DOMAIN s :
    /\ s[i].cmd = cmd /\ s[i].b2 = b
    /\ \A j \in DOMAIN s : j # i => s[j].cmd # cmd

\* A packet is sent behind the others.
LEMMA CmdAppended ==
  ASSUME NEW s \in Seq(Packet), NEW p \in Packet, NEW cmd
  PROVE  /\ NoneOf(s, cmd) /\ p.cmd # cmd => NoneOf(Append(s, p), cmd)
         /\ NoneOf(s, cmd) /\ p.cmd = cmd => OneOf(Append(s, p), cmd, p.b2)
         /\ \A b : OneOf(s, cmd, b) /\ p.cmd # cmd => OneOf(Append(s, p), cmd, b)
<1> DEFINE t == Append(s, p)
           n == Len(s)
<1>1. /\ n \in Nat /\ DOMAIN s = 1 .. n /\ DOMAIN t = 1 .. (n + 1)
      /\ t[n + 1] = p /\ \A i \in 1 .. n : t[i] = s[i]
  BY SeqAppend, SeqEmpty
<1> HIDE DEF t, n
<1>2. /\ n + 1 \in DOMAIN t /\ DOMAIN s \subseteq DOMAIN t
      /\ \A i \in DOMAIN t : i \in DOMAIN s \/ i = n + 1
      /\ n + 1 \notin DOMAIN s
  BY <1>1
<1>3. NoneOf(s, cmd) /\ p.cmd # cmd => NoneOf(t, cmd)
  BY <1>1, <1>2, Zenon DEF NoneOf
<1>4. ASSUME NoneOf(s, cmd), p.cmd = cmd
      PROVE  OneOf(t, cmd, p.b2)
  <2>1. \A j \in DOMAIN t : j # n + 1 => t[j].cmd # cmd
    BY <1>1, <1>2, <1>4, Zenon DEF NoneOf
  <2> QED
    BY <1>1, <1>2, <1>4, <2>1, Zenon DEF OneOf
<1>5. ASSUME NEW b, OneOf(s, cmd, b), p.cmd # cmd
      PROVE  OneOf(t, cmd, b)
  <2>1. PICK k \in DOMAIN s :
          /\ s[k].cmd = cmd /\ s[k].b2 = b
          /\ \A j \in DOMAIN s : j # k => s[j].cmd # cmd
    BY <1>5 DEF OneOf
  <2>2. k \in DOMAIN t /\ t[k] = s[k]
    BY <1>1, <1>2
  <2>3. \A j \in DOMAIN t : j # k => t[j].cmd # cmd
    BY <1>1, <1>2, <1>5, <2>1, Zenon
  <2> QED
    BY <2>1, <2>2, <2>3, Zenon DEF OneOf
<1> QED
  BY <1>3, <1>4, <1>5 DEF t

\* The first packet is received.
LEMMA CmdReceived ==
  ASSUME NEW s \in Seq(Packet), s # <<>>, NEW cmd
  PROVE  /\ NoneOf(s, cmd) => NoneOf(Tail(s), cmd) /\ Head(s).cmd # cmd
         /\ \A b : OneOf(s, cmd, b) =>
              IF Head(s).cmd = cmd THEN Head(s).b2 = b /\ NoneOf(Tail(s), cmd)
                                   ELSE OneOf(Tail(s), cmd, b)
<1> DEFINE t == Tail(s)
           n == Len(s)
<1>1. /\ n \in Nat /\ n >= 1 /\ DOMAIN s = 1 .. n /\ DOMAIN t = 1 .. (n - 1)
      /\ Head(s) = s[1] /\ \A i \in 1 .. (n - 1) : t[i] = s[i + 1]
  BY SeqTail, SeqEmpty
<1> HIDE DEF t, n
<1>2. 1 \in DOMAIN s /\ \A i \in DOMAIN t : i + 1 \in DOMAIN s /\ i + 1 # 1
  BY <1>1
<1>3. NoneOf(s, cmd) => NoneOf(t, cmd) /\ Head(s).cmd # cmd
  BY <1>1, <1>2 DEF NoneOf
<1>4. ASSUME NEW b, OneOf(s, cmd, b)
      PROVE  IF Head(s).cmd = cmd THEN Head(s).b2 = b /\ NoneOf(t, cmd)
                                  ELSE OneOf(t, cmd, b)
  <2>1. PICK k \in DOMAIN s :
          /\ s[k].cmd = cmd /\ s[k].b2 = b
          /\ \A j \in DOMAIN s : j # k => s[j].cmd # cmd
    BY <1>4 DEF OneOf
  <2>2. CASE Head(s).cmd = cmd
    <3>1. k = 1
      BY <1>1, <1>2, <2>1, <2>2
    <3>2. NoneOf(t, cmd)
      BY <1>1, <1>2, <2>1, <3>1 DEF NoneOf
    <3> QED
      BY <1>1, <2>1, <2>2, <3>1, <3>2
  <2>3. CASE Head(s).cmd # cmd
    <3>1. k # 1
      BY <1>1, <2>1, <2>3
    <3>2. k - 1 \in DOMAIN t /\ t[k - 1] = s[k]
      BY <1>1, <3>1
    <3>3. ASSUME NEW j \in DOMAIN t, j # k - 1
          PROVE  t[j].cmd # cmd
      <4>1. j + 1 \in DOMAIN s /\ j + 1 # k /\ t[j] = s[j + 1]
        BY <1>1, <3>3
      <4> QED
        BY <2>1, <4>1
    <3>4. OneOf(t, cmd, b)
      BY <2>1, <3>2, <3>3 DEF OneOf
    <3> QED
      BY <2>3, <3>4
  <2> QED
    BY <2>2, <2>3
<1> QED
  BY <1>3, <1>4 DEF t

\* Nothing is on its way.
LEMMA CmdNone == \A cmd : NoneOf(<<>>, cmd)
BY DEF NoneOf
-----------------------------------------------------------------------------
(* The exchange *)

\* The three states of an exchange.  An emulator that waits for no answer has
\* none under way, so that it never has two.
Idle == NoneOf(toAdapter, "SYNC1") /\ NoneOf(toEmu, "SYNC2")

Requested(b) ==
  emuAwait /\ OneOf(toAdapter, "SYNC1", b) /\ NoneOf(toEmu, "SYNC2")

Answered(b) ==
  emuAwait /\ NoneOf(toAdapter, "SYNC1") /\ OneOf(toEmu, "SYNC2", b)

\* The inductive invariant: at most one byte is under way, in one direction.
OneAtATime == Idle \/ \E b : Requested(b) \/ Answered(b)

\* What SerialExchange sees of them.
LEMMA UnderwayIs ==
  ASSUME NEW s, NEW t
  PROVE  /\ NoneOf(s, "SYNC1") /\ NoneOf(t, "SYNC2") =>
              Underway(s, t) = [kind |-> "none", b |-> IdleByte]
         /\ \A b : OneOf(s, "SYNC1", b) =>
              Underway(s, t) = [kind |-> "request", b |-> b]
         /\ \A b : NoneOf(s, "SYNC1") /\ OneOf(t, "SYNC2", b) =>
              Underway(s, t) = [kind |-> "answer", b |-> b]
<1>1. NoneOf(s, "SYNC1") /\ NoneOf(t, "SYNC2") =>
        Underway(s, t) = [kind |-> "none", b |-> IdleByte]
  BY DEF Underway, NoneOf
<1>2. ASSUME NEW b, OneOf(s, "SYNC1", b)
      PROVE  Underway(s, t) = [kind |-> "request", b |-> b]
  <2> DEFINE k == CHOOSE i \in DOMAIN s : s[i].cmd = "SYNC1"
  <2>1. k \in DOMAIN s /\ s[k].cmd = "SYNC1"
    BY <1>2 DEF OneOf
  <2>2. s[k].b2 = b
    BY <1>2, <2>1 DEF OneOf
  <2> QED
    BY <2>1, <2>2 DEF Underway
<1>3. ASSUME NEW b, NoneOf(s, "SYNC1"), OneOf(t, "SYNC2", b)
      PROVE  Underway(s, t) = [kind |-> "answer", b |-> b]
  <2> DEFINE k == CHOOSE i \in DOMAIN t : t[i].cmd = "SYNC2"
  <2>1. k \in DOMAIN t /\ t[k].cmd = "SYNC2"
    BY <1>3 DEF OneOf
  <2>2. t[k].b2 = b
    BY <1>3, <2>1 DEF OneOf
  <2> QED
    BY <1>3, <2>1, <2>2 DEF Underway, NoneOf
<1> QED
  BY <1>1, <1>2, <1>3

None == [kind |-> "none", b |-> IdleByte]
Wire == Underway(toAdapter, toEmu)
Up == emuOpen /\ pc \notin Terminal

\* A step that changes neither what is under way nor what the ends have.
Same == \/ Idle /\ Idle'
        \/ \E b : Requested(b) /\ Requested(b)'
        \/ \E b : Answered(b) /\ Answered(b)'

\* The step is one of SerialExchange, and the invariant holds after it.
ExchangeStep ==
  /\ OneAtATime'
  /\ [Exchange!Next]_<<byte, Wire, heard, emuGot, Up>>

\* The wire in each state, before a step and after it.
LEMMA WireIs ==
  /\ Idle => Wire = None
  /\ \A b : Requested(b) => Wire = [kind |-> "request", b |-> b]
  /\ \A b : Answered(b) => Wire = [kind |-> "answer", b |-> b]
BY UnderwayIs DEF Idle, Requested, Answered, Wire, None

LEMMA WireBecomes ==
  /\ Idle' => Wire' = None
  /\ \A b : Requested(b)' => Wire' = [kind |-> "request", b |-> b]
  /\ \A b : Answered(b)' => Wire' = [kind |-> "answer", b |-> b]
BY UnderwayIs DEF Idle, Requested, Answered, Wire, None

\* Nothing of the exchange changes, or one end goes or is gone and what was
\* under way may be lost.
LEMMA ExchangeSame ==
  ASSUME Same \/ (OneAtATime /\ Idle' /\ ~Up'), Up' => Up,
         UNCHANGED <<byte, heard, emuGot>>
  PROVE  ExchangeStep
<1>1. OneAtATime'
  BY DEF Same, OneAtATime
<1>2. Up \in BOOLEAN /\ Up' \in BOOLEAN
  BY DEF Up
<1>3. Same => Wire' = Wire
  BY WireIs, WireBecomes DEF Same
<1>4. CASE Up'
  <2>1. Wire' = Wire /\ Up' = Up
    BY <1>2, <1>3, <1>4
  <2> QED
    BY <1>1, <2>1 DEF ExchangeStep
<1>5. CASE ~Up'
  <2>1. Wire' \in {Wire, None}
    BY <1>3, WireBecomes
  <2>2. Up' = FALSE
    BY <1>2, <1>5
  <2>3. Exchange!Hangup
    BY <2>1, <2>2 DEF Exchange!Hangup, Exchange!None, Wire, None, Up
  <2> QED
    BY <1>1, <2>3 DEF ExchangeStep, Exchange!Next
<1> QED
  BY <1>4, <1>5

\* The game shifts out b.
LEMMA ExchangeRequest ==
  ASSUME Idle, NEW b \in Byte, Requested(b)', Up, UNCHANGED Up,
         UNCHANGED <<byte, heard, emuGot>>
  PROVE  ExchangeStep
<1>1. Wire = None /\ Wire' = [kind |-> "request", b |-> b]
  BY WireIs, WireBecomes
<1>2. Exchange!Request(b)
  BY <1>1 DEF Exchange!Request, Exchange!None, Wire, None, Up
<1> QED
  BY <1>2 DEF ExchangeStep, Exchange!Next, OneAtATime

\* The adapter is given b and returns another byte, and the byte it returned
\* before is the answer, unless the emulator is gone.
LEMMA ExchangeShift ==
  ASSUME NEW b, NEW old, old = byte, Requested(b),
         (Up /\ Answered(old)') \/ (~Up /\ Idle'), UNCHANGED Up, heard' = b, byte' \in Byte, UNCHANGED emuGot
  PROVE  ExchangeStep
<1>1. Wire = [kind |-> "request", b |-> b]
  BY WireIs
<1>2. OneAtATime'
  BY DEF OneAtATime
<1>3. CASE Up /\ Answered(old)'
  <2>1. Wire' = [kind |-> "answer", b |-> byte]
    BY <1>3, WireBecomes
  <2>2. Exchange!Shift(byte')
    BY <1>1, <1>3, <2>1 DEF Exchange!Shift, Wire, Up
  <2> QED
    BY <1>2, <2>2 DEF ExchangeStep, Exchange!Next
<1>4. CASE ~Up /\ Idle'
  <2>1. Wire' = None
    BY <1>4, WireBecomes
  <2>2. Exchange!LastShift(byte')
    BY <1>1, <1>4, <2>1 DEF Exchange!LastShift, Exchange!None, Wire, None, Up
  <2> QED
    BY <1>2, <2>2 DEF ExchangeStep, Exchange!Next
<1> QED
  BY <1>3, <1>4

\* The game receives the answer.
LEMMA ExchangeAnswer ==
  ASSUME NEW b, Answered(b), Idle', emuGot' = b, Up, UNCHANGED Up,
         UNCHANGED <<byte, heard>>
  PROVE  ExchangeStep
<1>1. Wire = [kind |-> "answer", b |-> b] /\ Wire' = None
  BY WireIs, WireBecomes
<1>2. Exchange!Answer
  BY <1>1 DEF Exchange!Answer, Exchange!None, Wire, None, Up
<1> QED
  BY <1>2 DEF ExchangeStep, Exchange!Next, OneAtATime
-----------------------------------------------------------------------------
(* The connection *)

\* recv takes a packet that is no SYNC1 out of the connection.
LEMMA ReceivesQuiet ==
  ASSUME TypeOK, NEW p, Receives(p), p.cmd # "SYNC1"
  PROVE  /\ NoneOf(toAdapter, "SYNC1") => NoneOf(toAdapter', "SYNC1")
         /\ \A b : OneOf(toAdapter, "SYNC1", b) => OneOf(toAdapter', "SYNC1", b)
<1>1. /\ toAdapter \in Seq(Packet) /\ toAdapter # <<>>
      /\ Head(toAdapter) = p /\ toAdapter' = Tail(toAdapter)
  BY DEF TypeOK, WireTypeOK, Receives
<1> QED
  BY <1>1, CmdReceived, Zenon

\* recv takes a SYNC1 out of it: there is no other.
LEMMA ReceivesSync1 ==
  ASSUME TypeOK, OneAtATime, NEW p, Receives(p), p.cmd = "SYNC1"
  PROVE  Requested(p.b2) /\ NoneOf(toAdapter', "SYNC1")
<1>1. /\ toAdapter \in Seq(Packet) /\ toAdapter # <<>>
      /\ Head(toAdapter) = p /\ toAdapter' = Tail(toAdapter)
  BY DEF TypeOK, WireTypeOK, Receives
<1>2. ~NoneOf(toAdapter, "SYNC1")
  BY <1>1, CmdReceived
<1>3. PICK b : Requested(b)
  BY <1>2 DEF OneAtATime, Idle, Answered
<1>4. p.b2 = b /\ NoneOf(Tail(toAdapter), "SYNC1")
  BY <1>1, <1>3, CmdReceived DEF Requested
<1> QED
  BY <1>1, <1>3, <1>4

\* bgb_send of a packet, or of none.
LEMMA SendsOne ==
  ASSUME TypeOK, NEW p \in Packet, bgb_send(<<p>>)
  PROVE  IF emuOpen THEN toEmu' = Append(toEmu, p) ELSE toEmu' = toEmu
<1>1. toEmu \o <<p>> = Append(toEmu, p)
  BY DEF TypeOK, WireTypeOK
<1> QED
  BY <1>1 DEF bgb_send

LEMMA SendsNone ==
  ASSUME TypeOK, bgb_send(<<>>)
  PROVE  toEmu' = toEmu
<1>1. toEmu \o <<>> = toEmu
  BY DEF TypeOK, WireTypeOK
<1> QED
  BY <1>1 DEF bgb_send

\* A packet that is sent, and is no SYNC2, is no answer.
LEMMA SendsQuiet ==
  ASSUME TypeOK, NEW p \in Packet, p.cmd # "SYNC2",
         bgb_send(<<p>>) \/ bgb_send(<<>>) \/ UNCHANGED toEmu
  PROVE  /\ NoneOf(toEmu, "SYNC2") => NoneOf(toEmu', "SYNC2")
         /\ \A b : OneOf(toEmu, "SYNC2", b) => OneOf(toEmu', "SYNC2", b)
<1>1. toEmu' = toEmu \/ toEmu' = Append(toEmu, p)
  BY SendsOne, SendsNone
<1>2. toEmu \in Seq(Packet)
  BY DEF TypeOK, WireTypeOK
<1> QED
  BY <1>1, <1>2, CmdAppended, Zenon

\* A step that keeps each of the two as it was.
LEMMA QuietStep ==
  ASSUME OneAtATime, UNCHANGED emuAwait,
         NoneOf(toAdapter, "SYNC1") => NoneOf(toAdapter', "SYNC1"),
         \A b : OneOf(toAdapter, "SYNC1", b) => OneOf(toAdapter', "SYNC1", b),
         NoneOf(toEmu, "SYNC2") => NoneOf(toEmu', "SYNC2"),
         \A b : OneOf(toEmu, "SYNC2", b) => OneOf(toEmu', "SYNC2", b)
  PROVE  Same
BY DEF OneAtATime, Same, Idle, Requested, Answered

\* The program receives a packet and sends nothing: if it was a SYNC1, the
\* exchange ends there.
LEMMA ReceivesOnly ==
  ASSUME TypeOK, OneAtATime, NEW p, Receives(p), UNCHANGED <<toEmu, emuAwait>>
  PROVE  Same \/ Idle'
<1>1. CASE p.cmd = "SYNC1"
  BY <1>1, ReceivesSync1 DEF Requested, Idle
<1>2. CASE p.cmd # "SYNC1"
  BY <1>2, ReceivesQuiet, QuietStep
<1> QED
  BY <1>1, <1>2
-----------------------------------------------------------------------------
(* The program *)

\* An end that is gone does not come back.
LEMMA UpFalls ==
  ASSUME [Next]_vars
  PROVE  Up' => Up
<1>1. CASE InitSteps
  <2>1. UNCHANGED emuOpen
    BY <1>1, Zenon DEF InitSteps, bgb_init_greet, bgb_init_version, bgb_init_status,
       bgb_init_fails, emuState
  <2>2. pc \notin Terminal \/ pc' \in Terminal
    BY <1>1, Zenon DEF InitSteps, bgb_init_greet, bgb_init_version, bgb_init_status,
       bgb_init_fails, Terminal
  <2> QED
    BY <2>1, <2>2 DEF Up
<1>2. CASE bgb_loop_sync1 \/ bgb_loop_other \/ bgb_loop_false
  <2>1. UNCHANGED emuOpen /\ Looping
    BY <1>2 DEF bgb_loop_sync1, bgb_loop_other, bgb_loop_false, bgb_loop_fails, emuState
  <2> QED
    BY <2>1 DEF Up, Looping, Terminal
<1>3. CASE \/ bgb_loop_nodata \/ main_start \/ mobile_handle_loop
           \/ mobile_actions_process \/ socket_wait \/ main_break \/ main_stop
           \/ signal_int \/ SigPipe
  <2>1. UNCHANGED emuOpen
    BY <1>3 DEF bgb_loop_nodata, main_start, mobile_handle_loop,
       mobile_actions_process, socket_wait, main_break, main_stop, signal_int,
       SigPipe, bgb_send_kills, wireVars
  <2>2. pc \notin Terminal \/ pc' \in Terminal
    BY <1>3 DEF bgb_loop_nodata, main_start, mobile_handle_loop,
       mobile_actions_process, socket_wait, main_break, main_stop, signal_int,
       SigPipe, bgb_send_kills, Terminal
  <2> QED
    BY <2>1, <2>2 DEF Up
<1>4. CASE EmulatorStep
  <2>1. UNCHANGED pc
    BY <1>4 DEF EmulatorStep
  <2>2. emuOpen
    BY <1>4, Zenon DEF EmulatorStep, Emulator, EmuGreet, EmuStatus, EmuChatter,
       EmuSync1, EmuSync3, EmuStamps, EmuSendsPlain, EmuSends, EmuReceive, EmuClose
  <2> QED
    BY <2>1, <2>2 DEF Up
<1>5. CASE Terminated \/ UNCHANGED vars
  BY <1>5, Zenon DEF Terminated, vars, wireVars, Up
<1> QED
  BY <1>1, <1>2, <1>3, <1>4, <1>5 DEF Next, Program

\* bgb_init sends no answer and gives the adapter no byte.
LEMMA ExchangeInitSteps ==
  ASSUME TypeOK, OneAtATime, InitSteps, Up' => Up
  PROVE  ExchangeStep
<1>1. UNCHANGED <<byte, heard, emuGot, emuAwait>>
  BY Zenon DEF InitSteps, bgb_init_greet, bgb_init_version, bgb_init_status,
     bgb_init_fails, linkVars, userVars, emuState
<1>2. 0 \in Uint32
  BY ClockAssumption DEF Uint32
<1>3. CASE bgb_init_greet
  <2>1. handshake \in Packet /\ handshake.cmd # "SYNC2"
    BY <1>2 DEF handshake, Packet, Cmd
  <2>2. bgb_send(<<handshake>>) /\ UNCHANGED toAdapter
    BY <1>3 DEF bgb_init_greet
  <2>3. Same
    BY <1>1, <2>1, <2>2, SendsQuiet, QuietStep
  <2> QED
    BY <1>1, <2>3, ExchangeSame
<1>4. CASE bgb_init_version
  <2> DEFINE p == [cmd |-> "STATUS", b2 |-> 7, ts |-> 0]
  <2>1. p \in Packet /\ p.cmd # "SYNC2" /\ handshake.cmd # "SYNC1"
    BY <1>2 DEF handshake, Packet, Cmd, Quiet
  <2>2. bgb_send(<<p>>) /\ Receives(handshake)
    BY <1>4 DEF bgb_init_version
  <2> HIDE DEF p
  <2>3. Same
    BY <1>1, <2>1, <2>2, SendsQuiet, ReceivesQuiet, QuietStep
  <2> QED
    BY <1>1, <2>3, ExchangeSame
<1>5. CASE bgb_init_status
  <2>1. PICK p \in Waiting :
          Receives(p) /\ p.cmd = "STATUS" /\ bgb_send(<<[p EXCEPT !.b2 = 5]>>)
    BY <1>5, Zenon DEF bgb_init_status
  <2> DEFINE q == [p EXCEPT !.b2 = 5]
  <2>2. p \in Packet
    BY <2>1, ReceivesType
  <2>3. q \in Packet /\ q.cmd # "SYNC2"
    BY <2>1, <2>2 DEF Packet
  <2> HIDE DEF q
  <2>4. bgb_send(<<q>>) /\ p.cmd # "SYNC1"
    BY <2>1 DEF q
  <2>5. Same
    BY <1>1, <2>1, <2>3, <2>4, SendsQuiet, ReceivesQuiet, QuietStep
  <2> QED
    BY <1>1, <2>5, ExchangeSame
<1>6. CASE bgb_init_fails
  <2>1. UNCHANGED toEmu
    BY <1>6 DEF bgb_init_fails
  <2>2. CASE UNCHANGED toAdapter
    <3>1. Same
      BY <1>1, <2>1, <2>2, QuietStep
    <3> QED
      BY <1>1, <3>1, ExchangeSame
  <2>3. CASE \E p \in Waiting : Receives(p)
    <3>1. ~Up'
      BY <1>6 DEF bgb_init_fails, Up, Terminal
    <3> QED
      BY <1>1, <2>1, <2>3, <3>1, ReceivesOnly, ExchangeSame
  <2> QED
    BY <1>6, <2>2, <2>3 DEF bgb_init_fails, bgb_recv_fails
<1> QED
  BY <1>3, <1>4, <1>5, <1>6 DEF InitSteps

\* bgb_loop answers a SYNC1 at once, with the byte of the exchange before.
LEMMA ExchangeSync1 ==
  ASSUME TypeOK, OneAtATime, bgb_loop_sync1
  PROVE  ExchangeStep
<1>1. PICK p \in Waiting, ret \in Byte, L \in SUBSET Timers :
        /\ Receives(p)
        /\ p.cmd = "SYNC1"
        /\ bgb_send(Answer(p))
        /\ bgb_loop_transfer(p.b2, L)
        /\ LinkHandles(p, ret)
  BY DEF bgb_loop_sync1
<1>2. heard' = p.b2 /\ byte' = ret /\ UNCHANGED <<emuAwait, emuGot>>
  BY <1>1 DEF bgb_loop_transfer, LinkHandles, bgb_loop_sync1, emuState
<1> DEFINE a == [cmd |-> "SYNC2", b2 |-> byte, ts |-> 0]
<1>3. Answer(p) = <<a>>
  BY <1>1 DEF Answer
<1>4. a \in Packet /\ a.cmd = "SYNC2" /\ a.b2 = byte
  <2>1. 0 \in Uint32
    BY ClockAssumption DEF Uint32
  <2>2. byte \in 0 .. 255
    BY WireAssumption DEF TypeOK, LinkTypeOK
  <2> QED
    BY <2>1, <2>2 DEF Packet, Cmd, Quiet
<1> HIDE DEF a
<1>5. Requested(p.b2) /\ NoneOf(toAdapter', "SYNC1")
  BY <1>1, ReceivesSync1
<1>6. IF emuOpen THEN toEmu' = Append(toEmu, a) ELSE toEmu' = toEmu
  BY <1>1, <1>3, <1>4, SendsOne
<1>7. toEmu \in Seq(Packet)
  BY DEF TypeOK, WireTypeOK
<1>8. PICK old : old = byte
  OBVIOUS
<1>9. (Up <=> emuOpen) /\ UNCHANGED Up
  BY DEF bgb_loop_sync1, Looping, AfterLoop, emuState, Up, Terminal
<1>10. CASE emuOpen
  <2>1. OneOf(toEmu', "SYNC2", old)
    BY <1>4, <1>5, <1>6, <1>7, <1>8, <1>10, CmdAppended, Zenon DEF Requested
  <2>2. Answered(old)'
    BY <1>2, <1>5, <2>1 DEF Requested, Answered
  <2> QED
    BY <1>2, <1>5, <1>8, <1>9, <1>10, <2>2, ExchangeShift
<1>11. CASE ~emuOpen
  <2>1. Idle'
    BY <1>5, <1>6, <1>11 DEF Requested, Idle
  <2> QED
    BY <1>2, <1>5, <1>8, <1>9, <1>11, <2>1, ExchangeShift
<1> QED
  BY <1>10, <1>11

\* The other packets do not touch the exchange, even those it sends back.
LEMMA ExchangeOther ==
  ASSUME TypeOK, OneAtATime, bgb_loop_other, Up' => Up
  PROVE  ExchangeStep
<1>1. PICK p \in Waiting :
        /\ Receives(p) /\ p.cmd # "SYNC1"
        /\ bgb_send(Answer(p))
        /\ LinkHandles(p, byte)
  BY DEF bgb_loop_other
<1>2. UNCHANGED <<byte, heard, emuAwait, emuGot>>
  BY <1>1 DEF LinkHandles, bgb_loop_other, emuState
<1>3. p \in Packet
  BY <1>1, ReceivesType
<1>4. Answer(p) = <<>> \/ (Answer(p) = <<p>> /\ p.cmd = "SYNC3")
  BY <1>1 DEF Answer
<1>5. /\ NoneOf(toEmu, "SYNC2") => NoneOf(toEmu', "SYNC2")
      /\ \A b : OneOf(toEmu, "SYNC2", b) => OneOf(toEmu', "SYNC2", b)
  <2>1. CASE Answer(p) = <<>>
    <3>1. toEmu' = toEmu
      BY <1>1, <2>1, SendsNone
    <3> QED
      BY <3>1
  <2>2. CASE Answer(p) = <<p>> /\ p.cmd = "SYNC3"
    BY <1>1, <1>3, <2>2, SendsQuiet
  <2> QED
    BY <1>4, <2>1, <2>2
<1>6. Same
  BY <1>1, <1>2, <1>5, ReceivesQuiet, QuietStep
<1> QED
  BY <1>2, <1>6, ExchangeSame

\* When bgb_loop fails, a SYNC1 it received is lost, and the emulator gone.
LEMMA ExchangeFails ==
  ASSUME TypeOK, OneAtATime, bgb_loop_false, Up' => Up
  PROVE  ExchangeStep
<1>1. UNCHANGED <<byte, heard, emuGot, emuAwait, toEmu>>
  BY DEF bgb_loop_false, bgb_loop_fails, linkVars, userVars, emuState
<1>2. CASE UNCHANGED toAdapter
  <2>1. Same
    BY <1>1, <1>2, QuietStep
  <2> QED
    BY <1>1, <2>1, ExchangeSame
<1>3. ASSUME NEW p \in Waiting, Receives(p),
             ~Known(p) \/ (Answer(p) # <<>> /\ ~emuOpen)
      PROVE  ExchangeStep
  <2>1. CASE p.cmd = "SYNC1"
    <3>1. ~Up'
      <4>1. ~emuOpen
        BY <1>3, <2>1 DEF Known
      <4> QED
        BY <4>1 DEF Up
    <3> QED
      BY <1>1, <1>3, <3>1, ReceivesOnly, ExchangeSame
  <2>2. CASE p.cmd # "SYNC1"
    BY <1>1, <1>3, <2>2, ReceivesQuiet, QuietStep, ExchangeSame
  <2> QED
    BY <2>1, <2>2
<1> QED
  BY <1>2, <1>3 DEF bgb_loop_false, bgb_loop_fails, bgb_recv_fails

\* The rest of main does not touch the exchange.
LEMMA ExchangeMain ==
  ASSUME OneAtATime, Up' => Up,
         \/ bgb_loop_nodata \/ main_start \/ mobile_handle_loop
         \/ mobile_actions_process \/ socket_wait \/ main_break \/ main_stop
         \/ signal_int \/ SigPipe \/ UNCHANGED vars
  PROVE  ExchangeStep
<1>1. UNCHANGED <<byte, heard, emuGot, emuAwait, toEmu, toAdapter>>
  BY DEF bgb_loop_nodata, main_start, mobile_handle_loop, mobile_actions_process,
     socket_wait, main_break, main_stop, signal_int, SigPipe, bgb_send_kills, vars,
     wireVars, linkVars, userVars
<1>2. Same
  BY <1>1, QuietStep
<1> QED
  BY <1>1, <1>2, ExchangeSame
-----------------------------------------------------------------------------
(* The emulator *)

\* A packet of the emulator that is no SYNC1.
LEMMA ExchangeChatter ==
  ASSUME TypeOK, OneAtATime, NEW p \in Packet, NEW now, NEW cut,
         p.cmd # "SYNC1", EmuSends(p, now, cut), Up' => Up,
         UNCHANGED <<byte, heard, emuAwait>>
  PROVE  ExchangeStep
<1>1. /\ toAdapter \in Seq(Packet) /\ toAdapter' = Append(toAdapter, p)
      /\ UNCHANGED <<toEmu, emuGot>>
  BY DEF TypeOK, WireTypeOK, EmuSends
<1>2. Same
  BY <1>1, CmdAppended, QuietStep
<1> QED
  BY <1>1, <1>2, ExchangeSame

\* A SYNC1, which an emulator sends that waits for no answer.
LEMMA ExchangeAsks ==
  ASSUME TypeOK, OneAtATime, NEW p \in Packet, NEW now, NEW cut,
         p.cmd = "SYNC1", p.b2 \in Byte, EmuSends(p, now, cut),
         ~emuAwait, emuAwait', Up, UNCHANGED Up, UNCHANGED <<byte, heard>>
  PROVE  ExchangeStep
<1>1. /\ toAdapter \in Seq(Packet) /\ toAdapter' = Append(toAdapter, p)
      /\ UNCHANGED <<toEmu, emuGot>>
  BY DEF TypeOK, WireTypeOK, EmuSends
<1>2. Idle
  BY DEF OneAtATime, Requested, Answered
<1>3. PICK b \in Byte : b = p.b2
  OBVIOUS
<1>4. Requested(b)'
  BY <1>1, <1>2, <1>3, CmdAppended DEF Idle, Requested
<1> QED
  BY <1>1, <1>2, <1>4, ExchangeRequest

\* A stamped packet of the emulator is a packet that it sends.
LEMMA StampsSend ==
  ASSUME TypeOK, NEW cmd \in {"SYNC1", "SYNC3"}, NEW b2 \in 0 .. 255,
         EmuStamps(cmd, b2)
  PROVE  \E p, now, cut :
           p \in Packet /\ p.cmd = cmd /\ p.b2 = b2 /\ EmuSends(p, now, cut)
<1> DEFINE Pkt(ts) == [cmd |-> cmd, b2 |-> b2, ts |-> ts]
<1>1. ASSUME NEW ts \in EmuTime
      PROVE  Pkt(ts) \in Packet /\ Pkt(ts).cmd = cmd /\ Pkt(ts).b2 = b2
  BY <1>1, EmuTimeIsUint32 DEF Packet, Cmd
<1>2. emuClock \in Int /\ ResetGap \in Nat /\ BackGap \in Nat /\ Half \in Nat
  BY ClockAssumption DEF TypeOK, WireTypeOK, EmuTime
<1>3. PICK ts, now, cut : ts \in EmuTime /\ EmuSends(Pkt(ts), now, cut)
  <2>1. CASE \E d \in 0 .. ResetGap :
               EmuSends(Pkt((emuClock + d) % Half), (emuClock + d) % Half, FALSE)
    <3>1. PICK d \in 0 .. ResetGap :
            EmuSends(Pkt((emuClock + d) % Half), (emuClock + d) % Half, FALSE)
      BY <2>1, Zenon
    <3>2. (emuClock + d) % Half \in EmuTime
      BY <1>2, LapType
    <3> QED
      BY <3>1, <3>2, Zenon
  <2>2. CASE \E j \in Jumps :
               EmuSends(Pkt((emuClock + j) % Half), (emuClock + j) % Half, TRUE)
    <3>1. PICK j \in Jumps :
            EmuSends(Pkt((emuClock + j) % Half), (emuClock + j) % Half, TRUE)
      BY <2>2, Zenon
    <3>2. j \in Int
      BY <1>2, WireAssumption
    <3>3. (emuClock + j) % Half \in EmuTime
      BY <1>2, <3>2, LapType
    <3> QED
      BY <3>1, <3>3, Zenon
  <2>3. CASE \E g \in 1 .. BackGap :
               EmuSends(Pkt((emuClock - g) % Half), emuClock, FALSE)
    <3>1. PICK g \in 1 .. BackGap :
            EmuSends(Pkt((emuClock - g) % Half), emuClock, FALSE)
      BY <2>3, Zenon
    <3>2. (emuClock - g) % Half \in EmuTime
      BY <1>2, LapType
    <3> QED
      BY <3>1, <3>2, Zenon
  <2> QED
    BY <2>1, <2>2, <2>3, Zenon DEF EmuStamps
<1> HIDE DEF Pkt
<1> QED
  BY <1>1, <1>3

\* Every step of the emulator: it asks, is answered, or is gone.
LEMMA ExchangeEmulator ==
  ASSUME TypeOK, OneAtATime, EmulatorStep, Up' => Up
  PROVE  ExchangeStep
<1>1. UNCHANGED <<byte, heard>>
  BY DEF EmulatorStep, linkVars, userVars
<1>2. emuOpen /\ emuOpen' => Up /\ UNCHANGED Up
  BY DEF EmulatorStep, Up
<1>3. ASSUME NEW cmd \in Cmd \ {"SYNC1"}, NEW b2 \in 0 .. 255, EmuSendsPlain(cmd, b2)
      PROVE  ExchangeStep
  <2> DEFINE p == [cmd |-> cmd, b2 |-> b2, ts |-> 0]
  <2>1. p \in Packet /\ p.cmd # "SYNC1"
    BY ClockAssumption DEF Packet, Uint32
  <2>2. EmuSends(p, emuClock, FALSE) /\ UNCHANGED emuAwait
    BY <1>3, Zenon DEF EmuSendsPlain
  <2> HIDE DEF p
  <2> QED
    BY <1>1, <2>1, <2>2, ExchangeChatter, Zenon
<1>4. CASE EmuGreet \/ EmuStatus \/ EmuChatter
  <2>1. /\ Quiet \subseteq Cmd \ {"SYNC1"}
        /\ {"VERSION", "STATUS", "OTHER"} \subseteq Cmd \ {"SYNC1"}
    BY DEF Cmd, Quiet
  <2>2. PICK cmd \in Cmd \ {"SYNC1"}, b2 \in 0 .. 255 : EmuSendsPlain(cmd, b2)
    <3>1. CASE EmuGreet
      BY <2>1, <3>1 DEF EmuGreet
    <3>2. CASE EmuStatus
      BY <2>1, <3>2 DEF EmuStatus
    <3>3. CASE EmuChatter
      BY <2>1, <3>3, WireAssumption DEF EmuChatter
    <3> QED
      BY <1>4, <3>1, <3>2, <3>3
  <2> QED
    BY <1>3, <2>2
<1>5. CASE EmuSync1
  <2>1. PICK b \in Byte : ~emuAwait /\ EmuStamps("SYNC1", b) /\ emuAwait' = TRUE
    BY <1>5 DEF EmuSync1
  <2>2. b \in 0 .. 255
    BY WireAssumption
  <2>3. PICK p, now, cut :
          p \in Packet /\ p.cmd = "SYNC1" /\ p.b2 = b /\ EmuSends(p, now, cut)
    BY <1>1, <2>1, <2>2, StampsSend, Zenon
  <2>4. Up /\ UNCHANGED Up
    BY <1>2, <2>3 DEF EmuSends
  <2> QED
    BY <1>1, <2>1, <2>3, <2>4, ExchangeAsks
<1>6. CASE EmuSync3
  <2>1. PICK b2 \in {0, 1} : EmuStamps("SYNC3", b2) /\ UNCHANGED emuAwait
    BY <1>6 DEF EmuSync3
  <2>2. b2 \in 0 .. 255
    OBVIOUS
  <2>3. PICK p, now, cut :
          p \in Packet /\ p.cmd = "SYNC3" /\ p.b2 = b2 /\ EmuSends(p, now, cut)
    BY <1>1, <2>1, <2>2, StampsSend, Zenon
  <2> QED
    BY <1>1, <2>1, <2>3, ExchangeChatter
<1>7. CASE EmuReceive
  <2>1. /\ toEmu \in Seq(Packet) /\ toEmu # <<>> /\ toEmu' = Tail(toEmu)
        /\ UNCHANGED toAdapter
    BY <1>7 DEF EmuReceive, TypeOK, WireTypeOK
  <2>2. CASE Head(toEmu).cmd = "SYNC2"
    <3>1. emuGot' = Head(toEmu).b2
      BY <1>7, <2>2 DEF EmuReceive
    <3>2. ~NoneOf(toEmu, "SYNC2")
      BY <2>1, <2>2, CmdReceived
    <3>3. PICK b : Answered(b)
      BY <3>2 DEF OneAtATime, Idle, Requested
    <3>4. Head(toEmu).b2 = b /\ NoneOf(toEmu', "SYNC2")
      BY <2>1, <2>2, <3>3, CmdReceived DEF Answered
    <3>5. Idle'
      BY <2>1, <3>3, <3>4 DEF Answered, Idle
    <3>6. Up /\ UNCHANGED Up
      BY <1>7, <1>2 DEF EmuReceive
    <3> QED
      BY <1>1, <3>1, <3>3, <3>4, <3>5, <3>6, ExchangeAnswer
  <2>3. CASE Head(toEmu).cmd # "SYNC2"
    <3>1. UNCHANGED <<emuAwait, emuGot>>
      BY <1>7, <2>3 DEF EmuReceive
    <3>2. /\ NoneOf(toEmu, "SYNC2") => NoneOf(toEmu', "SYNC2")
          /\ \A b : OneOf(toEmu, "SYNC2", b) => OneOf(toEmu', "SYNC2", b)
      BY <2>1, <2>3, CmdReceived, Zenon
    <3>3. Same
      BY <2>1, <3>1, <3>2, QuietStep
    <3> QED
      BY <1>1, <3>1, <3>3, ExchangeSame
  <2> QED
    BY <2>2, <2>3
<1>8. CASE EmuClose
  <2>1. /\ toEmu' = <<>> /\ UNCHANGED <<emuAwait, emuGot>>
        /\ toAdapter' = toAdapter \/ toAdapter' = <<>>
    BY <1>8 DEF EmuClose
  <2>2. Same \/ Idle'
    BY <2>1, CmdNone DEF OneAtATime, Same, Idle, Requested, Answered
  <2>3. ~Up'
    BY <1>8 DEF EmuClose, Up
  <2> QED
    BY <1>1, <2>1, <2>2, <2>3, ExchangeSame
<1> QED
  BY <1>4, <1>5, <1>6, <1>7, <1>8 DEF EmulatorStep, Emulator
-----------------------------------------------------------------------------
(* The theorems *)

\* Every step of the program, the emulator and the user is one of the exchange.
LEMMA ExchangeNext ==
  ASSUME TypeOK, OneAtATime, [Next]_vars
  PROVE  ExchangeStep
BY UpFalls, ExchangeInitSteps, ExchangeSync1, ExchangeOther, ExchangeFails,
   ExchangeMain, ExchangeEmulator DEF Next, Program, Terminated

\* Nothing is under way when the program starts.
LEMMA ExchangeInit ==
  ASSUME Init
  PROVE  OneAtATime /\ Exchange!Init
<1>1. /\ toAdapter = <<>> /\ toEmu = <<>> /\ byte = IdleByte /\ heard = IdleByte
      /\ emuGot = IdleByte
  BY DEF Init, WireInit, LinkInit
<1>2. Up = TRUE
  BY DEF Init, WireInit, Up, Terminal
<1>3. Idle
  BY <1>1, CmdNone DEF Idle
<1>4. Wire = None
  BY <1>3, WireIs
<1>5. Exchange!Init
  BY <1>1, <1>4, <1>2 DEF Exchange!Init, Exchange!None, Wire, None, Up
<1> QED
  BY <1>3, <1>5 DEF OneAtATime

\* At most one byte of the game, or one answer to it, is on its way.
THEOREM ExchangeInvariant == Spec => []OneAtATime
<1>1. Init => OneAtATime
  BY ExchangeInit
<1>2. TypeOK /\ OneAtATime /\ [Next]_vars => OneAtATime'
  BY ExchangeNext DEF ExchangeStep
<1> QED
  BY <1>1, <1>2, TypeCorrect, PTL DEF Spec

\* bgb_loop, main and the emulator implement the serial port: each byte of the
\* game reaches mobile_transfer once, in order, and is answered with the byte
\* that mobile_transfer returned for the byte before; while the emulator is
\* connected and the program runs none is lost.
THEOREM ImplementsExchange == Spec => ExchangeSpec
<1>1. Init => Exchange!Init
  BY ExchangeInit
<1>2. TypeOK /\ OneAtATime /\ [Next]_vars =>
        [Exchange!Next]_(Exchange!vars)
  BY ExchangeNext DEF ExchangeStep, Exchange!vars, Wire, Up
<1> QED
  BY <1>1, <1>2, TypeCorrect, ExchangeInvariant, PTL
     DEF Spec, ExchangeSpec, Exchange!Spec
=============================================================================
