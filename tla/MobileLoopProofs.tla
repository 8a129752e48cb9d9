-------------------------- MODULE MobileLoopProofs --------------------------
(***************************************************************************)
(* Theorems about MobileLoop, for every lap and gaps of the clock, every   *)
(* capacity of the connection, and every set of bytes, timers and actions. *)
(***************************************************************************)
EXTENDS MobileLoop, TLAPS

\* What the proofs use of sequences.  A queue is empty or has a first packet.
LEMMA SeqEmpty ==
  \A S : \A s \in Seq(S) : /\ Len(s) \in Nat /\ DOMAIN s = 1 .. Len(s)
                        /\ s = <<>> <=> Len(s) = 0
OBVIOUS

\* Receiving takes the first packet.
LEMMA SeqTail ==
  ASSUME NEW S, NEW s \in Seq(S), s # <<>>
  PROVE  /\ Head(s) \in S /\ Head(s) = s[1]
         /\ Tail(s) \in Seq(S) /\ Len(Tail(s)) = Len(s) - 1
         /\ \A i \in 1 .. (Len(s) - 1) : Tail(s)[i] = s[i + 1]
OBVIOUS

\* Sending appends a packet, or several.
LEMMA SeqAppend ==
  ASSUME NEW S, NEW s \in Seq(S), NEW e \in S
  PROVE  /\ Append(s, e) \in Seq(S) /\ Len(Append(s, e)) = Len(s) + 1
         /\ Append(s, e)[Len(s) + 1] = e
         /\ \A i \in 1 .. Len(s) : Append(s, e)[i] = s[i]
OBVIOUS

-----------------------------------------------------------------------------
(* The clock *)

\* A difference of stamps is less than a lap (bgblink.c:180, main.c:60, 221).
LEMMA ElapsedType == \A t, s \in Int : Elapsed(t, s) \in 0 .. (Half - 1)
  BY ClockAssumption DEF Elapsed

\* The emulator's counter stays within its lap.
LEMMA LapType == \A x \in Int : x % Half \in EmuTime
  BY ClockAssumption DEF EmuTime

\* A value of the emulator's counter fits the program's uint32_t.
LEMMA EmuTimeIsUint32 == EmuTime \subseteq Uint32
  BY ClockAssumption DEF EmuTime, Uint32
-----------------------------------------------------------------------------
(* Types *)

\* What recv leaves in the connection and what it returns.
LEMMA ReceivesType ==
  ASSUME NEW p, TypeOK, Receives(p)
  PROVE  /\ p \in Packet
         /\ toAdapter' \in Seq(Packet)
         /\ trail' \in Seq(Step)
         /\ Len(trail') = Len(toAdapter')
<1>1. toAdapter \in Seq(Packet) /\ toAdapter # <<>>
  BY DEF TypeOK, WireTypeOK, Receives
<1>2. Len(toAdapter) > 0
  BY <1>1, SeqEmpty
<1>3. trail \in Seq(Step) /\ trail # <<>> /\ Len(trail) = Len(toAdapter)
  BY <1>2, SeqEmpty DEF TypeOK, WireTypeOK
<1>4. /\ Head(toAdapter) \in Packet
      /\ Tail(toAdapter) \in Seq(Packet)
      /\ Len(Tail(toAdapter)) = Len(toAdapter) - 1
  BY <1>1, SeqTail
<1>5. Tail(trail) \in Seq(Step) /\ Len(Tail(trail)) = Len(trail) - 1
  BY <1>3, SeqTail
<1> QED
  BY <1>3, <1>4, <1>5 DEF Receives

\* What bgb_send leaves in the connection.
LEMMA SendType ==
  ASSUME NEW s \in Seq(Packet), TypeOK, bgb_send(s)
  PROVE  toEmu' \in Seq(Packet)
<1>1. toEmu \in Seq(Packet)
  BY DEF TypeOK, WireTypeOK
<1>2. toEmu \o s \in Seq(Packet)
  BY <1>1
<1> QED
  BY <1>1, <1>2, Zenon DEF bgb_send

\* The answer to a packet is none or one packet.
LEMMA AnswerType ==
  ASSUME NEW p \in Packet, TypeOK
  PROVE  Answer(p) \in Seq(Packet)
<1>1. byte \in 0 .. 255
  BY WireAssumption DEF TypeOK, LinkTypeOK
<1>2. 0 \in Uint32
  BY ClockAssumption DEF Uint32
<1>3. [cmd |-> "SYNC2", b2 |-> byte, ts |-> 0] \in Packet
  BY <1>1, <1>2 DEF Packet, Cmd, Quiet
<1> QED
  BY <1>3 DEF Answer

\* The filter yields a time the link has seen.
LEMMA NewTimeType ==
  ASSUME NEW p \in Packet, TypeOK
  PROVE  NewTime(p) \in Uint32
  BY DEF NewTime, LastTime, PacketTime, TypeOK, LinkTypeOK, Packet

\* The age of a timer stays within a lap.
LEMMA OlderType ==
  ASSUME NEW L, NEW d \in Nat, TypeOK, Older(L, d)
  PROVE  age' \in [Timers -> 0 .. Half]
  BY ClockAssumption DEF Older, TypeOK

\* Latching a timer stores the program's clock.
LEMMA LatchType ==
  ASSUME NEW L, TypeOK, impl_time_latch(L)
  PROVE  bgb_clock_latch' \in [Timers -> Uint32]
  BY DEF impl_time_latch, TypeOK

\* The emulator advances by a natural number of ticks.
LEMMA AdvanceType ==
  ASSUME TypeOK, toAdapter # <<>>
  PROVE  Advance \in Nat
<1>1. toAdapter \in Seq(Packet) /\ trail \in Seq(Step) /\ Len(trail) = Len(toAdapter)
  BY DEF TypeOK, WireTypeOK
<1>2. trail # <<>>
  BY <1>1, SeqEmpty
<1>3. Head(trail) \in Step
  BY <1>1, <1>2, SeqTail
<1>4. Head(trail).now \in Int /\ Head(trail).from \in Int
  BY <1>3 DEF Step, EmuTime
<1>5. Elapsed(Head(trail).now, Head(trail).from) \in 0 .. (Half - 1)
  BY <1>4, ElapsedType, Zenon
<1> QED
  BY <1>5, ClockAssumption DEF Advance

\* mobile_start leaves the timers well-typed.
LEMMA StartType ==
  ASSUME NEW L, TypeOK, mobile_start(L)
  PROVE  /\ bgb_clock_latch' \in [Timers -> Uint32]
         /\ age' \in [Timers -> 0 .. Half]
  BY LatchType, ClockAssumption DEF mobile_start

\* A packet the emulator sends keeps the connection well-typed.
LEMMA EmuSendsType ==
  ASSUME NEW p \in Packet, NEW now \in EmuTime, NEW cut \in BOOLEAN,
         WireTypeOK, EmuSends(p, now, cut), emuAwait' \in BOOLEAN
  PROVE  WireTypeOK'
<1>1. [from |-> emuClock, now |-> now, cut |-> cut, n |-> emuSent] \in Step
  BY DEF WireTypeOK, Step
<1>2. /\ Append(toAdapter, p) \in Seq(Packet)
      /\ Len(Append(toAdapter, p)) = Len(toAdapter) + 1
  BY SeqAppend DEF WireTypeOK
<1>3. /\ trail' \in Seq(Step)
      /\ Len(trail') = Len(trail) + 1
  BY <1>1, SeqAppend DEF WireTypeOK, EmuSends
<1>4. emuSent' \in 0 .. 3
  BY DEF WireTypeOK, EmuSends
<1> QED
  BY <1>2, <1>3, <1>4 DEF WireTypeOK, EmuSends

\* So does a stamped one, whether the clock has advanced, was cut, or is
\* stamped too low.
LEMMA EmuStampsType ==
  ASSUME NEW cmd \in {"SYNC1", "SYNC3"}, NEW b2 \in 0 .. 255,
         WireTypeOK, EmuStamps(cmd, b2), emuAwait' \in BOOLEAN
  PROVE  WireTypeOK'
<1> DEFINE Pkt(ts) == [cmd |-> cmd, b2 |-> b2, ts |-> ts]
<1>1. ASSUME NEW ts \in EmuTime PROVE Pkt(ts) \in Packet
  BY <1>1, EmuTimeIsUint32 DEF Packet, Cmd
<1>2. emuClock \in Int
  BY DEF WireTypeOK, EmuTime
<1>3. CASE \E d \in 0 .. ResetGap :
             EmuSends(Pkt((emuClock + d) % Half), (emuClock + d) % Half, FALSE)
  <2>1. PICK d \in 0 .. ResetGap :
             EmuSends(Pkt((emuClock + d) % Half), (emuClock + d) % Half, FALSE)
    BY <1>3, Zenon
  <2>2. (emuClock + d) % Half \in EmuTime
    BY <1>2, LapType
  <2> QED BY <2>1, <2>2, <1>1, EmuSendsType, Zenon
<1>4. CASE \E j \in Jumps :
             EmuSends(Pkt((emuClock + j) % Half), (emuClock + j) % Half, TRUE)
  <2>1. PICK j \in Jumps :
             EmuSends(Pkt((emuClock + j) % Half), (emuClock + j) % Half, TRUE)
    BY <1>4, Zenon
  <2>2. j \in Int
    BY WireAssumption, ClockAssumption
  <2>3. (emuClock + j) % Half \in EmuTime
    BY <1>2, <2>2, LapType
  <2> QED BY <2>1, <2>3, <1>1, EmuSendsType, Zenon
<1>5. CASE \E g \in 1 .. BackGap :
             EmuSends(Pkt((emuClock - g) % Half), emuClock, FALSE)
  <2>1. PICK g \in 1 .. BackGap :
             EmuSends(Pkt((emuClock - g) % Half), emuClock, FALSE)
    BY <1>5, Zenon
  <2>2. (emuClock - g) % Half \in EmuTime /\ emuClock \in EmuTime
    BY <1>2, LapType DEF WireTypeOK
  <2> QED BY <2>1, <2>2, <1>1, EmuSendsType, Zenon
<1> QED
  BY <1>3, <1>4, <1>5, Zenon DEF EmuStamps

\* bgb_init keeps the connection and the link well-typed.
LEMMA InitStepsType ==
  ASSUME TypeOK, InitSteps
  PROVE  TypeOK'
<1> USE DEF TypeOK, Phase, Started, Terminal
<1>0. 0 \in Uint32
  BY ClockAssumption DEF Uint32
<1>1. CASE bgb_init_greet
  <2>1. <<handshake>> \in Seq(Packet)
    BY <1>0 DEF handshake, Packet, Cmd
  <2>2. toEmu' \in Seq(Packet)
    BY <1>1, <2>1, SendType, Zenon DEF bgb_init_greet
  <2> QED
    BY <1>1, <2>2 DEF bgb_init_greet, InitSteps, WireTypeOK, LinkTypeOK, emuState,
      linkVars, userVars, clockVars, timerVars
<1>2. CASE bgb_init_version
  <2>1. <<[cmd |-> "STATUS", b2 |-> 7, ts |-> 0]>> \in Seq(Packet)
    BY <1>0 DEF Packet, Cmd, Quiet
  <2>2. toEmu' \in Seq(Packet)
    BY <1>2, <2>1, SendType, Zenon DEF bgb_init_version
  <2>3. /\ toAdapter' \in Seq(Packet) /\ trail' \in Seq(Step)
        /\ Len(trail') = Len(toAdapter')
    BY <1>2, ReceivesType DEF bgb_init_version
  <2> QED
    BY <1>2, <2>2, <2>3 DEF bgb_init_version, InitSteps, WireTypeOK, LinkTypeOK,
      emuState, linkVars, userVars, clockVars, timerVars
<1>3. CASE bgb_init_status
  <2>1. PICK p \in Waiting :
          /\ Receives(p)
          /\ bgb_send(<<[p EXCEPT !.b2 = 5]>>)
    BY <1>3, Zenon DEF bgb_init_status
  <2>2. /\ p \in Packet /\ toAdapter' \in Seq(Packet) /\ trail' \in Seq(Step)
        /\ Len(trail') = Len(toAdapter')
    BY <2>1, ReceivesType
  <2>3. <<[p EXCEPT !.b2 = 5]>> \in Seq(Packet)
    <3>1. [p EXCEPT !.b2 = 5] \in Packet
      <4>1. p \in Packet
        BY <2>2
      <4> QED
        BY <4>1 DEF Packet
    <3> QED
      BY <3>1
  <2>4. toEmu' \in Seq(Packet)
    BY <2>1, <2>3, SendType, Zenon
  <2> QED
    BY <1>3, <2>2, <2>4 DEF bgb_init_status, InitSteps, WireTypeOK, LinkTypeOK,
      emuState, linkVars, userVars, clockVars, timerVars
<1>4. CASE bgb_init_fails
  <2>1. /\ toAdapter' \in Seq(Packet) /\ trail' \in Seq(Step)
        /\ Len(trail') = Len(toAdapter')
    <3>1. CASE UNCHANGED <<toAdapter, trail>>
      BY <3>1 DEF WireTypeOK
    <3>2. CASE \E p \in Waiting : Receives(p)
      BY <3>2, ReceivesType
    <3> QED
      BY <1>4, <3>1, <3>2 DEF bgb_init_fails, bgb_recv_fails
  <2> QED
    BY <1>4, <2>1 DEF bgb_init_fails, InitSteps, WireTypeOK, LinkTypeOK,
      emuState, linkVars, userVars, clockVars, timerVars
<1> QED
  BY <1>1, <1>2, <1>3, <1>4 DEF InitSteps

\* The timestamp callbacks keep the clock well-typed.
LEMMA TimestampType ==
  ASSUME NEW p \in Packet, TypeOK, TimestampStage(p)
  PROVE  bgb_clock' \in Uint32 /\ bgb_clock_init' \in BOOLEAN /\ reset' \in BOOLEAN
<1>1. NewTime(p) \in Uint32
  BY NewTimeType
<1> QED
  BY <1>1, Zenon DEF TimestampStage, callback_timestamp, bgb_loop_timestamp,
    bgb_loop_timestamp_init, TypeOK, clockVars

\* bgb_loop, whatever it receives, keeps everything well-typed.
LEMMA LoopType ==
  ASSUME TypeOK, bgb_loop_sync1 \/ bgb_loop_other \/ bgb_loop_false
  PROVE  TypeOK'
<1> USE DEF Phase, Started, Terminal
<1>1. CASE bgb_loop_sync1
  <2>1. PICK p \in Waiting, ret \in Byte, L \in SUBSET Timers :
          /\ Receives(p)
          /\ p.cmd = "SYNC1"
          /\ bgb_send(Answer(p))
          /\ bgb_loop_transfer(p.b2, L)
          /\ LinkHandles(p, ret)
          /\ TimestampStage(p)
    BY <1>1 DEF bgb_loop_sync1
  <2>2. /\ p \in Packet /\ toAdapter' \in Seq(Packet) /\ trail' \in Seq(Step)
        /\ Len(trail') = Len(toAdapter') /\ toAdapter # <<>>
    BY <2>1, ReceivesType DEF Receives
  <2>3. toEmu' \in Seq(Packet)
    BY <2>1, <2>2, AnswerType, SendType
  <2>4. LinkTypeOK'
    <3>1. Byte \subseteq 0 .. 255 /\ ret \in Byte
      BY WireAssumption
    <3> QED
      BY <2>1, <2>2, <3>1, NewTimeType DEF LinkHandles, LinkTypeOK, TypeOK
  <2>5. bgb_clock_latch' \in [Timers -> Uint32] /\ age' \in [Timers -> 0 .. Half]
    <3>1. Advance \in Nat
      BY <2>2, AdvanceType
    <3> QED
      BY <2>1, <3>1, OlderType, LatchType DEF bgb_loop_transfer
  <2>6. bgb_clock' \in Uint32 /\ bgb_clock_init' \in BOOLEAN /\ reset' \in BOOLEAN
    BY <2>1, <2>2, TimestampType
  <2>7. heard' \in 0 .. 255
    BY <2>1, <2>2 DEF bgb_loop_transfer, Packet
  <2> QED
    BY <1>1, <2>2, <2>3, <2>4, <2>5, <2>6, <2>7
    DEF bgb_loop_sync1, TypeOK, WireTypeOK, AfterLoop, emuState
<1>2. CASE bgb_loop_other
  <2>1. PICK p \in Waiting :
          /\ Receives(p)
          /\ bgb_send(Answer(p))
          /\ LinkHandles(p, byte)
          /\ TimestampStage(p)
          /\ Older({}, Advance)
    BY <1>2 DEF bgb_loop_other
  <2>2. /\ p \in Packet /\ toAdapter' \in Seq(Packet) /\ trail' \in Seq(Step)
        /\ Len(trail') = Len(toAdapter') /\ toAdapter # <<>>
    BY <2>1, ReceivesType DEF Receives
  <2>3. toEmu' \in Seq(Packet)
    BY <2>1, <2>2, AnswerType, SendType
  <2>4. LinkTypeOK'
    BY <2>1, <2>2, NewTimeType DEF LinkHandles, LinkTypeOK, TypeOK
  <2>5. age' \in [Timers -> 0 .. Half]
    BY <2>1, <2>2, AdvanceType, OlderType
  <2>6. bgb_clock' \in Uint32 /\ bgb_clock_init' \in BOOLEAN /\ reset' \in BOOLEAN
    BY <2>1, <2>2, TimestampType
  <2> QED
    BY <1>2, <2>2, <2>3, <2>4, <2>5, <2>6
    DEF bgb_loop_other, TypeOK, WireTypeOK, AfterLoop, emuState
<1>3. CASE bgb_loop_false
  <2>1. /\ toAdapter' \in Seq(Packet) /\ trail' \in Seq(Step)
        /\ Len(trail') = Len(toAdapter')
    <3>1. CASE UNCHANGED <<toAdapter, trail>>
      BY <3>1 DEF WireTypeOK, TypeOK
    <3>2. CASE \E p \in Waiting : Receives(p)
      BY <3>2, ReceivesType
    <3> QED
      BY <1>3, <3>1, <3>2 DEF bgb_loop_false, bgb_loop_fails, bgb_recv_fails
  <2> QED
    BY <1>3, <2>1 DEF bgb_loop_false, bgb_loop_fails, FailPhase, TypeOK, WireTypeOK,
      LinkTypeOK, emuState, linkVars, userVars, clockVars, timerVars
<1> QED
  BY <1>1, <1>2, <1>3

\* The rest of the program keeps everything well-typed.
LEMMA MainType ==
  ASSUME TypeOK,
         \/ bgb_loop_nodata \/ main_start \/ mobile_handle_loop
         \/ mobile_actions_process \/ socket_wait \/ main_break \/ main_stop
         \/ signal_int \/ SigPipe \/ Terminated
  PROVE  TypeOK'
<1> USE DEF Phase, Started, Terminal, wireVars, linkVars, userVars, clockVars,
      timerVars, WireTypeOK, LinkTypeOK
<1>1. CASE bgb_loop_nodata \/ socket_wait \/ main_break
  <2>1. /\ pc' \in {"handle", "loop", "stop"}
        /\ UNCHANGED <<wireVars, linkVars, userVars>>
    BY <1>1 DEF bgb_loop_nodata, socket_wait, main_break
  <2> QED
    BY <2>1 DEF TypeOK
<1>8. CASE main_stop
  <2>1. sigint' \in BOOLEAN
    BY <1>8, Zenon DEF main_stop
  <2> QED
    BY <1>8, <2>1 DEF TypeOK, main_stop
<1>2. CASE main_start
  <2>1. bgb_clock_latch' \in [Timers -> Uint32] /\ age' \in [Timers -> 0 .. Half]
    BY <1>2, StartType DEF main_start
  <2> QED
    BY <1>2, <2>1 DEF TypeOK, main_start
<1>3. CASE mobile_handle_loop
  <2>1. PICK w \in SUBSET Actions, L \in SUBSET Timers :
          /\ RestartIfReset(L)
          /\ action' = IF action = {} THEN filter_actions(w) ELSE action
    BY <1>3 DEF mobile_handle_loop
  <2>2. /\ bgb_clock_latch' \in [Timers -> Uint32] /\ age' \in [Timers -> 0 .. Half]
    BY <2>1, StartType DEF RestartIfReset, TypeOK
  <2>3. action' \subseteq Actions \ {"RESET_SERIAL"}
    BY <2>1 DEF filter_actions, TypeOK
  <2>4. actionOld' \in BOOLEAN /\ pc' \in {"wait", "process"}
    BY <1>3 DEF mobile_handle_loop, ProcessIfAny
  <2>5. reset' \in BOOLEAN
    BY <2>1, Zenon DEF RestartIfReset
  <2> QED
    BY <1>3, <2>2, <2>3, <2>4, <2>5 DEF TypeOK, mobile_handle_loop
<1>4. CASE mobile_actions_process
  <2>1. PICK w \in SUBSET Actions, L \in SUBSET Timers :
          impl_time_latch(L) /\ Older(L, 0) /\ FetchNext(w)
    BY <1>4 DEF mobile_actions_process
  <2>2. bgb_clock_latch' \in [Timers -> Uint32] /\ age' \in [Timers -> 0 .. Half]
    BY <2>1, LatchType, OlderType
  <2>3. action' \subseteq Actions \ {"RESET_SERIAL"}
    BY <2>1 DEF FetchNext, filter_actions
  <2>4. actionOld' \in BOOLEAN
    BY <2>1, Zenon DEF FetchNext
  <2> QED
    BY <1>4, <2>2, <2>3, <2>4 DEF TypeOK, mobile_actions_process
<1>5. CASE signal_int
  <2>1. pc' \in Phase
    BY <1>5 DEF TypeOK, signal_int, FailPhase
  <2>2. sigint' \in BOOLEAN
    BY <1>5, Zenon DEF signal_int
  <2> QED
    BY <1>5, <2>1, <2>2 DEF TypeOK, signal_int
<1>6. CASE SigPipe
  BY <1>6 DEF TypeOK, SigPipe, bgb_send_kills
<1>7. CASE Terminated
  BY <1>7 DEF TypeOK, Terminated, vars
<1> QED
  BY <1>1, <1>2, <1>3, <1>4, <1>5, <1>6, <1>7, <1>8

\* So does the emulator.
LEMMA EmulatorType ==
  ASSUME TypeOK, EmulatorStep
  PROVE  TypeOK'
<1>0. WireTypeOK
  BY DEF TypeOK
<1>1. ASSUME NEW cmd \in Cmd, NEW b2 \in 0 .. 255, EmuSendsPlain(cmd, b2)
      PROVE  WireTypeOK'
  <2>1. [cmd |-> cmd, b2 |-> b2, ts |-> 0] \in Packet
    BY ClockAssumption DEF Packet, Uint32
  <2>2. emuClock \in EmuTime /\ emuAwait' \in BOOLEAN
    BY <1>0, <1>1 DEF EmuSendsPlain, WireTypeOK
  <2> QED
    BY <1>0, <1>1, <2>1, <2>2, EmuSendsType, Zenon DEF EmuSendsPlain
<1>2. WireTypeOK'
  <2>1. CASE EmuGreet \/ EmuStatus \/ EmuChatter
    <3>1. Quiet \subseteq Cmd /\ {"VERSION", "STATUS", "OTHER"} \subseteq Cmd
      BY DEF Cmd, Quiet
    <3>2. CASE EmuGreet
      BY <1>1, <3>1, <3>2 DEF EmuGreet
    <3>3. CASE EmuStatus
      BY <1>1, <3>1, <3>3 DEF EmuStatus
    <3>4. CASE EmuChatter
      BY <1>1, <3>1, <3>4, WireAssumption DEF EmuChatter
    <3> QED
      BY <2>1, <3>2, <3>3, <3>4
  <2>2. CASE EmuSync1
    BY <1>0, <2>2, WireAssumption, EmuStampsType DEF EmuSync1
  <2>3. CASE EmuSync3
    <3>1. emuAwait' \in BOOLEAN
      BY <1>0, <2>3 DEF EmuSync3, WireTypeOK
    <3> QED
      BY <1>0, <2>3, <3>1, EmuStampsType DEF EmuSync3
  <2>4. CASE EmuReceive
    <3>1. toEmu \in Seq(Packet) /\ toEmu # <<>>
      BY <1>0, <2>4 DEF EmuReceive, WireTypeOK
    <3>2. Tail(toEmu) \in Seq(Packet) /\ Head(toEmu) \in Packet
      BY <3>1, SeqTail
    <3>3. emuAwait' \in BOOLEAN /\ emuGot' \in 0 .. 255
      <4>1. Head(toEmu).b2 \in 0 .. 255 /\ emuAwait \in BOOLEAN /\ emuGot \in 0 .. 255
        BY <1>0, <3>2, Zenon DEF WireTypeOK, Packet
      <4> QED
        BY <2>4, <4>1, Zenon DEF EmuReceive
    <3> QED
      BY <1>0, <2>4, <3>2, <3>3, Zenon DEF EmuReceive, WireTypeOK
  <2>5. CASE EmuClose
    <3>1. emuOpen' \in BOOLEAN
      BY <2>5, Zenon DEF EmuClose
    <3>2. /\ toEmu' \in Seq(Packet)
          /\ toAdapter' \in Seq(Packet)
          /\ trail' \in Seq(Step)
          /\ Len(trail') = Len(toAdapter')
      <4>1. toEmu' \in Seq(Packet)
        BY <2>5 DEF EmuClose
      <4>2. CASE UNCHANGED <<toAdapter, trail>>
        BY <1>0, <4>1, <4>2 DEF WireTypeOK
      <4>3. CASE toAdapter' = <<>> /\ trail' = <<>>
        BY <4>1, <4>3
      <4> QED
        BY <2>5, <4>2, <4>3 DEF EmuClose
    <3> QED
      BY <1>0, <2>5, <3>1, <3>2 DEF EmuClose, WireTypeOK
  <2> QED
    BY <2>1, <2>2, <2>3, <2>4, <2>5 DEF EmulatorStep, Emulator
<1> QED
  BY <1>2 DEF EmulatorStep, TypeOK, LinkTypeOK, linkVars, userVars, clockVars, timerVars

\* Every variable keeps its type, whatever the emulator sends and whenever it
\* disconnects (MobileLoop's model of bgblink.c and main.c).
THEOREM TypeCorrect == Spec => []TypeOK
<1>1. Init => TypeOK
  <2> SUFFICES ASSUME Init PROVE TypeOK
    OBVIOUS
  <2>1. WireTypeOK
    <3>1. IdleByte \in 0 .. 255
      BY WireAssumption, IdleAssumption
    <3>2. toAdapter \in Seq(Packet) /\ toEmu \in Seq(Packet) /\ trail \in Seq(Step)
      BY DEF Init, WireInit
    <3>3. emuOpen \in BOOLEAN /\ emuAwait \in BOOLEAN
      BY Zenon DEF Init, WireInit
    <3>4. emuSent \in 0 .. 3 /\ emuGot \in 0 .. 255 /\ Len(trail) = Len(toAdapter)
      BY <3>1, SMT DEF Init, WireInit
    <3> QED
      BY <3>2, <3>3, <3>4 DEF Init, WireInit, WireTypeOK
  <2>2. LinkTypeOK
    <3>1. timestamp_init \in BOOLEAN
      BY Zenon DEF Init, LinkInit
    <3>2. byte \in Byte /\ timestamp_last \in Uint32
      BY ClockAssumption, IdleAssumption DEF Init, LinkInit, Uint32
    <3> QED
      BY <3>1, <3>2 DEF LinkTypeOK
  <2>3. /\ bgb_clock_init \in BOOLEAN
        /\ reset \in BOOLEAN
        /\ sigint \in BOOLEAN
        /\ actionOld \in BOOLEAN
    BY Zenon DEF Init
  <2>4. /\ bgb_clock \in Uint32
        /\ bgb_clock_latch \in [Timers -> Uint32]
        /\ age \in [Timers -> 0 .. Half]
        /\ heard \in 0 .. 255
    BY ClockAssumption, WireAssumption, IdleAssumption DEF Init, Uint32
  <2>5. pc \in Phase /\ action \subseteq Actions \ {"RESET_SERIAL"}
    BY DEF Init, Phase
  <2> QED
    BY <2>1, <2>2, <2>3, <2>4, <2>5 DEF TypeOK
<1>2. TypeOK /\ [Next]_vars => TypeOK'
  <2> SUFFICES ASSUME TypeOK, [Next]_vars PROVE TypeOK'
    OBVIOUS
  <2>1. CASE Program
    BY <2>1, InitStepsType, LoopType, MainType DEF Program
  <2>2. CASE EmulatorStep
    BY <2>2, EmulatorType
  <2>3. CASE signal_int \/ Terminated
    BY <2>3, MainType
  <2>4. CASE UNCHANGED vars
    BY <2>4 DEF vars, TypeOK, WireTypeOK, LinkTypeOK, wireVars, linkVars, userVars,
      clockVars, timerVars
  <2> QED
    BY <2>1, <2>2, <2>3, <2>4 DEF Next
<1> QED
  BY <1>1, <1>2, PTL DEF Spec
-----------------------------------------------------------------------------
(* The clock, the reset and the pending action *)

\* The adapter runs only once the clock is initialized (main.c:537-543).
ClockKnown == pc \in Started => bgb_clock_init

\* ClockAgreement alone is not inductive: bgb_loop_timestamp, unlike
\* bgb_loop_timestamp_init, does not set bgb_clock_init, so the agreement is
\* kept only because the callback is not installed before the clock is known.
MainInv ==
  /\ ClockAgreement
  /\ ResetPrompt
  /\ OldActionGone
  /\ ClockKnown

\* Once bgb_loop has handled a packet, both clocks are initialized and equal,
\* whichever of the callbacks was installed and whether or not it was called.
LEMMA TimestampAgrees ==
  ASSUME TypeOK, MainInv, Looping, NEW p, NEW ret,
         LinkHandles(p, ret), TimestampStage(p)
  PROVE  /\ bgb_clock' = timestamp_last'
         /\ bgb_clock_init' = TRUE
         /\ timestamp_init' = TRUE
<1>1. timestamp_last' = NewTime(p) /\ timestamp_init' = TRUE
  BY DEF LinkHandles
<1>2. bgb_clock = timestamp_last
  BY DEF MainInv, ClockAgreement
<1>3. CASE pc = "clock"
  <2>1. ~timestamp_init
    BY <1>3, Zenon DEF Looping, MainInv, ClockAgreement
  <2>2. bgb_loop_timestamp_init(NewTime(p))
    BY <1>3, <2>1 DEF TimestampStage, CallsTimestamp, callback_timestamp
  <2> QED
    BY <1>1, <2>2 DEF bgb_loop_timestamp_init
<1>4. CASE pc = "loop"
  <2>1. bgb_clock_init /\ timestamp_init
    BY <1>4, Zenon DEF MainInv, ClockKnown, Started, ClockAgreement
  <2>2. CASE CallsTimestamp(p)
    <3>1. bgb_loop_timestamp(NewTime(p))
      BY <1>4, <2>2 DEF TimestampStage, callback_timestamp
    <3> QED
      BY <1>1, <2>1, <3>1 DEF bgb_loop_timestamp, TypeOK
  <2>3. CASE ~CallsTimestamp(p)
    <3>1. NewTime(p) = timestamp_last
      BY <2>1, <2>3 DEF CallsTimestamp, LastTime
    <3> QED
      BY <1>1, <1>2, <2>1, <2>3, <3>1 DEF TimestampStage, clockVars, TypeOK
  <2> QED
    BY <2>2, <2>3, Zenon
<1> QED
  BY <1>3, <1>4, Zenon DEF Looping

\* A packet handled by the loop keeps the invariant: a reset is requested only
\* on the way to mobile_handle_loop.
LEMMA LoopInv ==
  ASSUME TypeOK, MainInv, bgb_loop_sync1 \/ bgb_loop_other
  PROVE  MainInv'
<1>1. PICK p, ret : /\ Looping /\ AfterLoop
                    /\ LinkHandles(p, ret) /\ TimestampStage(p)
  BY DEF bgb_loop_sync1, bgb_loop_other
<1>2. ClockAgreement' /\ ClockKnown'
  <2>1. /\ bgb_clock' = timestamp_last'
        /\ bgb_clock_init' = TRUE
        /\ timestamp_init' = TRUE
    BY <1>1, TimestampAgrees, Zenon
  <2> QED
    BY <2>1 DEF ClockAgreement, ClockKnown
<1>3. ~reset /\ ~actionOld
  BY <1>1 DEF MainInv, ResetPrompt, OldActionGone, Looping
<1>4. ResetPrompt'
  <2>1. CASE pc = "clock"
    <3>1. UNCHANGED reset
      BY <1>1, <2>1 DEF TimestampStage, callback_timestamp,
        bgb_loop_timestamp_init, clockVars
    <3> QED
      BY <1>3, <3>1 DEF ResetPrompt
  <2>2. CASE pc = "loop"
    BY <1>1, <2>2 DEF AfterLoop, ResetPrompt
  <2> QED
    BY <1>1, <2>1, <2>2 DEF Looping
<1>5. OldActionGone'
  <2>1. UNCHANGED actionOld
    BY DEF bgb_loop_sync1, bgb_loop_other
  <2> QED
    BY <1>3, <2>1 DEF OldActionGone
<1> QED
  BY <1>2, <1>4, <1>5 DEF MainInv

\* While mobile_handle_loop runs, nothing is sent: no signal and no closed
\* connection ends the program between a reset and the restart.
LEMMA HandleSendsNothing ==
  ASSUME pc \in {"handle", "process"}
  PROVE  ~Blocked /\ ~bgb_send_kills
<1>1. NextSend = <<>>
  <2>1. CASE toAdapter = <<>>
    BY <2>1 DEF NextSend
  <2>2. CASE toAdapter # <<>>
    BY <2>2 DEF NextSend
  <2> QED
    BY <2>1, <2>2
<1> QED
  BY <1>1 DEF Blocked, bgb_send_kills

\* The other steps of the program keep the invariant.
LEMMA MainStepInv ==
  ASSUME TypeOK, MainInv,
         \/ InitSteps \/ bgb_loop_nodata \/ bgb_loop_false \/ main_start
         \/ mobile_handle_loop \/ mobile_actions_process \/ socket_wait
         \/ main_break \/ main_stop \/ signal_int \/ SigPipe
  PROVE  MainInv'
<1> USE DEF MainInv, ResetPrompt, OldActionGone, ClockKnown, Started
<1>1. ClockAgreement'
  <2>1. UNCHANGED <<bgb_clock, bgb_clock_init, timestamp_last, timestamp_init>>
    BY Zenon DEF InitSteps, bgb_init_greet, bgb_init_version, bgb_init_status,
      bgb_init_fails, bgb_loop_nodata, bgb_loop_false, bgb_loop_fails, main_start,
      mobile_handle_loop, mobile_actions_process, socket_wait, main_break,
      main_stop, signal_int, SigPipe, bgb_send_kills, linkVars, userVars, clockVars
  <2> QED
    BY <2>1, Zenon DEF ClockAgreement
<1>2. CASE InitSteps
  <2>1. pc \notin Started /\ pc' \notin Started /\ UNCHANGED <<reset, actionOld>>
    BY <1>2, Zenon DEF InitSteps, bgb_init_greet, bgb_init_version, bgb_init_status,
      bgb_init_fails, userVars, clockVars
  <2> QED
    BY <1>1, <2>1
<1>3. CASE mobile_handle_loop
  <2>1. ~reset'
    BY <1>3 DEF mobile_handle_loop, RestartIfReset
  <2>2. actionOld' => pc' = "process"
    <3>1. actionOld' => action # {}
      BY <1>3, Zenon DEF mobile_handle_loop
    <3> QED
      BY <1>3, <3>1 DEF mobile_handle_loop, ProcessIfAny
  <2>3. bgb_clock_init'
    BY <1>3 DEF mobile_handle_loop
  <2> QED
    BY <1>1, <2>1, <2>2, <2>3
<1>4. CASE mobile_actions_process
  <2>1. ~actionOld' /\ pc = "process" /\ UNCHANGED <<reset, bgb_clock_init>>
    BY <1>4 DEF mobile_actions_process, FetchNext, clockVars
  <2> QED
    BY <1>1, <2>1
<1>5. CASE bgb_loop_nodata \/ bgb_loop_false \/ main_start \/ socket_wait
           \/ main_break \/ main_stop
  <2>1. /\ pc \notin {"handle", "process"}
        /\ UNCHANGED <<reset, actionOld, bgb_clock_init>>
    BY <1>5 DEF bgb_loop_nodata, bgb_loop_false, main_start, socket_wait,
      main_break, main_stop, Looping, userVars, clockVars
  <2>2. pc' \in Started => pc \in Started \/ bgb_clock_init
    BY <1>5 DEF bgb_loop_nodata, bgb_loop_false, main_start, socket_wait,
      main_break, main_stop, FailPhase
  <2> QED
    BY <1>1, <2>1, <2>2
<1>6. CASE signal_int \/ SigPipe
  <2>1. UNCHANGED <<reset, actionOld, bgb_clock_init>>
    BY <1>6 DEF signal_int, SigPipe, userVars, clockVars
  <2>2. pc \in {"handle", "process"} => UNCHANGED pc
    BY <1>6, HandleSendsNothing DEF signal_int, SigPipe
  <2>3. pc' \in Started => pc \in Started
    BY <1>6 DEF signal_int, SigPipe, FailPhase, bgb_send_kills
  <2> QED
    BY <1>1, <2>1, <2>2, <2>3
<1> QED
  BY <1>2, <1>3, <1>4, <1>5, <1>6

\* MainInv holds in every state of the program.
LEMMA MainInvariant == Spec => []MainInv
<1>1. Init => MainInv
  <2> SUFFICES ASSUME Init PROVE MainInv
    OBVIOUS
  <2>1. ClockAgreement
    BY Zenon DEF Init, LinkInit, ClockAgreement
  <2> QED
    BY <2>1 DEF Init, MainInv, ResetPrompt, OldActionGone, ClockKnown, Started
<1>2. TypeOK /\ MainInv /\ [Next]_vars => MainInv'
  <2> SUFFICES ASSUME TypeOK, MainInv, [Next]_vars PROVE MainInv'
    OBVIOUS
  <2>1. CASE Program
    BY <2>1, LoopInv, MainStepInv DEF Program
  <2>2. CASE signal_int
    BY <2>2, MainStepInv
  <2>3. CASE EmulatorStep \/ Terminated \/ UNCHANGED vars
    <3>1. UNCHANGED <<pc, reset, actionOld, bgb_clock, bgb_clock_init,
                      timestamp_last, timestamp_init>>
      BY <2>3 DEF EmulatorStep, Terminated, vars, linkVars, userVars, clockVars
    <3>2. ClockAgreement'
      BY <3>1, Zenon DEF MainInv, ClockAgreement
    <3> QED
      BY <3>1, <3>2 DEF MainInv, ResetPrompt, OldActionGone, ClockKnown
  <2> QED
    BY <2>1, <2>2, <2>3 DEF Next
<1> QED
  BY <1>1, <1>2, TypeCorrect, PTL DEF Spec

\* bgb_state.timestamp_last and mobile_user.bgb_clock agree, and so do the
\* flags that say they are initialized.
THEOREM ClocksAgree == Spec => []ClockAgreement
<1>1. MainInv => ClockAgreement
  BY DEF MainInv
<1> QED
  BY <1>1, MainInvariant, PTL

\* A reset that bgb_loop_timestamp detects restarts the adapter before it is
\* given another byte or action, and before the program sleeps or ends.
THEOREM ResetsArePrompt == Spec => []ResetPrompt
<1>1. MainInv => ResetPrompt
  BY DEF MainInv
<1> QED
  BY <1>1, MainInvariant, PTL

\* An action fetched before a restart does not outlive mobile_handle_loop.
THEOREM OldActionsGo == Spec => []OldActionGone
<1>1. MainInv => OldActionGone
  BY DEF MainInv
<1> QED
  BY <1>1, MainInvariant, PTL
=============================================================================
