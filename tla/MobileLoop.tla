----------------------------- MODULE MobileLoop -----------------------------
(***************************************************************************)
(* main.c: the program's single thread from bgb_init to its end, with      *)
(* struct mobile_user, the callbacks bgb_loop calls, the reset of the      *)
(* adapter, the adapter's timers and the handling of SIGINT.               *)
(*                                                                         *)
(* The phases (pc):                                                        *)
(*   greet, version, status   inside bgb_init                              *)
(*   clock                    waiting for the first packet (main.c:539)    *)
(*   loop                     at the head of the main loop                 *)
(*   handle                   at the call of mobile_handle_loop            *)
(*   process                  inside mobile_actions_process                *)
(*   wait                     inside socket_wait                           *)
(*   stop                     after the main loop                          *)
(*   exited, failed, killed   EXIT_SUCCESS, EXIT_FAILURE, SIGPIPE          *)
(*                                                                         *)
(* libmobile, the adapter itself, is not part of the repository.  It       *)
(* answers any byte, asks for any actions and latches any timers whenever  *)
(* it is called.                                                           *)
(***************************************************************************)
EXTENDS BgbLink

CONSTANTS
  Timers,      \* 0 .. MOBILE_MAX_TIMERS - 1
  Actions,     \* the bits of enum mobile_action
  TickRate,    \* ticks of the emulator's clock in a second, 2^21
  Delays       \* milliseconds for which the adapter sets timers

\* (uint32_t)((double)ms * (1 << 21) / 1000)
Ticks(ms) == (ms * TickRate) \div 1000

ASSUME LoopAssumption ==
  /\ TickRate \in Nat
  /\ Delays \subseteq Nat
  /\ \A ms \in Delays : Ticks(ms) < Half

VARIABLES
  bgb_clock,         \* struct mobile_user
  bgb_clock_init,
  bgb_clock_latch,
  reset,
  action,
  sigint,            \* signal_int_trig
  heard,             \* the last byte given to mobile_transfer
  age,               \* history: ticks since a timer was latched, Half for a
                     \* lap or more and for a timer not latched since the start
  actionOld          \* history: action is older than the adapter's last start

clockVars == <<bgb_clock, bgb_clock_init, reset>>
timerVars == <<bgb_clock_latch, age>>
userVars == <<clockVars, timerVars, action, actionOld, sigint, heard>>
vars == <<wireVars, linkVars, userVars, pc>>

Terminal == {"exited", "failed", "killed"}
Started == {"loop", "handle", "process", "wait", "stop"}
Phase == {"greet", "version", "status", "clock"} \cup Started \cup Terminal

\* Mutant: nothing is filtered.
filter_nothing(actions) == actions

filter_actions(actions) == actions \ {"RESET_SERIAL"}

\* The types of the variables.
TypeOK ==
  /\ WireTypeOK
  /\ LinkTypeOK
  /\ pc \in Phase
  /\ bgb_clock \in Uint32
  /\ bgb_clock_init \in BOOLEAN
  /\ bgb_clock_latch \in [Timers -> Uint32]
  /\ reset \in BOOLEAN
  /\ action \subseteq Actions \ {"RESET_SERIAL"}
  /\ sigint \in BOOLEAN
  /\ heard \in 0 .. 255
  /\ age \in [Timers -> 0 .. Half]
  /\ actionOld \in BOOLEAN

Init ==
  /\ WireInit(IdleByte)
  /\ LinkInit
  /\ pc = "greet"
  /\ bgb_clock = 0
  /\ bgb_clock_init = FALSE
  /\ bgb_clock_latch = [tm \in Timers |-> 0]
  /\ reset = FALSE
  /\ action = {}
  /\ sigint = FALSE
  /\ heard = IdleByte
  /\ age = [tm \in Timers |-> Half]
  /\ actionOld = FALSE
-----------------------------------------------------------------------------
(* Timers *)

impl_time_latch(L) ==
  bgb_clock_latch' =
    [tm \in Timers |-> IF tm \in L THEN bgb_clock ELSE bgb_clock_latch[tm]]

\* Mutant: the difference is not masked to 31 bits.
time_check_unmasked(tm, ms) ==
  (bgb_clock - bgb_clock_latch[tm]) % (2 * Half) >= Ticks(ms)

impl_time_check_ms(tm, ms) ==
  Elapsed(bgb_clock, bgb_clock_latch[tm]) >= Ticks(ms)

\* History: the timers of L start anew and d ticks pass.
Older(L, d) ==
  age' = [tm \in Timers |->
            LET a == (IF tm \in L THEN 0 ELSE age[tm]) + d
            IN  IF a < Half THEN a ELSE Half]

\* History: the ticks the emulator's clock has advanced with the packet at
\* the head of the connection.
Advance ==
  IF Head(trail).cut THEN 0 ELSE Elapsed(Head(trail).now, Head(trail).from)

\* mobile_start: the timers of L are latched, the others mean nothing.
mobile_start(L) ==
  /\ impl_time_latch(L)
  /\ age' = [tm \in Timers |-> IF tm \in L THEN 0 ELSE Half]
-----------------------------------------------------------------------------
(* The callbacks of bgb_loop *)

bgb_loop_timestamp_init(t) ==
  /\ bgb_clock' = t
  /\ bgb_clock_init' = TRUE
  /\ UNCHANGED reset

bgb_loop_timestamp(t) ==
  /\ reset' = (reset \/ Jumped(t, bgb_clock))
  /\ bgb_clock' = t
  /\ UNCHANGED bgb_clock_init

\* bgb_state.callback_timestamp is replaced when the clock is initialized.
callback_timestamp(t) ==
  IF pc = "clock" THEN bgb_loop_timestamp_init(t) ELSE bgb_loop_timestamp(t)

TimestampStage(p) ==
  IF CallsTimestamp(p) THEN callback_timestamp(NewTime(p))
                       ELSE UNCHANGED clockVars

\* mobile_transfer(b): the adapter may latch the timers of L.
bgb_loop_transfer(b, L) ==
  /\ heard' = b
  /\ impl_time_latch(L)
  /\ Older(L, Advance)
-----------------------------------------------------------------------------
(* bgb_loop, as the two loops of main call it *)

Looping ==
  \/ pc = "clock" /\ ~bgb_clock_init
  \/ pc = "loop" /\ ~sigint

AfterLoop == pc' = IF pc = "loop" THEN "handle" ELSE pc

bgb_loop_sync1 ==
  \E p \in Waiting, ret \in Byte, L \in SUBSET Timers :
    /\ Looping
    /\ Receives(p)
    /\ p.cmd = "SYNC1"
    /\ bgb_send(Answer(p))
    /\ bgb_loop_transfer(p.b2, L)
    /\ LinkHandles(p, ret)
    /\ TimestampStage(p)
    /\ AfterLoop
    /\ UNCHANGED <<emuState, action, actionOld, sigint>>

bgb_loop_other ==
  \E p \in Waiting :
    /\ Looping
    /\ Receives(p)
    /\ Known(p) /\ p.cmd # "SYNC1"
    /\ bgb_send(Answer(p))
    /\ LinkHandles(p, byte)
    /\ TimestampStage(p)
    /\ Older({}, Advance)
    /\ AfterLoop
    /\ UNCHANGED <<emuState, action, actionOld, sigint, heard, bgb_clock_latch>>

\* socket_hasdata finds nothing to receive, or fails with a packet waiting or
\* the emulator gone.  In the "clock" phase this changes nothing.
bgb_loop_nodata ==
  /\ pc = "loop" /\ ~sigint
  /\ pc' = "handle"
  /\ UNCHANGED <<wireVars, linkVars, userVars>>

\* Mutant: the main loop ignores what bgb_loop returns.
FailIgnored == IF pc = "loop" THEN "handle" ELSE "failed"

FailPhase == IF pc = "loop" THEN "stop" ELSE "failed"

bgb_loop_false ==
  /\ Looping
  /\ bgb_loop_fails
  /\ pc' = FailPhase
  /\ UNCHANGED userVars
-----------------------------------------------------------------------------
(* The rest of main *)

\* The clock is initialized and the adapter started.
main_start == \E L \in SUBSET Timers :
  /\ pc = "clock" /\ bgb_clock_init
  /\ mobile_start(L)
  /\ pc' = "loop"
  /\ UNCHANGED <<wireVars, linkVars, clockVars, action, actionOld, sigint, heard>>

\* Mutant: the request is not cleared.
RestartAgain(L) ==
  /\ IF reset THEN mobile_start(L) ELSE UNCHANGED timerVars
  /\ UNCHANGED reset

\* The adapter is restarted if that was requested.
RestartIfReset(L) ==
  /\ IF reset THEN mobile_start(L) ELSE UNCHANGED timerVars
  /\ reset' = FALSE

\* Mutant: only an action fetched just now is processed.
ProcessFetched == pc' = IF action = {} /\ action' # {} THEN "process" ELSE "wait"

ProcessIfAny == pc' = IF action' = {} THEN "wait" ELSE "process"

\* mobile_handle_loop up to the call of mobile_actions_process; w is what
\* mobile_actions_get returns.
mobile_handle_loop == \E w \in SUBSET Actions, L \in SUBSET Timers :
  /\ pc = "handle"
  /\ RestartIfReset(L)
  /\ action' = IF action = {} THEN filter_actions(w) ELSE action
  /\ actionOld' = (action # {} /\ (actionOld \/ reset))
  /\ ProcessIfAny
  /\ UNCHANGED <<wireVars, linkVars, bgb_clock, bgb_clock_init, sigint, heard>>

\* Mutant: the action is kept.
FetchNothing(w) == UNCHANGED <<action, actionOld>>

FetchNext(w) ==
  /\ action' = filter_actions(w)
  /\ actionOld' = FALSE

\* mobile_actions_process returns, having latched the timers of L, and
\* mobile_handle_loop fetches the next action.
mobile_actions_process == \E w \in SUBSET Actions, L \in SUBSET Timers :
  /\ pc = "process"
  /\ impl_time_latch(L)
  /\ Older(L, 0)
  /\ FetchNext(w)
  /\ pc' = "wait"
  /\ UNCHANGED <<wireVars, linkVars, clockVars, sigint, heard>>

\* Mutant: without the time-out.
socket_wait_forever ==
  /\ pc = "wait"
  /\ toAdapter # <<>> \/ ~emuOpen
  /\ pc' = "loop"
  /\ UNCHANGED <<wireVars, linkVars, userVars>>

\* Data arrives on a socket, a signal does, or 100 milliseconds pass.
socket_wait ==
  /\ pc = "wait"
  /\ pc' = "loop"
  /\ UNCHANGED <<wireVars, linkVars, userVars>>

\* The main loop ends on a signal ...
main_break ==
  /\ pc = "loop" /\ sigint
  /\ pc' = "stop"
  /\ UNCHANGED <<wireVars, linkVars, userVars>>

\* ... and the program with it: mobile_stop, the sockets closed, memory freed.
main_stop ==
  /\ pc = "stop"
  /\ pc' = "exited"
  /\ sigint' = TRUE
  /\ UNCHANGED <<wireVars, linkVars, clockVars, timerVars, action, actionOld, heard>>
-----------------------------------------------------------------------------
(* Signals.  The handler is installed without SA_RESTART, so a signal that *)
(* arrives while the thread is blocked in recv or send makes the call fail;*)
(* one that arrives just before does not.                                  *)

Blocked ==
  \/ pc \in {"version", "status"} /\ toAdapter = <<>> /\ emuOpen
  \/ NextSend # <<>> /\ SendBlocked(NextSend) /\ (pc \in {"clock", "loop"} => Looping)

signal_int ==
  /\ pc \notin Terminal
  /\ sigint' = TRUE
  /\ \/ ~sigint /\ UNCHANGED pc
     \/ Blocked /\ pc' = FailPhase
  /\ UNCHANGED <<wireVars, linkVars, clockVars, timerVars, action, actionOld, heard>>
-----------------------------------------------------------------------------
InitSteps ==
  /\ bgb_init_greet \/ bgb_init_version \/ bgb_init_status \/ bgb_init_fails
  /\ UNCHANGED userVars

SigPipe ==
  /\ pc \in {"clock", "loop"} => Looping
  /\ bgb_send_kills
  /\ UNCHANGED userVars

\* The steps of the program's thread.
Program ==
  \/ InitSteps \/ SigPipe
  \/ bgb_loop_sync1 \/ bgb_loop_other \/ bgb_loop_nodata \/ bgb_loop_false
  \/ main_start \/ mobile_handle_loop \/ mobile_actions_process
  \/ socket_wait \/ main_break \/ main_stop

EmulatorStep ==
  /\ pc \notin Terminal
  /\ Emulator
  /\ UNCHANGED <<linkVars, userVars, pc>>

Terminated == pc \in Terminal /\ UNCHANGED vars

Next == Program \/ EmulatorStep \/ signal_int \/ Terminated

Spec == Init /\ [][Next]_vars

\* bgb_loop gets past socket_hasdata.
Polled == bgb_loop_false \/ bgb_loop_sync1 \/ bgb_loop_other \/ SigPipe

\* The system runs the program's thread, its poll does not fail for ever, and
\* the emulator reads what it is sent.  Nothing else is fair: the emulator need
\* not send, nor the user press CTRL+C.
Fairness ==
  /\ WF_vars(Program)
  /\ SF_vars(Polled)
  /\ WF_vars(EmuReceive /\ EmulatorStep)

FairSpec == Spec /\ Fairness
-----------------------------------------------------------------------------
(* Properties *)

\* Two components keep the time: bgb_state.timestamp_last, which bgb_loop's
\* filter compares with, and mobile_user.bgb_clock, from which resets and
\* timers are computed.  Once the clock is initialized they agree, although
\* one of two callbacks, or none, is called for a packet.
ClockAgreement ==
  /\ bgb_clock_init = timestamp_init
  /\ bgb_clock = timestamp_last

\* A reset of the emulator that bgb_loop_timestamp detects reaches the adapter
\* in the same turn of the main loop: no byte is exchanged, no action is
\* processed and the program does not sleep before the adapter is restarted.
ResetPrompt == reset => pc = "handle"

\* An action fetched before the adapter was restarted is not dropped by
\* mobile_handle_loop, but it is handed to the adapter at once: none survives
\* the turn of the main loop in which the restart happened.
OldActionGone == actionOld => pc = "process"

\* impl_time_check_ms is exact.  Within one lap of the emulator's clock, and
\* across its wrap, a timer has run out exactly when the emulator's clock has
\* advanced far enough since it was latched in the current run of the adapter.
TimerExact ==
  pc \in Started /\ ~reset =>
    \A tm \in Timers, ms \in Delays :
      age[tm] < Half => (impl_time_check_ms(tm, ms) <=> age[tm] >= Ticks(ms))

\* The packet at the head is handled in a step of the main loop.
Handles == pc = "loop" /\ Len(toAdapter') < Len(toAdapter)

\* The adapter is reset only when the emulator was: small steps back, wraps
\* of the clock and packets without a stamp are never taken for a reset.
ResetOnlyOnCut == [][~reset /\ reset' => Head(trail).cut]_vars

\* Whenever the emulator is reset or loads a save state, the first stamp that
\* shows it resets the adapter.
CutResets == [][Handles /\ pc' = "handle" /\ Head(trail).cut => reset']_vars

\* The stamps of normal running: up to ResetGap ahead of the program's clock,
\* or BackGap behind it.
Usual(t) == \E k \in -BackGap .. ResetGap : (bgb_clock + k - t) % Half = 0

\* bgb_loop's filter and bgb_loop_timestamp's test, each with its own copy of
\* the time, make one exact window together, whatever the emulator sends: a
\* stamp outside it requests a restart of the adapter, and nothing else does.
\* So a save state whose clock falls inside it is not noticed.
ResetWindow ==
  [][Handles /\ pc' = "handle"
       => (reset' <=> /\ Head(toAdapter).cmd \in {"SYNC1", "SYNC3"}
                      /\ ~Usual(Head(toAdapter).ts))]_vars

\* When the emulator closes the connection the program ends, in whatever
\* phase it is and whatever is still waiting to be received.
HangupEnds == ~emuOpen ~> pc \in Terminal

\* CTRL+C ends a program whose main loop runs, even if the emulator stays
\* silent: socket_wait times out.
SigintEnds == (sigint /\ pc \in Started) ~> pc \in Terminal

\* The game is never left waiting: a byte it shifts out is answered, unless
\* the program ends.
Sync1Answered == emuAwait ~> (~emuAwait \/ pc \in Terminal)

\* An action the adapter asked for is processed, unless the program ends.
ActionProcessed == action # {} ~> (pc = "process" \/ pc \in Terminal)

\* The exchange under way, read off from the packets on their way to the
\* program (in) and to the emulator (back).
Underway(in, back) ==
  IF \E i \in DOMAIN in : in[i].cmd = "SYNC1"
  THEN [kind |-> "request",
        b |-> in[CHOOSE i \in DOMAIN in : in[i].cmd = "SYNC1"].b2]
  ELSE IF \E i \in DOMAIN back : back[i].cmd = "SYNC2"
  THEN [kind |-> "answer",
        b |-> back[CHOOSE i \in DOMAIN back : back[i].cmd = "SYNC2"].b2]
  ELSE [kind |-> "none", b |-> IdleByte]

\* What the emulator and the adapter see of the exchange of bytes.
Exchange == INSTANCE SerialExchange WITH
  out <- byte, wire <- Underway(toAdapter, toEmu), adapterGot <- heard,
  gameGot <- emuGot, up <- emuOpen /\ pc \notin Terminal

\* The link is a byte-wide shift register between the game and the adapter:
\* each byte of the game reaches the adapter once, in order, and is answered
\* with the byte the adapter returned for the byte before; none is lost as long
\* as the emulator and the program are there.
ExchangeSpec == Exchange!Spec
=============================================================================
