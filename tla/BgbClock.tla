------------------------------ MODULE BgbClock ------------------------------
(***************************************************************************)
(* The arithmetic of the emulator's clock.                                 *)
(*                                                                         *)
(* BGB stamps its packets with a 31-bit counter of 2^21 ticks a second.    *)
(* The program keeps stamps in a uint32_t and compares two of them with    *)
(* (t - s) & 0x7FFFFFFF.  The three numbers of the code are constants      *)
(* here, so that TLC can use a short lap and the proofs hold for all laps: *)
(*                                                                         *)
(*   Half      one lap of the clock, 0x80000000 in the code                *)
(*   BackGap   bgblink.c: a step back of at most this is ignored, 0x100    *)
(*   ResetGap  main.c: a step forward of more than this is a reset, 0x1000 *)
(***************************************************************************)
EXTENDS Integers

CONSTANTS Half, BackGap, ResetGap

ASSUME ClockAssumption ==
  /\ Half \in Nat /\ BackGap \in Nat /\ ResetGap \in Nat
  /\ 0 < BackGap
  /\ 0 < ResetGap
  /\ BackGap + ResetGap < Half

Uint32 == 0 .. (2 * Half - 1)      \* the values of a uint32_t
EmuTime == 0 .. (Half - 1)         \* the values BGB's own counter takes

\* (t - s) & 0x7FFFFFFF : the subtraction wraps at 2^32, a multiple of Half.
Elapsed(t, s) == (t - s) % Half

\* Mutant: no step back is ignored.
WentBackNever(last, cur) == FALSE

\* bgb_loop's test for a clock that "went back in time".
WentBack(last, cur) == Elapsed(last, cur) # 0 /\ Elapsed(last, cur) <= BackGap

\* Mutant: off by one.
JumpedLate(t, clock) == Elapsed(t, clock) > ResetGap + 1

\* bgb_loop_timestamp's test for an emulator that was reset.
Jumped(t, clock) == Elapsed(t, clock) > ResetGap
=============================================================================
