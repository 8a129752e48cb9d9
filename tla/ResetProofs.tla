----------------------------- MODULE ResetProofs ----------------------------
(***************************************************************************)
(* The adapter is restarted exactly when the emulator's clock was cut, and *)
(* its timers are exact: theorems about MobileLoop.                        *)
(*                                                                         *)
(* Both rest on one invariant, Chain: the packets that wait in the         *)
(* connection tell, one after the other, what the emulator's clock did     *)
(* since the stamp the program has kept.                                   *)
(***************************************************************************)
EXTENDS MobileLoopProofs

\* What the theorems assume of the emulator: its first packet has a stamp, and
\* a cut of its clock leaves both windows in which it looks like normal
\* running.
ClearCuts ==
  /\ FirstStamped
  /\ Jumps \subseteq (ResetGap + 1) .. (Half - BackGap - 1)
-----------------------------------------------------------------------------
(* The arithmetic of one lap *)

\* k ticks later: what the two differences of the code see of an advance.
LEMMA LapAdd ==
  ASSUME NEW a \in EmuTime, NEW k \in EmuTime
  PROVE  /\ (a + k) % Half \in EmuTime
         /\ Elapsed((a + k) % Half, a) = k
         /\ k = 0 => Elapsed(a, (a + k) % Half) = 0
         /\ k > 0 => Elapsed(a, (a + k) % Half) = Half - k
<1> USE ClockAssumption DEF EmuTime, Elapsed
<1>1. CASE a + k < Half
  <2>1. (a + k) % Half = a + k
    BY <1>1
  <2>2. k % Half = k
    OBVIOUS
  <2>3. k > 0 => (a - (a + k)) % Half = Half - k
    OBVIOUS
  <2> QED
    BY <2>1, <2>2, <2>3
<1>2. CASE a + k >= Half
  <2>1. (a + k) % Half = a + k - Half
    BY <1>2
  <2>2. ((a + k - Half) - a) % Half = k
    BY <1>2
  <2>3. (a - (a + k - Half)) % Half = Half - k
    BY <1>2
  <2> QED
    BY <1>2, <2>1, <2>2, <2>3
<1> QED
  BY <1>1, <1>2

\* A stamp that is g ticks too low.
LEMMA LapSub ==
  ASSUME NEW a \in EmuTime, NEW g \in 1 .. (Half - 1)
  PROVE  /\ (a - g) % Half \in EmuTime
         /\ Elapsed(a, (a - g) % Half) = g
<1> USE ClockAssumption DEF EmuTime, Elapsed
<1>1. CASE a >= g
  <2>1. (a - g) % Half = a - g
    BY <1>1
  <2> QED
    BY <1>1, <2>1
<1>2. CASE a < g
  <2>1. (a - g) % Half = a - g + Half
    BY <1>2
  <2>2. (a - (a - g + Half)) % Half = g
    BY <1>2
  <2> QED
    BY <1>2, <2>1, <2>2
<1> QED
  BY <1>1, <1>2

\* The elapsed time of a timer latched at s grows by k, within the lap.
LEMMA LapMore ==
  ASSUME NEW a \in EmuTime, NEW k \in EmuTime, NEW s \in EmuTime,
         Elapsed(a, s) + k < Half
  PROVE  Elapsed((a + k) % Half, s) = Elapsed(a, s) + k
<1> USE ClockAssumption DEF EmuTime, Elapsed
<1>1. CASE a >= s
  <2>1. (a - s) % Half = a - s
    BY <1>1
  <2>2. CASE a + k < Half
    <3>1. (a + k) % Half = a + k
      BY <2>2
    <3>2. (a + k - s) % Half = a + k - s
      BY <1>1, <2>1, <2>2
    <3> QED
      BY <2>1, <3>1, <3>2
  <2>3. CASE a + k >= Half
    <3>1. (a + k) % Half = a + k - Half
      BY <2>3
    <3>2. (a + k - Half - s) % Half = a + k - s
      BY <1>1, <2>1, <2>3
    <3> QED
      BY <2>1, <3>1, <3>2
  <2> QED
    BY <2>2, <2>3
<1>2. CASE a < s
  <2>1. (a - s) % Half = a - s + Half
    BY <1>2
  <2>2. a + k < s
    BY <2>1
  <2>3. (a + k) % Half = a + k
    BY <2>2
  <2>4. (a + k - s) % Half = a + k - s + Half
    BY <2>2
  <2> QED
    BY <2>1, <2>3, <2>4
<1> QED
  BY <1>1, <1>2

\* A lap more shows the same time.
LEMMA LapShift == \A y \in Int : (y + Half) % Half = y % Half
<1> SUFFICES ASSUME NEW y \in Int PROVE (y + Half) % Half = y % Half
  OBVIOUS
<1> DEFINE q == y \div Half
           r == y % Half
<1>1. q \in Int /\ r \in 0 .. (Half - 1) /\ y = Half * q + r /\ Half \in Int
  BY ClockAssumption
<1> HIDE DEF q, r
<1>2. y + Half = Half * (q + 1) + r
  BY <1>1
<1>3. (Half * (q + 1) + r) % Half = r
  BY <1>1, ClockAssumption
<1> QED
  BY <1>2, <1>3 DEF r

\* Two values of a uint32_t differ by what is seen of their difference, and by
\* some laps.
LEMMA LapOf ==
  ASSUME NEW x \in (-2 * Half) .. (2 * Half - 1)
  PROVE  x - (x % Half) \in {-2 * Half, -Half, 0, Half}
<1> USE ClockAssumption
<1>1. CASE x < -Half
  <2>1. x % Half = x + 2 * Half
    BY <1>1
  <2> QED
    BY <2>1
<1>2. CASE x >= -Half /\ x < 0
  <2>1. x % Half = x + Half
    BY <1>2
  <2> QED
    BY <2>1
<1>3. CASE x >= 0 /\ x < Half
  <2>1. x % Half = x
    BY <1>3
  <2> QED
    BY <2>1
<1>4. CASE x >= Half
  <2>1. x % Half = x - Half
    BY <1>4
  <2> QED
    BY <2>1
<1> QED
  BY <1>1, <1>2, <1>3, <1>4

\* bgb_loop's test for a step back and bgb_loop_timestamp's for a jump, for any
\* two values of a uint32_t: what neither lets through is what lies outside the
\* window around a.
LEMMA WindowIs ==
  ASSUME NEW a \in Uint32, NEW t \in Uint32
  PROVE  (\E k \in -BackGap .. ResetGap : (a + k - t) % Half = 0)
           <=> WentBack(a, t) \/ ~Jumped(t, a)
<1> DEFINE e == (t - a) % Half
           c == (t - a) - e
<1>0. /\ Half \in Nat /\ BackGap \in Nat /\ ResetGap \in Nat
      /\ BackGap + ResetGap < Half /\ 0 < BackGap /\ a \in Int /\ t \in Int
  BY ClockAssumption DEF Uint32
<1>1. e \in 0 .. (Half - 1) /\ c \in {-2 * Half, -Half, 0, Half}
  <2>1. t - a \in (-2 * Half) .. (2 * Half - 1) /\ t - a \in Int
    BY <1>0 DEF Uint32
  <2>2. e \in 0 .. (Half - 1)
    BY <1>0, <2>1
  <2>3. c \in {-2 * Half, -Half, 0, Half}
    BY <2>1, LapOf
  <2> HIDE DEF e, c
  <2> QED
    BY <2>2, <2>3
<1>2. \A k \in Int : a + k - t = (k - e) - c
  BY <1>0, <1>1
<1> HIDE DEF e, c
<1>3. ASSUME NEW k \in Int
      PROVE  (a + k - t) % Half = (k - e) % Half
  <2> DEFINE y == k - e
  <2>1. y \in Int /\ y - Half \in Int /\ y + Half \in Int
        /\ (y - Half) + Half = y /\ (y + Half) + Half = y + 2 * Half
    BY <1>0, <1>1
  <2>2. a + k - t \in {y - Half, y, y + Half, y + 2 * Half}
    BY <1>0, <1>1, <1>2
  <2> HIDE DEF y
  <2>3. /\ (y - Half) % Half = y % Half /\ (y + Half) % Half = y % Half
        /\ (y + 2 * Half) % Half = y % Half
    BY <2>1, LapShift, Zenon
  <2> QED
    BY <2>2, <2>3, Zenon DEF y
<1>4. ASSUME NEW k \in -BackGap .. ResetGap
      PROVE  (k - e) % Half = 0 <=> k = e \/ k = e - Half
  <2>1. k - e \in Int /\ k - e > -2 * Half /\ k - e < Half /\ k \in Int
    BY <1>0, <1>1
  <2>2. CASE k - e < -Half
    <3>1. (k - e) % Half = (k - e) + 2 * Half
      BY <1>0, <2>1, <2>2
    <3> QED
      BY <1>0, <1>1, <2>1, <2>2, <3>1
  <2>3. CASE k - e >= -Half /\ k - e < 0
    <3>1. (k - e) % Half = (k - e) + Half
      BY <1>0, <2>1, <2>3
    <3> QED
      BY <1>0, <1>1, <2>1, <2>3, <3>1
  <2>4. CASE k - e >= 0
    <3>1. (k - e) % Half = k - e
      BY <1>0, <2>1, <2>4
    <3> QED
      BY <1>0, <1>1, <2>1, <2>4, <3>1
  <2> QED
    BY <1>0, <2>1, <2>2, <2>3, <2>4
<1>5. Elapsed(t, a) = e
  BY DEF Elapsed, e
<1>6. Elapsed(a, t) = IF e = 0 THEN 0 ELSE Half - e
  <2>1. Elapsed(a, t) = (0 - e) % Half
    <3>1. a + 0 - t = a - t
      BY <1>0
    <3>2. (a + 0 - t) % Half = (0 - e) % Half
      BY <1>3
    <3> QED
      BY <3>1, <3>2, Zenon DEF Elapsed
  <2>2. CASE e = 0
    <3>1. (0 - e) % Half = 0
      BY <1>0, <2>2
    <3> QED
      BY <2>1, <2>2, <3>1, Zenon
  <2>3. CASE e # 0
    <3>1. (0 - e) % Half = Half - e
      BY <1>0, <1>1, <2>3
    <3> QED
      BY <2>1, <2>3, <3>1, Zenon
  <2> QED
    BY <2>2, <2>3
<1>7. (\E k \in -BackGap .. ResetGap : (a + k - t) % Half = 0)
        <=> \E k \in -BackGap .. ResetGap : k = e \/ k = e - Half
  <2>1. \A k \in -BackGap .. ResetGap : k \in Int
    BY <1>0
  <2> QED
    BY <1>3, <1>4, <2>1, Zenon
<1>8. (\E k \in -BackGap .. ResetGap : k = e \/ k = e - Half)
        <=> e <= ResetGap \/ Half - e <= BackGap
  <2>1. e \in -BackGap .. ResetGap <=> e <= ResetGap
    BY <1>0, <1>1
  <2>2. e - Half \in -BackGap .. ResetGap <=> Half - e <= BackGap
    BY <1>0, <1>1
  <2> QED
    BY <2>1, <2>2, Zenon
<1>9. WentBack(a, t) \/ ~Jumped(t, a) <=> e <= ResetGap \/ Half - e <= BackGap
  BY <1>0, <1>1, <1>5, <1>6 DEF WentBack, Jumped
<1> QED
  BY <1>7, <1>8, <1>9, Zenon
-----------------------------------------------------------------------------
(* The chain of packets *)

Stamped == {"SYNC1", "SYNC3"}

\* Packet p tells what the emulator's clock did at step s: nothing, an advance
\* or a cut of k ticks, or nothing although its stamp is g ticks too low.
Faithful(p, s) ==
  \/ /\ p.cmd \notin Stamped
     /\ s.n # 2 /\ ~s.cut /\ s.now = s.from
  \/ /\ p.cmd \in Stamped
     /\ p.ts = s.now
     /\ \E k \in 0 .. (Half - BackGap - 1) :
          s.now = (s.from + k) % Half /\ (s.cut <=> k > ResetGap)
  \/ /\ p.cmd \in Stamped
     /\ s.n = 3 /\ ~s.cut /\ s.now = s.from
     /\ \E g \in 1 .. BackGap : p.ts = (s.from - g) % Half

\* Packets the program has received, counted up to 3 ...
Handled ==
  IF pc \in {"greet", "version"} THEN 0
  ELSE IF pc = "status" THEN 1
  ELSE IF pc = "clock" /\ ~bgb_clock_init THEN 2
  ELSE 3

\* ... and the place of the i-th packet that waits after h were received.
Place(h, i) == IF h + i < 4 THEN h + i - 1 ELSE 3

Chain ==
  /\ \A i \in 1 .. Len(trail) :
       Faithful(toAdapter[i], trail[i]) /\ trail[i].n = Place(Handled, i)
  /\ \A i \in 1 .. (Len(trail) - 1) : trail[i + 1].from = trail[i].now
  /\ emuOpen => emuSent = Place(Handled, Len(trail) + 1)
  /\ emuOpen /\ Len(trail) > 0 => trail[Len(trail)].now = emuClock
  /\ bgb_clock_init /\ Len(trail) > 0 => trail[1].from = timestamp_last
  /\ bgb_clock_init /\ emuOpen /\ Len(trail) = 0 => emuClock = timestamp_last

Over == {"stop"} \cup Terminal

\* The chain holds as long as packets are handled, and the clock is not
\* initialized in bgb_init.
ChainInv ==
  /\ pc \notin Over => Chain
  /\ pc \in {"greet", "version", "status"} => ~bgb_clock_init

\* Steps that leave the connection and the clocks alone keep the chain.
LEMMA ChainKept ==
  ASSUME Chain, Handled' = Handled,
         UNCHANGED <<toAdapter, trail, emuOpen, emuSent, emuClock,
                     bgb_clock_init, timestamp_last>>
  PROVE  Chain'
  BY DEF Chain, Place, Faithful

\* A packet the emulator sends lengthens the chain.
LEMMA ChainSent ==
  ASSUME TypeOK, Chain, Handled' = Handled,
         UNCHANGED <<bgb_clock_init, timestamp_last>>,
         NEW p \in Packet, NEW now \in EmuTime, NEW cut \in BOOLEAN,
         EmuSends(p, now, cut),
         Faithful(p, [from |-> emuClock, now |-> now, cut |-> cut, n |-> emuSent])
  PROVE  Chain'
<1> DEFINE s == [from |-> emuClock, now |-> now, cut |-> cut, n |-> emuSent]
<1>1. /\ toAdapter \in Seq(Packet) /\ trail \in Seq(Step)
      /\ Len(trail) = Len(toAdapter) /\ Len(trail) \in Nat
      /\ s \in Step /\ emuSent \in 0 .. 3
  BY DEF TypeOK, WireTypeOK, Step
<1>2. toAdapter' = Append(toAdapter, p) /\ trail' = Append(trail, s)
  BY DEF EmuSends
<1>3. /\ Len(trail') = Len(trail) + 1
      /\ \A i \in 1 .. Len(trail) : trail'[i] = trail[i] /\ toAdapter'[i] = toAdapter[i]
      /\ trail'[Len(trail) + 1] = s
      /\ toAdapter'[Len(trail) + 1] = p
  BY <1>1, <1>2
<1>4. /\ emuOpen /\ emuOpen' /\ emuClock' = now
      /\ emuSent' = IF emuSent = 3 THEN 3 ELSE emuSent + 1
  BY DEF EmuSends, TypeOK, WireTypeOK
<1>5. Handled \in 0 .. 3
  BY DEF Handled
<1>6. emuSent = Place(Handled, Len(trail) + 1)
  BY <1>4 DEF Chain
<1>7. \A i \in 1 .. Len(trail') :
        Faithful(toAdapter'[i], trail'[i]) /\ trail'[i].n = Place(Handled', i)
  <2> SUFFICES ASSUME NEW i \in 1 .. Len(trail')
               PROVE  Faithful(toAdapter'[i], trail'[i]) /\ trail'[i].n = Place(Handled', i)
    OBVIOUS
  <2>1. CASE i \in 1 .. Len(trail)
    BY <1>1, <1>3, <1>6, <2>1 DEF Chain
  <2>2. CASE i = Len(trail) + 1
    BY <1>1, <1>3, <1>6, <2>2
  <2> QED
    BY <1>1, <1>3, <2>1, <2>2
<1>8. \A i \in 1 .. (Len(trail') - 1) : trail'[i + 1].from = trail'[i].now
  <2> SUFFICES ASSUME NEW i \in 1 .. Len(trail)
               PROVE  trail'[i + 1].from = trail'[i].now
    BY <1>1, <1>3
  <2>1. CASE i < Len(trail)
    BY <1>1, <1>3, <2>1 DEF Chain
  <2>2. CASE i = Len(trail)
    BY <1>1, <1>3, <1>4, <2>2 DEF Chain
  <2> QED
    BY <1>1, <2>1, <2>2
<1>9. emuSent' = Place(Handled', Len(trail') + 1)
  <2>1. Place(Handled', Len(trail') + 1) =
          IF Handled + Len(trail) < 2 THEN Handled + Len(trail) + 1 ELSE 3
    BY <1>1, <1>3, <1>5 DEF Place
  <2>2. emuSent = IF Handled + Len(trail) < 3 THEN Handled + Len(trail) ELSE 3
    BY <1>1, <1>5, <1>6 DEF Place
  <2> QED
    BY <1>1, <1>4, <1>5, <2>1, <2>2
<1>10. trail'[Len(trail')].now = emuClock'
  BY <1>1, <1>3, <1>4
<1>11. bgb_clock_init => trail'[1].from = timestamp_last
  <2>1. CASE Len(trail) = 0
    BY <1>1, <1>3, <1>4, <2>1 DEF Chain
  <2>2. CASE Len(trail) > 0
    BY <1>1, <1>3, <2>2 DEF Chain
  <2> QED
    BY <1>1, <2>1, <2>2
<1>12. Len(trail') # 0
  BY <1>1, <1>3
<1>13. (bgb_clock_init /\ Len(trail) > 0 => trail[1].from = timestamp_last)'
  BY <1>11
<1> QED
  BY <1>7, <1>8, <1>9, <1>10, <1>12, <1>13 DEF Chain

\* A packet the program receives shortens it, if the program's clock follows.
LEMMA ChainReceived ==
  ASSUME TypeOK, Chain, NEW p, Receives(p),
         UNCHANGED <<emuOpen, emuSent, emuClock>>,
         Handled' = IF Handled = 3 THEN 3 ELSE Handled + 1,
         bgb_clock_init' => timestamp_last' = trail[1].now
  PROVE  Chain'
<1>1. /\ toAdapter \in Seq(Packet) /\ trail \in Seq(Step)
      /\ Len(trail) = Len(toAdapter) /\ Len(trail) \in Nat \ {0}
      /\ toAdapter # <<>> /\ trail # <<>>
  <2>1. /\ toAdapter \in Seq(Packet) /\ trail \in Seq(Step)
        /\ Len(trail) = Len(toAdapter) /\ toAdapter # <<>>
    BY DEF TypeOK, WireTypeOK, Receives
  <2>2. Len(toAdapter) \in Nat \ {0}
    BY <2>1, SeqEmpty
  <2> QED
    BY <2>1, <2>2, SeqEmpty
<1>2. toAdapter' = Tail(toAdapter) /\ trail' = Tail(trail)
  BY DEF Receives
<1>3. /\ Len(trail') = Len(trail) - 1
      /\ \A i \in 1 .. (Len(trail) - 1) :
           trail'[i] = trail[i + 1] /\ toAdapter'[i] = toAdapter[i + 1]
  BY <1>1, <1>2
<1>0. Handled \in 0 .. 3
  BY DEF Handled
<1>4. \A i \in Nat \ {0} : Place(Handled', i) = Place(Handled, i + 1)
  BY <1>0 DEF Place
<1>5. \A i \in 1 .. Len(trail') :
        Faithful(toAdapter'[i], trail'[i]) /\ trail'[i].n = Place(Handled', i)
  <2> TAKE i \in 1 .. Len(trail')
  <2>1. /\ i \in 1 .. (Len(trail) - 1) /\ i \in Nat \ {0}
        /\ i + 1 \in 1 .. Len(trail)
    BY <1>1, <1>3
  <2>2. Faithful(toAdapter[i + 1], trail[i + 1]) /\ trail[i + 1].n = Place(Handled, i + 1)
    BY <2>1 DEF Chain
  <2>3. trail'[i] = trail[i + 1] /\ toAdapter'[i] = toAdapter[i + 1]
    BY <1>3, <2>1
  <2>4. Place(Handled', i) = Place(Handled, i + 1)
    BY <1>4, <2>1
  <2> QED
    BY <2>2, <2>3, <2>4
<1>6. \A i \in 1 .. (Len(trail') - 1) : trail'[i + 1].from = trail'[i].now
  BY <1>1, <1>3 DEF Chain
<1>7. emuOpen => emuSent = Place(Handled', Len(trail') + 1)
  BY <1>1, <1>3, <1>4 DEF Chain
<1>8. emuOpen /\ Len(trail') > 0 => trail'[Len(trail')].now = emuClock
  BY <1>1, <1>3 DEF Chain
<1>9. bgb_clock_init' /\ Len(trail') > 0 => trail'[1].from = timestamp_last'
  BY <1>1, <1>3 DEF Chain
<1>10. bgb_clock_init' /\ emuOpen /\ Len(trail') = 0 => emuClock = timestamp_last'
  BY <1>1, <1>3 DEF Chain
<1> QED
  BY <1>5, <1>6, <1>7, <1>8, <1>9, <1>10 DEF Chain, Faithful

\* The packet at the head of the connection is the first of the chain.
LEMMA HeadOfChain ==
  ASSUME TypeOK, Chain, NEW p, Receives(p)
  PROVE  /\ trail[1] = Head(trail) /\ trail[1] \in Step
         /\ trail[1].from \in EmuTime /\ trail[1].now \in EmuTime
         /\ p \in Packet
         /\ Faithful(p, trail[1])
         /\ trail[1].n = Place(Handled, 1)
         /\ bgb_clock_init => trail[1].from = timestamp_last
<1>1. /\ toAdapter \in Seq(Packet) /\ trail \in Seq(Step)
      /\ Len(trail) = Len(toAdapter) /\ toAdapter # <<>>
      /\ p = Head(toAdapter)
  BY DEF TypeOK, WireTypeOK, Receives
<1>2. Len(trail) \in Nat \ {0}
  BY <1>1, SeqEmpty
<1>3. /\ Head(trail) = trail[1] /\ p = toAdapter[1]
      /\ trail[1] \in Step /\ toAdapter[1] \in Packet
      /\ 1 \in 1 .. Len(trail)
  BY <1>1, <1>2
<1> QED
  BY <1>2, <1>3 DEF Chain, Step

\* In a running program the filter recovers the emulator's clock from every
\* packet, and the test for a reset tells a cut from normal running.
LEMMA HeadTime ==
  ASSUME TypeOK, MainInv, Chain, bgb_clock_init, NEW p, Receives(p)
  PROVE  /\ NewTime(p) = trail[1].now
         /\ LastTime(p) = trail[1].from
         /\ bgb_clock = trail[1].from
         /\ Jumped(trail[1].now, trail[1].from) <=> trail[1].cut
         /\ trail[1].cut => trail[1].now # trail[1].from
<1> DEFINE s == trail[1]
<1>1. /\ s.from \in EmuTime /\ s.now \in EmuTime /\ Faithful(p, s)
      /\ s.from = timestamp_last
  BY HeadOfChain
<1>2. timestamp_init /\ bgb_clock = timestamp_last
  BY Zenon DEF MainInv, ClockAgreement
<1>3. LastTime(p) = s.from
  BY <1>1, <1>2 DEF LastTime
<1>4. Elapsed(s.from, s.from) = 0
  BY <1>1, LapAdd, ClockAssumption DEF Elapsed, EmuTime
<1>5. CASE p.cmd \notin Stamped
  <2>1. PacketTime(p) = s.from /\ s.now = s.from /\ ~s.cut
    BY <1>1, <1>5 DEF PacketTime, Stamped, Faithful
  <2>2. NewTime(p) = s.now
    BY <1>3, <2>1 DEF NewTime
  <2>3. ~Jumped(s.now, s.from)
    BY <1>4, <2>1, ClockAssumption DEF Jumped
  <2> QED
    BY <1>1, <1>2, <1>3, <2>1, <2>2, <2>3
<1>6. ASSUME NEW k \in 0 .. (Half - BackGap - 1),
             p.cmd \in Stamped, p.ts = s.now, s.now = (s.from + k) % Half,
             s.cut <=> k > ResetGap
      PROVE  /\ NewTime(p) = s.now
             /\ Jumped(s.now, s.from) <=> s.cut
             /\ s.cut => s.now # s.from
  <2>1. k \in EmuTime
    BY <1>6, ClockAssumption DEF EmuTime
  <2>2. /\ Elapsed(s.now, s.from) = k
        /\ k = 0 => Elapsed(s.from, s.now) = 0
        /\ k > 0 => Elapsed(s.from, s.now) = Half - k
    <3>1. /\ Elapsed((s.from + k) % Half, s.from) = k
          /\ k = 0 => Elapsed(s.from, (s.from + k) % Half) = 0
          /\ k > 0 => Elapsed(s.from, (s.from + k) % Half) = Half - k
      BY <1>1, <2>1, LapAdd, Zenon
    <3> QED
      BY <1>6, <3>1
  <2>3. ~WentBack(s.from, s.now)
    <3>1. CASE k = 0
      BY <2>2, <3>1 DEF WentBack
    <3>2. CASE k > 0
      BY <2>2, <3>2, ClockAssumption DEF WentBack
    <3> QED
      BY <3>1, <3>2
  <2>4. PacketTime(p) = s.now
    BY <1>6 DEF PacketTime, Stamped
  <2>5. NewTime(p) = s.now
    BY <1>3, <2>3, <2>4 DEF NewTime
  <2>6. Jumped(s.now, s.from) <=> s.cut
    BY <1>6, <2>2 DEF Jumped
  <2>7. s.cut => s.now # s.from
    BY <1>4, <1>6, <2>2, ClockAssumption
  <2> QED
    BY <2>5, <2>6, <2>7
<1>7. ASSUME NEW g \in 1 .. BackGap,
             p.cmd \in Stamped, ~s.cut, s.now = s.from, p.ts = (s.from - g) % Half
      PROVE  NewTime(p) = s.now /\ ~Jumped(s.now, s.from)
  <2>1. g \in 1 .. (Half - 1)
    BY <1>7, ClockAssumption
  <2>2. Elapsed(s.from, p.ts) = g
    BY <1>1, <1>7, <2>1, LapSub
  <2>3. WentBack(LastTime(p), PacketTime(p))
    BY <1>3, <1>7, <2>2, ClockAssumption DEF PacketTime, Stamped, WentBack
  <2>4. NewTime(p) = s.now
    BY <1>3, <1>7, <2>3 DEF NewTime
  <2>5. ~Jumped(s.now, s.from)
    BY <1>4, <1>7, ClockAssumption DEF Jumped
  <2> QED
    BY <2>4, <2>5
<1> QED
  BY <1>1, <1>2, <1>3, <1>5, <1>6, <1>7 DEF Faithful

\* The packet that initializes the clock has a true stamp.
LEMMA FirstTime ==
  ASSUME TypeOK, MainInv, Chain, pc = "clock", ~bgb_clock_init, NEW p, Receives(p)
  PROVE  NewTime(p) = trail[1].now
<1>1. Faithful(p, trail[1]) /\ trail[1].n = Place(Handled, 1)
  BY HeadOfChain
<1>2. trail[1].n = 2
  BY <1>1 DEF Handled, Place
<1>3. p.cmd \in Stamped /\ p.ts = trail[1].now
  BY <1>1, <1>2 DEF Faithful
<1>4. ~timestamp_init
  BY Zenon DEF MainInv, ClockAgreement
<1> QED
  BY <1>3, <1>4 DEF NewTime, LastTime, PacketTime, Stamped

\* A packet handled by the loop keeps the chain.
LEMMA LoopChain ==
  ASSUME TypeOK, MainInv, ChainInv, bgb_loop_sync1 \/ bgb_loop_other
  PROVE  ChainInv'
<1>1. PICK p, ret : /\ Looping /\ AfterLoop /\ Receives(p)
                    /\ LinkHandles(p, ret) /\ TimestampStage(p)
                    /\ UNCHANGED <<emuOpen, emuSent, emuClock>>
  BY DEF bgb_loop_sync1, bgb_loop_other, emuState
<1>2. pc \in {"clock", "loop"} /\ pc' \in {"clock", "handle"} /\ bgb_clock_init'
  BY <1>1, TimestampAgrees, Zenon DEF Looping, AfterLoop
<1>3. Chain
  BY <1>2 DEF ChainInv, Over, Terminal
<1>4. timestamp_last' = trail[1].now
  <2>1. timestamp_last' = NewTime(p)
    BY <1>1 DEF LinkHandles
  <2>2. CASE pc = "clock"
    BY <1>1, <1>3, <2>1, <2>2, FirstTime DEF Looping
  <2>3. CASE pc = "loop"
    BY <1>1, <1>3, <2>1, <2>3, HeadTime DEF MainInv, ClockKnown, Started
  <2> QED
    BY <1>2, <2>2, <2>3
<1>5. Handled' = 3 /\ Handled \in {2, 3}
  BY <1>2 DEF Handled
<1>6. Chain'
  BY <1>1, <1>3, <1>4, <1>5, ChainReceived
<1> QED
  BY <1>2, <1>6 DEF ChainInv

\* bgb_init keeps the chain.
LEMMA InitChain ==
  ASSUME TypeOK, ChainInv, InitSteps
  PROVE  ChainInv'
<1>1. CASE pc' = "failed"
  BY <1>1 DEF ChainInv, Over, Terminal
<1>2. CASE bgb_init_greet
  <2>1. /\ pc = "greet" /\ pc' = "version"
        /\ UNCHANGED <<toAdapter, trail, emuOpen, emuSent, emuClock,
                       bgb_clock_init, timestamp_last>>
    BY <1>2 DEF InitSteps, bgb_init_greet, emuState, linkVars, userVars, clockVars
  <2>2. Chain /\ ~bgb_clock_init
    BY <2>1 DEF ChainInv, Over, Terminal
  <2>3. Handled' = Handled
    BY <2>1 DEF Handled
  <2> QED
    BY <2>1, <2>2, <2>3, ChainKept DEF ChainInv
<1>3. CASE bgb_init_version \/ bgb_init_status
  <2>1. PICK p : /\ Receives(p)
                 /\ \/ pc = "version" /\ pc' = "status"
                    \/ pc = "status" /\ pc' = "clock"
                 /\ UNCHANGED <<emuOpen, emuSent, emuClock, bgb_clock_init>>
    BY <1>3, Zenon DEF InitSteps, bgb_init_version, bgb_init_status, emuState, userVars,
      clockVars
  <2>2. Chain /\ ~bgb_clock_init /\ ~bgb_clock_init'
    BY <2>1 DEF ChainInv, Over, Terminal
  <2>3. Handled' = IF Handled = 3 THEN 3 ELSE Handled + 1
    BY <2>1, <2>2 DEF Handled
  <2> QED
    BY <2>1, <2>2, <2>3, ChainReceived DEF ChainInv
<1> QED
  BY <1>1, <1>2, <1>3 DEF InitSteps, bgb_init_fails

\* The other steps of the program handle no packet, or the last one.
LEMMA MainChain ==
  ASSUME TypeOK, ChainInv,
         \/ bgb_loop_nodata \/ bgb_loop_false \/ main_start \/ mobile_handle_loop
         \/ mobile_actions_process \/ socket_wait \/ main_break \/ main_stop
         \/ signal_int \/ SigPipe
  PROVE  ChainInv'
<1>1. CASE pc' \in Over
  BY <1>1 DEF ChainInv, Over, Terminal
<1>2. CASE pc' \notin Over
  <2> DEFINE Turn == {"loop", "handle", "process", "wait"}
  <2>0. ~(bgb_loop_false \/ main_break \/ main_stop \/ SigPipe)
    BY <1>2 DEF bgb_loop_false, FailPhase, main_break, main_stop, SigPipe,
      bgb_send_kills, Over, Terminal
  <2>1. /\ UNCHANGED <<toAdapter, trail, emuOpen, emuSent, emuClock,
                       bgb_clock_init, timestamp_last>>
        /\ \/ pc' = pc
           \/ pc = "clock" /\ bgb_clock_init /\ pc' = "loop"
           \/ pc \in Turn /\ pc' \in Turn
    <3>1. CASE bgb_loop_nodata \/ socket_wait
      BY <3>1 DEF bgb_loop_nodata, socket_wait, wireVars, linkVars, userVars, clockVars
    <3>2. CASE main_start
      BY <3>2 DEF main_start, wireVars, linkVars, clockVars
    <3>3. CASE mobile_handle_loop
      BY <3>3 DEF mobile_handle_loop, ProcessIfAny, wireVars, linkVars
    <3>4. CASE mobile_actions_process
      BY <3>4 DEF mobile_actions_process, wireVars, linkVars, clockVars
    <3>5. CASE signal_int
      BY <1>2, <3>5 DEF signal_int, FailPhase, Over, Terminal, wireVars, linkVars,
        clockVars
    <3> QED
      BY <2>0, <3>1, <3>2, <3>3, <3>4, <3>5
  <2>2. Chain
    BY <1>2, <2>1 DEF ChainInv, Over, Terminal
  <2>3. Handled' = Handled
    BY <2>1 DEF Handled
  <2>4. Chain'
    BY <2>1, <2>2, <2>3, ChainKept
  <2> QED
    BY <2>1, <2>4 DEF ChainInv
<1> QED
  BY <1>1, <1>2

\* A stamped packet of the emulator is faithful, if cuts are clear.
LEMMA StampFaithful ==
  ASSUME ClearCuts, TypeOK, NEW cmd \in Stamped, NEW b2 \in 0 .. 255,
         EmuStamps(cmd, b2)
  PROVE  \E p \in Packet, now \in EmuTime, cut \in BOOLEAN :
           /\ EmuSends(p, now, cut)
           /\ Faithful(p, [from |-> emuClock, now |-> now, cut |-> cut, n |-> emuSent])
<1> DEFINE Pkt(ts) == [cmd |-> cmd, b2 |-> b2, ts |-> ts]
<1>1. emuClock \in EmuTime /\ emuClock \in Int /\ emuSent \in 0 .. 3
  BY ClockAssumption DEF TypeOK, WireTypeOK, EmuTime
<1>2. \A ts \in EmuTime : Pkt(ts) \in Packet /\ Pkt(ts).cmd \in Stamped /\ Pkt(ts).ts = ts
  BY EmuTimeIsUint32 DEF Packet, Cmd, Stamped
<1>3. CASE \E d \in 0 .. ResetGap :
             LET now == (emuClock + d) % Half IN EmuSends(Pkt(now), now, FALSE)
  <2>1. PICK d \in 0 .. ResetGap :
          EmuSends(Pkt((emuClock + d) % Half), (emuClock + d) % Half, FALSE)
    BY <1>3, Zenon
  <2> DEFINE now == (emuClock + d) % Half
             s == [from |-> emuClock, now |-> now, cut |-> FALSE, n |-> emuSent]
  <2>2. now \in EmuTime
    <3>1. emuClock + d \in Int
      BY <1>1, ClockAssumption
    <3> QED
      BY <3>1, LapType, Zenon
  <2>3. d \in 0 .. (Half - BackGap - 1) /\ ~(d > ResetGap)
    BY ClockAssumption
  <2>4. Faithful(Pkt(now), s)
    BY <1>2, <2>2, <2>3 DEF Faithful
  <2> QED
    BY <1>2, <2>1, <2>2, <2>4, Zenon
<1>4. CASE \E j \in Jumps :
             LET now == (emuClock + j) % Half IN EmuSends(Pkt(now), now, TRUE)
  <2>1. PICK j \in Jumps :
          EmuSends(Pkt((emuClock + j) % Half), (emuClock + j) % Half, TRUE)
    BY <1>4, Zenon
  <2> DEFINE now == (emuClock + j) % Half
             s == [from |-> emuClock, now |-> now, cut |-> TRUE, n |-> emuSent]
  <2>2. j \in 0 .. (Half - BackGap - 1) /\ j > ResetGap
    BY ClockAssumption DEF ClearCuts
  <2>3. now \in EmuTime
    <3>1. emuClock + j \in Int
      BY <1>1, <2>2, ClockAssumption
    <3> QED
      BY <3>1, LapType, Zenon
  <2>4. Faithful(Pkt(now), s)
    BY <1>2, <2>2, <2>3 DEF Faithful
  <2> QED
    BY <1>2, <2>1, <2>3, <2>4, Zenon
<1>5. CASE emuSent = 3 /\ \E g \in 1 .. BackGap :
             EmuSends(Pkt((emuClock - g) % Half), emuClock, FALSE)
  <2>1. PICK g \in 1 .. BackGap : EmuSends(Pkt((emuClock - g) % Half), emuClock, FALSE)
    BY <1>5, Zenon
  <2> DEFINE ts == (emuClock - g) % Half
             s == [from |-> emuClock, now |-> emuClock, cut |-> FALSE, n |-> emuSent]
  <2>2. ts \in EmuTime
    BY <1>1, LapType, ClockAssumption
  <2>3. Faithful(Pkt(ts), s)
    BY <1>2, <1>5, <2>2 DEF Faithful
  <2> QED
    BY <1>1, <1>2, <2>1, <2>2, <2>3, Zenon
<1> QED
  BY <1>3, <1>4, <1>5, Zenon DEF EmuStamps

\* Whatever the emulator does keeps the chain, if cuts are clear.
LEMMA EmuChain ==
  ASSUME ClearCuts, TypeOK, ChainInv, EmulatorStep
  PROVE  ChainInv'
<1>1. UNCHANGED <<pc, bgb_clock_init, timestamp_last>>
  BY DEF EmulatorStep, linkVars, userVars, clockVars
<1>2. Handled' = Handled
  BY <1>1 DEF Handled
<1> SUFFICES ASSUME pc \notin Over PROVE Chain'
  BY <1>1 DEF ChainInv
<1>3. Chain
  BY DEF ChainInv
<1>4. emuClock \in EmuTime /\ FALSE \in BOOLEAN
  BY DEF TypeOK, WireTypeOK
<1>5. ASSUME NEW cmd \in Cmd \ Stamped, NEW b2 \in 0 .. 255, emuSent # 2,
             EmuSendsPlain(cmd, b2)
      PROVE  Chain'
  <2> DEFINE p == [cmd |-> cmd, b2 |-> b2, ts |-> 0]
             s == [from |-> emuClock, now |-> emuClock, cut |-> FALSE, n |-> emuSent]
  <2>1. p \in Packet
    BY <1>5, ClockAssumption DEF Packet, Uint32
  <2>2. Faithful(p, s)
    BY <1>5 DEF Faithful
  <2>3. EmuSends(p, emuClock, FALSE)
    BY <1>5, Zenon DEF EmuSendsPlain
  <2> QED
    BY <1>1, <1>2, <1>3, <1>4, <2>1, <2>2, <2>3, ChainSent, Zenon
<1>6. ASSUME NEW cmd \in Stamped, NEW b2 \in 0 .. 255, EmuStamps(cmd, b2)
      PROVE  Chain'
  BY <1>1, <1>2, <1>3, <1>6, StampFaithful, ChainSent, Zenon
<1>7. CASE EmuGreet \/ EmuStatus \/ EmuChatter
  <2>1. {"VERSION", "STATUS", "OTHER"} \cup Chatter \subseteq Cmd \ Stamped
    BY WireAssumption DEF Cmd, Quiet, Stamped
  <2>2. CASE EmuGreet
    BY <1>5, <2>1, <2>2 DEF EmuGreet
  <2>3. CASE EmuStatus
    BY <1>5, <2>1, <2>3 DEF EmuStatus
  <2>4. CASE EmuChatter
    <3>1. emuSent # 2
      BY <2>4 DEF EmuChatter, ClearCuts
    <3> QED
      BY <1>5, <2>1, <2>4, <3>1 DEF EmuChatter
  <2> QED
    BY <1>7, <2>2, <2>3, <2>4
<1>8. CASE EmuSync1 \/ EmuSync3
  BY <1>6, <1>8, WireAssumption DEF EmuSync1, EmuSync3, Stamped
<1>9. CASE EmuReceive
  BY <1>1, <1>2, <1>3, <1>9, ChainKept DEF EmuReceive
<1>10. CASE EmuClose
  <2>1. ~emuOpen'
    BY <1>10 DEF EmuClose
  <2>2. CASE UNCHANGED <<toAdapter, trail>>
    BY <1>1, <1>2, <1>3, <2>1, <2>2 DEF Chain, Faithful
  <2>3. CASE toAdapter' = <<>> /\ trail' = <<>>
    <3>1. /\ 1 .. Len(trail') = {} /\ 1 .. (Len(trail') - 1) = {}
          /\ ~(Len(trail') > 0)
      BY <2>3
    <3> QED
      BY <2>1, <3>1, Zenon DEF Chain
  <2> QED
    BY <1>10, <2>2, <2>3 DEF EmuClose
<1> QED
  BY <1>7, <1>8, <1>9, <1>10 DEF EmulatorStep, Emulator

\* The chain holds in every state.
LEMMA ChainInvariant == ASSUME ClearCuts PROVE Spec => []ChainInv
<1>1. Init => ChainInv
  <2> SUFFICES ASSUME Init PROVE ChainInv
    OBVIOUS
  <2>1. /\ pc = "greet" /\ ~bgb_clock_init /\ Len(trail) = 0 /\ emuSent = 0
    BY DEF Init, WireInit
  <2>2. Handled = 0
    BY <2>1 DEF Handled
  <2>3. Chain
    BY <2>1, <2>2 DEF Chain, Place
  <2> QED
    BY <2>1, <2>3 DEF ChainInv
<1>2. TypeOK /\ MainInv /\ ChainInv /\ [Next]_vars => ChainInv'
  <2> SUFFICES ASSUME TypeOK, MainInv, ChainInv, [Next]_vars PROVE ChainInv'
    OBVIOUS
  <2>1. CASE Program
    BY <2>1, InitChain, LoopChain, MainChain DEF Program
  <2>2. CASE signal_int
    BY <2>2, MainChain
  <2>3. CASE EmulatorStep
    BY <2>3, EmuChain
  <2>4. CASE Terminated \/ UNCHANGED vars
    <3>1. UNCHANGED <<pc, toAdapter, trail, emuOpen, emuSent, emuClock,
                      bgb_clock_init, timestamp_last>>
      BY <2>4 DEF Terminated, vars, wireVars, linkVars, userVars, clockVars
    <3>2. Handled' = Handled
      BY <3>1 DEF Handled
    <3> QED
      BY <3>1, <3>2, ChainKept DEF ChainInv
  <2> QED
    BY <2>1, <2>2, <2>3, <2>4 DEF Next
<1> QED
  BY <1>1, <1>2, TypeCorrect, MainInvariant, PTL DEF Spec
-----------------------------------------------------------------------------
(* Restarts *)

\* A packet handled in the main loop moves the adapter's clock as the
\* emulator's moved, and requests a restart if and only if that was cut.
LEMMA LoopFollows ==
  ASSUME TypeOK, MainInv, ChainInv, pc = "loop", bgb_loop_sync1 \/ bgb_loop_other
  PROVE  /\ trail[1] = Head(trail)
         /\ trail[1].from \in EmuTime /\ trail[1].now \in EmuTime
         /\ bgb_clock = trail[1].from
         /\ bgb_clock' = trail[1].now
         /\ reset' <=> trail[1].cut
<1>1. PICK p, ret : /\ Looping /\ AfterLoop /\ Receives(p)
                    /\ LinkHandles(p, ret) /\ TimestampStage(p)
  BY DEF bgb_loop_sync1, bgb_loop_other
<1>2. Chain /\ bgb_clock_init /\ timestamp_init /\ ~reset
  <2>1. Chain /\ bgb_clock_init /\ ~reset
    BY DEF ChainInv, Over, Terminal, MainInv, ClockKnown, Started, ResetPrompt
  <2> QED
    BY <2>1, Zenon DEF MainInv, ClockAgreement
<1>3. /\ trail[1] = Head(trail)
      /\ trail[1].from \in EmuTime /\ trail[1].now \in EmuTime
  BY <1>1, <1>2, HeadOfChain
<1>4. /\ NewTime(p) = trail[1].now
      /\ LastTime(p) = trail[1].from
      /\ bgb_clock = trail[1].from
      /\ Jumped(trail[1].now, trail[1].from) <=> trail[1].cut
      /\ trail[1].cut => trail[1].now # trail[1].from
  BY <1>1, <1>2, HeadTime
<1>5. CASE CallsTimestamp(p)
  <2>1. bgb_loop_timestamp(NewTime(p))
    BY <1>1, <1>5 DEF TimestampStage, callback_timestamp
  <2> QED
    BY <1>2, <1>3, <1>4, <2>1, Zenon DEF bgb_loop_timestamp
<1>6. CASE ~CallsTimestamp(p)
  <2>1. trail[1].now = trail[1].from
    BY <1>2, <1>4, <1>6 DEF CallsTimestamp
  <2>2. UNCHANGED clockVars
    BY <1>1, <1>6 DEF TimestampStage
  <2> QED
    BY <1>2, <1>3, <1>4, <2>1, <2>2 DEF clockVars
<1> QED
  BY <1>5, <1>6

\* Only a packet handled in the main loop requests a restart.
LEMMA ResetRequest ==
  ASSUME MainInv, [Next]_vars, ~reset, reset'
  PROVE  pc = "loop" /\ (bgb_loop_sync1 \/ bgb_loop_other)
<1>1. CASE bgb_loop_sync1 \/ bgb_loop_other
  <2>1. PICK p : Looping /\ TimestampStage(p)
    BY <1>1 DEF bgb_loop_sync1, bgb_loop_other
  <2>2. pc # "clock"
    BY <2>1, Zenon
    DEF TimestampStage, callback_timestamp, bgb_loop_timestamp_init, clockVars
  <2> QED
    BY <1>1, <2>1, <2>2 DEF Looping
<1>2. CASE ~(bgb_loop_sync1 \/ bgb_loop_other)
  <2>1. CASE mobile_handle_loop
    BY <2>1 DEF mobile_handle_loop, RestartIfReset
  <2>2. CASE ~mobile_handle_loop
    <3>1. UNCHANGED reset
      BY <1>2, <2>2, Zenon
      DEF Next, Program, InitSteps, bgb_loop_nodata, bgb_loop_false,
        main_start, mobile_actions_process, socket_wait, main_break, main_stop,
        signal_int, SigPipe, EmulatorStep, Terminated, userVars, clockVars, vars
    <3> QED
      BY <3>1
  <2> QED
    BY <2>1, <2>2
<1> QED
  BY <1>1, <1>2

\* The adapter is restarted only when the emulator's clock was cut: neither the
\* wrap of the 31-bit clock, nor a stamp up to BackGap too low, nor a packet
\* without a stamp is taken for a reset.
THEOREM ResetsOnlyOnCuts == ASSUME ClearCuts PROVE Spec => ResetOnlyOnCut
<1>1. TypeOK /\ MainInv /\ ChainInv /\ [Next]_vars
        => [~reset /\ reset' => Head(trail).cut]_vars
  <2> SUFFICES ASSUME TypeOK, MainInv, ChainInv, [Next]_vars, ~reset, reset'
               PROVE  Head(trail).cut
    OBVIOUS
  <2>1. pc = "loop" /\ (bgb_loop_sync1 \/ bgb_loop_other)
    BY ResetRequest
  <2> QED
    BY <2>1, LoopFollows
<1> QED
  BY <1>1, TypeCorrect, MainInvariant, ChainInvariant, PTL DEF Spec, ResetOnlyOnCut

\* A packet handled in a turn of the main loop that goes on is handled by
\* bgb_loop, in one of the two ways in which it returns true.
LEMMA HandlesPacket ==
  ASSUME TypeOK, [Next]_vars, Handles, pc' = "handle"
  PROVE  pc = "loop" /\ (bgb_loop_sync1 \/ bgb_loop_other)
<1>1. toAdapter' # toAdapter /\ pc = "loop"
  BY DEF Handles, TypeOK, WireTypeOK
<1>2. ~InitSteps /\ ~bgb_loop_false /\ ~EmulatorStep
  BY <1>1 DEF InitSteps, bgb_init_greet, bgb_init_version, bgb_init_status,
    bgb_init_fails, bgb_loop_false, FailPhase, EmulatorStep
<1> QED
  BY <1>1, <1>2, Zenon DEF Next, Program, bgb_loop_nodata, main_start,
    mobile_handle_loop, mobile_actions_process, socket_wait, main_break,
    main_stop, signal_int, SigPipe, bgb_send_kills, Terminated, wireVars, vars

\* Every cut of the emulator's clock requests a restart of the adapter when
\* the packet that shows it is handled.
THEOREM CutsReset == ASSUME ClearCuts PROVE Spec => CutResets
<1>1. TypeOK /\ MainInv /\ ChainInv /\ [Next]_vars
        => [Handles /\ pc' = "handle" /\ Head(trail).cut => reset']_vars
  <2> SUFFICES ASSUME TypeOK, MainInv, ChainInv, [Next]_vars,
                      Handles, pc' = "handle", Head(trail).cut
               PROVE  reset'
    OBVIOUS
  <2>1. pc = "loop" /\ (bgb_loop_sync1 \/ bgb_loop_other)
    BY HandlesPacket
  <2> QED
    BY <2>1, LoopFollows
<1> QED
  BY <1>1, TypeCorrect, MainInvariant, ChainInvariant, PTL DEF Spec, CutResets

\* What bgb_loop does with a packet in the main loop, from the state the
\* adapter was in: the filter lets the program's own clock through for a stamp
\* just behind it, and the test is made on what the filter let through.
LEMMA LoopTests ==
  ASSUME TypeOK, MainInv, pc = "loop", NEW p \in Packet, TimestampStage(p)
  PROVE  reset' <=> /\ p.cmd \in Stamped
                    /\ ~WentBack(bgb_clock, p.ts) /\ Jumped(p.ts, bgb_clock)
<1>1. /\ timestamp_init /\ ~reset /\ bgb_clock = timestamp_last
      /\ bgb_clock \in Uint32
  <2>1. bgb_clock_init /\ ~reset
    BY DEF MainInv, ClockKnown, Started, ResetPrompt
  <2> QED
    BY <2>1, Zenon DEF MainInv, ClockAgreement, TypeOK
<1>2. ~WentBack(bgb_clock, bgb_clock) /\ ~Jumped(bgb_clock, bgb_clock)
  <2>1. bgb_clock \in Int
    BY <1>1, ClockAssumption DEF Uint32
  <2>2. Elapsed(bgb_clock, bgb_clock) = 0
    BY <2>1, ClockAssumption DEF Elapsed
  <2> QED
    BY <2>2, ClockAssumption DEF WentBack, Jumped
<1>3. LastTime(p) = bgb_clock
  BY <1>1, Zenon DEF LastTime
<1>4. PacketTime(p) = IF p.cmd \in Stamped THEN p.ts ELSE bgb_clock
  BY <1>1, Zenon DEF PacketTime, Stamped
<1>5. reset' <=> NewTime(p) # bgb_clock /\ Jumped(NewTime(p), bgb_clock)
  <2>1. CASE CallsTimestamp(p)
    <3>1. bgb_loop_timestamp(NewTime(p)) /\ NewTime(p) # bgb_clock
      BY <1>1, <1>3, <2>1, Zenon
      DEF TimestampStage, callback_timestamp, CallsTimestamp
    <3> QED
      BY <1>1, <3>1, Zenon DEF bgb_loop_timestamp
  <2>2. CASE ~CallsTimestamp(p)
    <3>1. UNCHANGED reset /\ NewTime(p) = bgb_clock
      BY <1>3, <2>2, Zenon DEF TimestampStage, CallsTimestamp, clockVars
    <3> QED
      BY <1>1, <3>1, Zenon
  <2> QED
    BY <2>1, <2>2
<1>6. NewTime(p) = IF WentBack(bgb_clock, PacketTime(p)) THEN bgb_clock
                                                         ELSE PacketTime(p)
  BY <1>3, Zenon DEF NewTime
<1>7. CASE p.cmd \in Stamped
  BY <1>2, <1>4, <1>5, <1>6, <1>7, Zenon
<1>8. CASE p.cmd \notin Stamped
  BY <1>2, <1>4, <1>5, <1>6, <1>8, Zenon
<1> QED
  BY <1>7, <1>8

\* The window of a reset is exact, without an assumption on the emulator: of
\* the packets handled in the main loop those whose stamp is more than ResetGap
\* ahead of the program's clock, and more than BackGap behind it, request a
\* restart of the adapter, and no others do.
THEOREM WindowExact == Spec => ResetWindow
<1> DEFINE p == Head(toAdapter)
           Window == Handles /\ pc' = "handle"
                       => (reset' <=> p.cmd \in {"SYNC1", "SYNC3"} /\ ~Usual(p.ts))
<1>1. TypeOK /\ MainInv /\ [Next]_vars => [Window]_vars
  <2> SUFFICES ASSUME TypeOK, MainInv, [Next]_vars, Handles, pc' = "handle"
               PROVE  reset' <=> p.cmd \in {"SYNC1", "SYNC3"} /\ ~Usual(p.ts)
    OBVIOUS
  <2>1. pc = "loop" /\ (bgb_loop_sync1 \/ bgb_loop_other)
    BY HandlesPacket
  <2>2. PICK q : Receives(q) /\ TimestampStage(q)
    BY <2>1 DEF bgb_loop_sync1, bgb_loop_other
  <2>3. q = p /\ q \in Packet
    BY <2>2, ReceivesType DEF Receives
  <2>4. reset' <=> /\ q.cmd \in Stamped
                   /\ ~WentBack(bgb_clock, q.ts) /\ Jumped(q.ts, bgb_clock)
    BY <2>1, <2>2, <2>3, LoopTests
  <2>5. q.ts \in Uint32 /\ bgb_clock \in Uint32
    BY <2>3 DEF Packet, TypeOK
  <2>6. Usual(q.ts) <=> WentBack(bgb_clock, q.ts) \/ ~Jumped(q.ts, bgb_clock)
    BY <2>5, WindowIs, Zenon DEF Usual
  <2> QED
    BY <2>3, <2>4, <2>6, Zenon DEF Stamped
<1> QED
  BY <1>1, TypeCorrect, MainInvariant, PTL DEF Spec, ResetWindow
-----------------------------------------------------------------------------
(* Timers *)

\* What a timer has seen, within the lap, is its true age.
TimersTrue ==
  \A tm \in Timers :
    age[tm] < Half => Elapsed(bgb_clock, bgb_clock_latch[tm]) = age[tm]

\* TimerExact is not inductive: it speaks of the delays only, and a delay does
\* not tell how old a timer is.
TimerInv ==
  /\ bgb_clock \in EmuTime
  /\ \A tm \in Timers : bgb_clock_latch[tm] \in EmuTime
  /\ pc \in Started /\ ~reset => TimersTrue

\* A time is the ticks elapsed since another one, added to that.
LEMMA LapBack ==
  ASSUME NEW t \in EmuTime, NEW s \in EmuTime
  PROVE  Elapsed(t, s) \in EmuTime /\ t = (s + Elapsed(t, s)) % Half
<1> USE ClockAssumption DEF EmuTime, Elapsed
<1>1. CASE t >= s
  <2>1. (t - s) % Half = t - s
    BY <1>1
  <2>2. t % Half = t
    OBVIOUS
  <2> QED
    BY <1>1, <2>1, <2>2
<1>2. CASE t < s
  <2>1. (t - s) % Half = t - s + Half
    BY <1>2
  <2>2. (t + Half) % Half = t
    OBVIOUS
  <2> QED
    BY <1>2, <2>1, <2>2
<1> QED
  BY <1>1, <1>2

\* No time elapses at a timer latched now.
LEMMA LapZero == \A t \in EmuTime : Elapsed(t, t) = 0
  BY ClockAssumption DEF Elapsed, EmuTime

\* Timers are latched with the program's clock, and aged as it advances.
LEMMA OlderTrue ==
  ASSUME TypeOK, TimerInv, TimersTrue, NEW L \in SUBSET Timers,
         NEW now \in EmuTime, bgb_clock' = now,
         impl_time_latch(L), Older(L, Elapsed(now, bgb_clock))
  PROVE  TimersTrue'
<1> DEFINE d == Elapsed(now, bgb_clock)
<1>1. d \in EmuTime /\ d \in Nat /\ now = (bgb_clock + d) % Half /\ Half \in Nat
  BY LapBack, ClockAssumption DEF TimerInv, EmuTime
<1> HIDE DEF d
<1> SUFFICES ASSUME NEW tm \in Timers, age'[tm] < Half
             PROVE  Elapsed(now, bgb_clock_latch'[tm]) = age'[tm]
  BY DEF TimersTrue
<1>2. age[tm] \in 0 .. Half /\ bgb_clock \in EmuTime /\ bgb_clock_latch[tm] \in EmuTime
  BY DEF TypeOK, TimerInv
<1>3. bgb_clock_latch'[tm] = IF tm \in L THEN bgb_clock ELSE bgb_clock_latch[tm]
  BY DEF impl_time_latch
<1>4. d \in Nat /\ Half \in Nat /\ age[tm] \in Nat
  <2>1. d \in Nat /\ Half \in Nat
    BY <1>1, Zenon
  <2>2. age[tm] \in 0 .. Half
    BY <1>2, Zenon
  <2> QED
    BY <2>1, <2>2
<1>5. age'[tm] = (IF tm \in L THEN 0 ELSE age[tm]) + d
  <2> DEFINE a == (IF tm \in L THEN 0 ELSE age[tm]) + d
  <2>1. age'[tm] = IF a < Half THEN a ELSE Half
    BY DEF Older, d
  <2> HIDE DEF a
  <2> QED
    BY <1>4, <2>1 DEF a
<1>6. CASE tm \in L
  <2>1. age'[tm] = 0 + d /\ bgb_clock_latch'[tm] = bgb_clock
    BY <1>3, <1>5, <1>6, Zenon
  <2>2. 0 + d = d
    BY <1>4
  <2> QED
    BY <2>1, <2>2 DEF d
<1>7. CASE tm \notin L
  <2>0. age'[tm] = age[tm] + d
    BY <1>5, <1>7, Zenon
  <2>1. age[tm] + d < Half /\ age[tm] < Half
    BY <1>4, <2>0
  <2>2. Elapsed(bgb_clock, bgb_clock_latch[tm]) = age[tm]
    BY <2>1 DEF TimersTrue
  <2>3. Elapsed(bgb_clock, bgb_clock_latch[tm]) + d < Half
    BY <2>1, <2>2
  <2>4. Elapsed((bgb_clock + d) % Half, bgb_clock_latch[tm])
          = Elapsed(bgb_clock, bgb_clock_latch[tm]) + d
    BY <1>1, <1>2, <2>3, LapMore, Zenon
  <2> QED
    BY <1>1, <1>3, <1>5, <1>7, <2>2, <2>4
<1> QED
  BY <1>6, <1>7

\* After mobile_start every timer is new or without a claim.
LEMMA StartTrue ==
  ASSUME TimerInv, NEW L \in SUBSET Timers, mobile_start(L), UNCHANGED bgb_clock
  PROVE  TimersTrue'
<1> SUFFICES ASSUME NEW tm \in Timers, age'[tm] < Half
             PROVE  Elapsed(bgb_clock, bgb_clock_latch'[tm]) = age'[tm]
  BY DEF TimersTrue
<1>1. age'[tm] = IF tm \in L THEN 0 ELSE Half
  BY DEF mobile_start
<1>2. tm \in L
  BY <1>1, ClockAssumption
<1>3. bgb_clock_latch'[tm] = bgb_clock
  BY <1>2 DEF mobile_start, impl_time_latch
<1> QED
  BY <1>1, <1>2, <1>3, LapZero DEF TimerInv

\* Latching keeps the latches within the emulator's lap.
LEMMA LatchTime ==
  ASSUME TimerInv, NEW L \in SUBSET Timers, impl_time_latch(L)
  PROVE  \A tm \in Timers : bgb_clock_latch'[tm] \in EmuTime
  BY DEF TimerInv, impl_time_latch

\* A packet handled by the loop keeps the timers true.
LEMMA LoopTimer ==
  ASSUME TypeOK, MainInv, ChainInv, TimerInv, bgb_loop_sync1 \/ bgb_loop_other
  PROVE  TimerInv'
<1>1. PICK p, ret : /\ Looping /\ AfterLoop /\ Receives(p)
                    /\ LinkHandles(p, ret) /\ TimestampStage(p)
  BY DEF bgb_loop_sync1, bgb_loop_other
<1>2. PICK L \in SUBSET Timers : impl_time_latch(L) /\ Older(L, Advance)
  <2>1. CASE bgb_loop_sync1
    BY <2>1 DEF bgb_loop_sync1, bgb_loop_transfer
  <2>2. CASE bgb_loop_other
    <3>1. bgb_clock_latch' = bgb_clock_latch /\ Older({}, Advance)
      BY <2>2 DEF bgb_loop_other
    <3>2. bgb_clock_latch \in [Timers -> Uint32]
      BY DEF TypeOK
    <3>3. impl_time_latch({})
      BY <3>1, <3>2 DEF impl_time_latch
    <3> QED
      BY <3>1, <3>3
  <2> QED
    BY <2>1, <2>2
<1>3. \A tm \in Timers : bgb_clock_latch'[tm] \in EmuTime
  BY <1>2, LatchTime
<1>4. CASE pc = "clock"
  <2>1. bgb_clock' = NewTime(p)
    BY <1>1, TimestampAgrees, Zenon DEF LinkHandles
  <2>2. Chain /\ ~bgb_clock_init
    BY <1>1, <1>4 DEF ChainInv, Over, Terminal, Looping
  <2>3. NewTime(p) = trail[1].now /\ trail[1].now \in EmuTime
    BY <1>1, <1>4, <2>2, FirstTime, HeadOfChain
  <2>4. pc' \notin Started
    BY <1>1, <1>4 DEF AfterLoop, Started
  <2> QED
    BY <1>3, <2>1, <2>3, <2>4 DEF TimerInv
<1>5. CASE pc = "loop"
  <2>1. /\ trail[1] = Head(trail)
        /\ trail[1].from \in EmuTime /\ trail[1].now \in EmuTime
        /\ bgb_clock = trail[1].from
        /\ bgb_clock' = trail[1].now
        /\ reset' <=> trail[1].cut
    BY <1>5, LoopFollows
  <2>2. TimersTrue
    BY <1>5 DEF TimerInv, Started, MainInv, ResetPrompt
  <2>3. ~reset' => TimersTrue'
    <3> SUFFICES ASSUME ~reset' PROVE TimersTrue'
      OBVIOUS
    <3>1. Advance = Elapsed(trail[1].now, bgb_clock)
      BY <2>1 DEF Advance
    <3> QED
      BY <1>2, <2>1, <2>2, <3>1, OlderTrue
  <2> QED
    BY <1>3, <2>1, <2>3 DEF TimerInv
<1> QED
  BY <1>1, <1>4, <1>5 DEF Looping

\* The other steps of the program keep them true.
LEMMA MainTimer ==
  ASSUME TypeOK, MainInv, TimerInv,
         \/ InitSteps \/ bgb_loop_nodata \/ bgb_loop_false \/ main_start
         \/ mobile_handle_loop \/ mobile_actions_process \/ socket_wait
         \/ main_break \/ main_stop \/ signal_int \/ SigPipe
  PROVE  TimerInv'
<1>1. UNCHANGED bgb_clock
  BY DEF InitSteps, bgb_loop_nodata, bgb_loop_false, main_start,
    mobile_handle_loop, mobile_actions_process, socket_wait, main_break,
    main_stop, signal_int, SigPipe, userVars, clockVars
<1>2. CASE main_start
  <2>1. PICK L \in SUBSET Timers : mobile_start(L)
    BY <1>2 DEF main_start
  <2> QED
    BY <1>1, <2>1, StartTrue, LatchTime, Zenon DEF TimerInv, mobile_start
<1>3. CASE mobile_handle_loop
  <2>1. PICK L \in SUBSET Timers : RestartIfReset(L)
    BY <1>3 DEF mobile_handle_loop
  <2>2. CASE reset
    BY <1>1, <2>1, <2>2, StartTrue, LatchTime DEF TimerInv, mobile_start,
      RestartIfReset
  <2>3. CASE ~reset
    <3>1. UNCHANGED <<bgb_clock_latch, age>>
      BY <2>1, <2>3 DEF RestartIfReset, timerVars
    <3>2. TimersTrue
      BY <1>3, <2>3 DEF TimerInv, mobile_handle_loop, Started
    <3>3. TimersTrue'
      BY <1>1, <3>1, <3>2 DEF TimersTrue
    <3> QED
      BY <1>1, <3>1, <3>3 DEF TimerInv
  <2> QED
    BY <2>2, <2>3
<1>4. CASE mobile_actions_process
  <2>1. PICK L \in SUBSET Timers : impl_time_latch(L) /\ Older(L, 0)
    BY <1>4 DEF mobile_actions_process
  <2>2. bgb_clock \in EmuTime /\ Elapsed(bgb_clock, bgb_clock) = 0
    BY LapZero DEF TimerInv
  <2>3. TimersTrue
    BY <1>4 DEF mobile_actions_process, TimerInv, Started, MainInv, ResetPrompt
  <2>4. TimersTrue'
    BY <1>1, <2>1, <2>2, <2>3, OlderTrue
  <2> QED
    BY <1>1, <2>1, <2>4, LatchTime DEF TimerInv
<1>5. CASE \/ InitSteps \/ bgb_loop_nodata \/ bgb_loop_false \/ socket_wait
           \/ main_break \/ main_stop \/ signal_int \/ SigPipe
  <2>1. UNCHANGED <<bgb_clock, bgb_clock_latch, age, reset>>
    BY <1>5, Zenon DEF InitSteps, bgb_loop_nodata, bgb_loop_false, socket_wait,
      main_break, main_stop, signal_int, SigPipe, userVars, clockVars, timerVars
  <2>2. pc' \in Started => pc \in Started
    <3>1. CASE InitSteps
      BY <3>1, Zenon DEF InitSteps, bgb_init_greet, bgb_init_version, bgb_init_status,
        bgb_init_fails, Started
    <3>2. CASE bgb_loop_nodata \/ bgb_loop_false \/ socket_wait
               \/ main_break \/ main_stop
      BY <3>2 DEF bgb_loop_nodata, bgb_loop_false, FailPhase, socket_wait,
        main_break, main_stop, Started
    <3>3. CASE signal_int \/ SigPipe
      BY <3>3 DEF signal_int, FailPhase, SigPipe, bgb_send_kills, Started
    <3> QED
      BY <1>5, <3>1, <3>2, <3>3
  <2> QED
    BY <2>1, <2>2 DEF TimerInv, TimersTrue
<1> QED
  BY <1>2, <1>3, <1>4, <1>5

\* Timers are exact: within one lap of the emulator's clock and across its
\* wrap, impl_time_check_ms says that ms milliseconds have passed exactly when
\* the emulator's clock has advanced by as many ticks since the timer was
\* latched.
THEOREM TimersExact == ASSUME ClearCuts PROVE Spec => []TimerExact
<1>1. Init => TimerInv
  <2> SUFFICES ASSUME Init PROVE TimerInv
    OBVIOUS
  <2>1. 0 \in EmuTime
    BY ClockAssumption DEF EmuTime
  <2> QED
    BY <2>1 DEF Init, TimerInv, Started
<1>2. TypeOK /\ MainInv /\ ChainInv /\ TimerInv /\ [Next]_vars => TimerInv'
  <2> SUFFICES ASSUME TypeOK, MainInv, ChainInv, TimerInv, [Next]_vars PROVE TimerInv'
    OBVIOUS
  <2>1. CASE Program
    BY <2>1, LoopTimer, MainTimer DEF Program
  <2>2. CASE signal_int
    BY <2>2, MainTimer
  <2>3. CASE EmulatorStep \/ Terminated \/ UNCHANGED vars
    <3>1. UNCHANGED <<pc, reset, bgb_clock, bgb_clock_latch, age>>
      BY <2>3 DEF EmulatorStep, Terminated, vars, userVars, clockVars, timerVars
    <3> QED
      BY <3>1, Zenon DEF TimerInv, TimersTrue
  <2> QED
    BY <2>1, <2>2, <2>3 DEF Next
<1>3. TimerInv => TimerExact
  BY DEF TimerInv, TimersTrue, TimerExact, impl_time_check_ms
<1> QED
  BY <1>1, <1>2, <1>3, TypeCorrect, MainInvariant, ChainInvariant, PTL DEF Spec
=============================================================================
