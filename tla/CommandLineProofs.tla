------------------------- MODULE CommandLineProofs -------------------------
(***************************************************************************)
(* CommandLine for command lines of any length, tokens of any size and any *)
(* characters: the loop over argv, which knows only where it is, agrees    *)
(* with what the whole of argv says.                                       *)
(*                                                                         *)
(* What a recursive function computes is proved by the least counter-      *)
(* example: a set of natural numbers that is not empty has a least member. *)
(***************************************************************************)
EXTENDS CommandLine, WellFoundedInduction, TLAPS

\* Induction, for a set instead of a predicate.
LEMMA LeastNatural ==
  ASSUME NEW T \in SUBSET Nat, T # {}
  PROVE  \E n \in T : \A m \in T : n <= m
<1> DEFINE R == OpToRel(<, Nat)
<1>1. \A x, y \in Nat : <<x, y>> \in R <=> x < y
  BY DEF OpToRel
<1>2. IsWellFoundedOn(R, Nat)
  BY NatLessThanWellFounded, Zenon
<1> HIDE DEF R
<1>3. PICK n \in T : \A m \in T : ~(<<m, n>> \in R)
  BY <1>2, WFMin, Zenon
<1>4. ASSUME NEW m \in T
      PROVE  n <= m
  <2>1. n \in Nat /\ m \in Nat
    OBVIOUS
  <2>2. ~(m < n)
    BY <1>1, <1>3, <2>1, Zenon
  <2> QED
    BY <2>1, <2>2
<1> QED
  BY <1>4

\* A set of indices that is not empty has a last one and a first one, which Max
\* and Min find.
LEMMA MaxMinIs ==
  ASSUME NEW n \in Nat, NEW T \in SUBSET (1 .. n), T # {}
  PROVE  /\ Max(T) \in T /\ \A i \in T : i <= Max(T)
         /\ Min(T) \in T /\ \A i \in T : Min(T) <= i
<1>1. PICK k \in T : \A i \in T : k <= i
  <2>1. T \in SUBSET Nat
    OBVIOUS
  <2> QED
    BY <2>1, LeastNatural
<1> DEFINE U == {n - i : i \in T}
<1>2. U \in SUBSET Nat /\ U # {}
  OBVIOUS
<1>3. PICK u \in U : \A v \in U : u <= v
  BY <1>2, LeastNatural, Zenon
<1>4. PICK m \in T : u = n - m
  OBVIOUS
<1>5. ASSUME NEW i \in T
      PROVE  m >= i
  <2>1. n - i \in U
    OBVIOUS
  <2>2. u <= n - i
    BY <1>3, <2>1
  <2> QED
    BY <1>4, <2>2
<1>6. Max(T) \in T /\ \A i \in T : Max(T) >= i
  BY <1>5, Zenon DEF Max
<1>7. Min(T) \in T /\ \A i \in T : Min(T) <= i
  BY <1>1, Zenon DEF Min
<1> QED
  BY <1>6, <1>7
-----------------------------------------------------------------------------
(* main_parse_hex *)

\* The characters that are digits, and their values.
LEMMA DigitIs ==
  ASSUME NEW c \in 0 .. 127
  PROVE  /\ digit(c) \in -1 .. 15
         /\ digit(c) # -1 => IsDigit(c, digit(c))
         /\ digit(c) = -1 => \A n \in 0 .. 15 : ~IsDigit(c, n)
<1>1. CASE c \in 48 .. 57
  <2>1. digit(c) = c - 48
    BY <1>1 DEF digit
  <2> QED
    BY <1>1, <2>1 DEF IsDigit
<1>2. CASE c \in 65 .. 70
  <2>1. digit(c) = c - 55
    BY <1>2 DEF digit
  <2> QED
    BY <1>2, <2>1 DEF IsDigit
<1>3. CASE c \in 97 .. 102
  <2>1. digit(c) = c - 87
    BY <1>3 DEF digit
  <2> QED
    BY <1>3, <2>1 DEF IsDigit
<1>4. CASE c \notin 48 .. 57 /\ c \notin 65 .. 70 /\ c \notin 97 .. 102
  <2>1. digit(c) = -1
    BY <1>4 DEF digit
  <2> QED
    BY <1>4, <2>1 DEF IsDigit
<1> QED
  BY <1>1, <1>2, <1>3, <1>4

\* The loop of main_parse_hex, before turn i.
HexLoop(buf, s) ==
  CHOOSE f : f = [i \in -1 .. (2 * size - 1) |->
                    IF i = -1 THEN [ok |-> TRUE, x |-> 0, buf |-> buf]
                    ELSE Turn(f[i - 1], i, s[i])]

\* The loop makes its turns one after the other.
LEMMA HexLoopIs ==
  ASSUME NEW buf, NEW s
  PROVE  HexLoop(buf, s) = [i \in -1 .. (2 * size - 1) |->
                              IF i = -1 THEN [ok |-> TRUE, x |-> 0, buf |-> buf]
                              ELSE Turn(HexLoop(buf, s)[i - 1], i, s[i])]
<1> DEFINE start == [ok |-> TRUE, x |-> 0, buf |-> buf]
           Is(f, n) == f = [i \in -1 .. (n - 1) |->
                              IF i = -1 THEN start ELSE Turn(f[i - 1], i, s[i])]
           T == {n \in Nat : ~(\E f : Is(f, n))}
<1>1. T = {}
  <2> SUFFICES ASSUME T # {} PROVE FALSE
    OBVIOUS
  <2>1. PICK n \in T : \A m \in T : n <= m
    BY LeastNatural, Zenon
  <2>2. n \in Nat /\ ~(\E f : Is(f, n))
    OBVIOUS
  <2>3. n # 0
    <3>1. Is([i \in {-1} |-> start], 0)
      OBVIOUS
    <3> QED
      BY <2>2, <3>1, Zenon
  <2>4. n - 1 \in Nat /\ n - 1 \notin T
    <3>1. n - 1 \in Nat /\ ~(n <= n - 1)
      BY <2>2, <2>3
    <3> QED
      BY <2>1, <3>1, Zenon
  <2>5. PICK f : Is(f, n - 1)
    BY <2>4
  <2> DEFINE g == [i \in -1 .. (n - 1) |->
                     IF i = -1 THEN start ELSE Turn(f[i - 1], i, s[i])]
  <2>6. ASSUME NEW i \in -1 .. ((n - 1) - 1)
        PROVE  g[i] = f[i]
    <3>1. i \in -1 .. (n - 1)
      BY <2>2
    <3>2. g[i] = IF i = -1 THEN start ELSE Turn(f[i - 1], i, s[i])
      BY <3>1
    <3>3. f[i] = IF i = -1 THEN start ELSE Turn(f[i - 1], i, s[i])
      BY <2>5, Zenon
    <3> QED
      BY <3>2, <3>3
  <2>7. Is(g, n)
    <3>1. ASSUME NEW i \in -1 .. (n - 1), i # -1
          PROVE  g[i - 1] = f[i - 1]
      <4>1. i - 1 \in -1 .. ((n - 1) - 1)
        BY <2>2, <3>1
      <4> QED
        BY <2>6, <4>1, Zenon
    <3> QED
      BY <3>1, Zenon
  <2> QED
    BY <2>2, <2>7, Zenon
<1>2. 2 * size \in Nat
  BY HexAssumption
<1>3. \E f : Is(f, 2 * size)
  BY <1>1, <1>2
<1> QED
  BY <1>3, Zenon DEF HexLoop

\* What the local variables l hold after turn i for the characters s: whether
\* all of them were digits, the digit that waits for a second one, and the bytes
\* of the pairs that are complete.
Locals == [ok : BOOLEAN, x : 0 .. 255, buf : Buffer]

ByteOf(s, k) == 16 * digit(s[2 * k]) + digit(s[2 * k + 1])

HexRead(s, i, l) ==
  /\ l \in Locals
  /\ l.ok <=> \A k \in 0 .. i : digit(s[k]) # -1
  /\ l.ok => l.x = IF i % 2 = 0 THEN digit(s[i]) ELSE 0
  /\ l.ok => \A k \in 0 .. (size - 1) : 2 * k + 1 <= i => l.buf[k] = ByteOf(s, k)

\* A digit more than one that waits, or than none, fits a byte.
LEMMA ShiftIs ==
  ASSUME NEW h \in 0 .. 15, NEW d \in 0 .. 15
  PROVE  shifted(h, d) = 16 * h + d /\ shifted(h, d) \in 0 .. 255
BY DEF shifted

\* A turn of the loop.
LEMMA TurnReads ==
  ASSUME NEW s \in [Index -> Char], NEW i \in 0 .. (2 * size - 1),
         NEW l, HexRead(s, i - 1, l)
  PROVE  HexRead(s, i, Turn(l, i, s[i]))
<1> DEFINE d == digit(s[i])
           r == Turn(l, i, s[i])
<1>1. size \in Nat /\ i \in Nat /\ i \in Index /\ i \in Int
  BY HexAssumption DEF Index
<1>2. \A k \in Index : digit(s[k]) \in -1 .. 15
  BY HexAssumption, DigitIs, Zenon
<1>3. d \in -1 .. 15
  BY <1>1, <1>2
<1>4. /\ l \in Locals /\ l.ok \in BOOLEAN /\ l.x \in 0 .. 255 /\ l.buf \in Buffer
      /\ l.ok <=> \A k \in 0 .. (i - 1) : digit(s[k]) # -1
  BY DEF HexRead, Locals
<1>5. 0 .. i = (0 .. (i - 1)) \cup {i}
  BY <1>1
<1>6. CASE ~l.ok \/ d = -1
  <2>1. r = [l EXCEPT !.ok = FALSE]
    BY <1>6 DEF Turn
  <2>2. r \in Locals /\ r.ok = FALSE
    BY <1>4, <2>1, Zenon DEF Locals
  <2>3. ~(\A k \in 0 .. i : digit(s[k]) # -1)
    BY <1>4, <1>5, <1>6
  <2> HIDE DEF r
  <2> QED
    BY <2>2, <2>3 DEF HexRead, r
<1>7. CASE l.ok /\ d # -1 /\ i % 2 = 1
  <2>1. PICK m \in 0 .. (size - 1) : i = 2 * m + 1
    <3>1. i = 2 * (i \div 2) + 1 /\ i \div 2 \in 0 .. (size - 1)
      BY <1>1, <1>7
    <3> QED
      BY <3>1
  <2>2. i \div 2 = m /\ m \in Int /\ i - 1 = 2 * m /\ (i - 1) % 2 = 0
    BY <1>1, <2>1
  <2>3. i - 1 \in Index /\ i - 1 \in 0 .. (i - 1)
    BY <1>1, <2>1 DEF Index
  <2>4. l.x = digit(s[i - 1]) /\ l.x \in 0 .. 15
    <3>1. l.x = digit(s[i - 1])
      BY <1>7, <2>2 DEF HexRead
    <3>2. digit(s[i - 1]) \in -1 .. 15 /\ digit(s[i - 1]) # -1
      <4>1. digit(s[i - 1]) \in -1 .. 15
        BY <1>2, <2>3
      <4>2. digit(s[i - 1]) # -1
        BY <1>4, <1>7, <2>3
      <4> QED
        BY <4>1, <4>2
    <3> QED
      BY <3>1, <3>2
  <2>5. shifted(l.x, d) = ByteOf(s, m) /\ shifted(l.x, d) \in 0 .. 255
    <3>1. d \in 0 .. 15
      BY <1>3, <1>7
    <3>2. shifted(l.x, d) = 16 * l.x + d /\ shifted(l.x, d) \in 0 .. 255
      BY <2>4, <3>1, ShiftIs, Zenon
    <3> QED
      BY <2>1, <2>2, <2>4, <3>2, Zenon DEF ByteOf
  <2>6. r = [l EXCEPT !.x = 0, !.buf[m] = shifted(l.x, d)]
    BY <1>7, <2>2, Zenon DEF Turn
  <2>7. /\ r \in Locals /\ r.ok = l.ok /\ r.x = 0
        /\ r.buf = [l.buf EXCEPT ![m] = shifted(l.x, d)]
    <3> DEFINE b == [l.buf EXCEPT ![m] = shifted(l.x, d)]
    <3>1. b \in Buffer
      BY <1>4, <2>5, Zenon DEF Buffer
    <3>2. r = [ok |-> l.ok, x |-> 0, buf |-> b]
      BY <1>4, <2>6, Zenon DEF Locals
    <3> HIDE DEF b, r
    <3>3. r \in Locals /\ r.ok = l.ok /\ r.x = 0 /\ r.buf = b
      BY <1>4, <3>1, <3>2 DEF Locals
    <3> QED
      BY <3>3 DEF b
  <2>8. \A k \in 0 .. i : digit(s[k]) # -1
    BY <1>4, <1>5, <1>7
  <2>9. ASSUME NEW k \in 0 .. (size - 1), 2 * k + 1 <= i
        PROVE  r.buf[k] = ByteOf(s, k)
    <3>1. CASE k = m
      <4>1. [l.buf EXCEPT ![m] = shifted(l.x, d)][m] = ByteOf(s, m)
        BY <1>4, <2>5, Zenon DEF Buffer
      <4> QED
        BY <2>7, <3>1, <4>1, Zenon
    <3>2. CASE k # m
      <4>1. 2 * k + 1 <= i - 1
        BY <2>1, <2>9, <3>2
      <4>2. l.buf[k] = ByteOf(s, k)
        BY <1>7, <4>1 DEF HexRead
      <4> QED
        BY <1>4, <2>7, <3>2, <4>2 DEF Buffer
    <3> QED
      BY <3>1, <3>2
  <2>10. i % 2 # 0
    BY <1>7
  <2> HIDE DEF r
  <2> QED
    BY <1>7, <2>7, <2>8, <2>9, <2>10 DEF HexRead, r
<1>8. CASE l.ok /\ d # -1 /\ i % 2 # 1
  <2>1. i % 2 = 0 /\ (i - 1) % 2 # 0
    BY <1>1, <1>8
  <2>2. l.x = 0
    BY <1>8, <2>1 DEF HexRead
  <2>3. shifted(l.x, d) = d /\ d \in 0 .. 15
    <3>1. d \in 0 .. 15 /\ 0 \in 0 .. 15
      BY <1>3, <1>8
    <3>2. shifted(0, d) = 16 * 0 + d
      BY <3>1, ShiftIs, Zenon
    <3> QED
      BY <2>2, <3>1, <3>2
  <2>4. r = [l EXCEPT !.x = d]
    BY <1>8, <2>1, <2>3 DEF Turn
  <2>5. r \in Locals /\ r.ok = l.ok /\ r.x = d /\ r.buf = l.buf
    BY <1>4, <2>3, <2>4 DEF Locals
  <2>6. \A k \in 0 .. i : digit(s[k]) # -1
    BY <1>4, <1>5, <1>8
  <2>7. ASSUME NEW k \in 0 .. (size - 1), 2 * k + 1 <= i
        PROVE  r.buf[k] = ByteOf(s, k)
    <3>1. 2 * k + 1 <= i - 1
      BY <1>1, <2>1, <2>7
    <3> QED
      BY <1>8, <2>5, <3>1 DEF HexRead
  <2> HIDE DEF r
  <2> QED
    BY <1>8, <2>1, <2>5, <2>6, <2>7 DEF HexRead, r
<1> QED
  BY <1>4, <1>6, <1>7, <1>8

\* main_parse_hex accepts a token exactly if all its characters are digits, and
\* the buffer then holds the bytes they write, for tokens of every size and
\* whatever it held before.
THEOREM ParseHex ==
  ASSUME NEW buf \in Buffer, NEW s \in [Index -> Char]
  PROVE  /\ main_parse_hex(buf, s).buf \in Buffer
         /\ main_parse_hex(buf, s).ok <=> IsHex(s)
         /\ main_parse_hex(buf, s).ok => IsHexOf(s, main_parse_hex(buf, s).buf)
<1> DEFINE f == HexLoop(buf, s)
           n == 2 * size - 1
           r == f[n]
<1>1. size \in Nat \ {0} /\ n \in Nat
  BY HexAssumption
<1>2. main_parse_hex(buf, s) = r
  BY DEF main_parse_hex, HexLoop
<1>3. \A i \in -1 .. n : f[i] = IF i = -1 THEN [ok |-> TRUE, x |-> 0, buf |-> buf]
                                ELSE Turn(f[i - 1], i, s[i])
  <2> SUFFICES ASSUME NEW i \in -1 .. (2 * size - 1)
               PROVE  HexLoop(buf, s)[i] =
                        IF i = -1 THEN [ok |-> TRUE, x |-> 0, buf |-> buf]
                        ELSE Turn(HexLoop(buf, s)[i - 1], i, s[i])
    BY Zenon
  <2>1. HexLoop(buf, s) = [j \in -1 .. (2 * size - 1) |->
                             IF j = -1 THEN [ok |-> TRUE, x |-> 0, buf |-> buf]
                             ELSE Turn(HexLoop(buf, s)[j - 1], j, s[j])]
    BY HexLoopIs
  <2> QED
    BY <2>1, Zenon
<1> HIDE DEF f
<1> DEFINE T == {i \in Nat : i <= n /\ ~HexRead(s, i, f[i])}
<1>4. HexRead(s, -1, f[-1])
  <2>1. f[-1] = [ok |-> TRUE, x |-> 0, buf |-> buf]
    <3>1. -1 \in -1 .. n
      BY <1>1
    <3> HIDE DEF n
    <3> QED
      BY <1>3, <3>1, Zenon
  <2>2. f[-1] \in Locals /\ f[-1].ok = TRUE /\ f[-1].x = 0
    BY <2>1 DEF Locals
  <2>3. (-1) % 2 # 0 /\ 0 .. (-1) = {}
    OBVIOUS
  <2>4. \A k \in 0 .. (size - 1) : ~(2 * k + 1 <= -1)
    BY <1>1
  <2> QED
    BY <2>2, <2>3, <2>4 DEF HexRead
<1>5. T = {}
  <2> SUFFICES ASSUME T # {} PROVE FALSE
    OBVIOUS
  <2>1. PICK i \in T : \A j \in T : i <= j
    BY LeastNatural, Zenon
  <2>2. i \in Nat /\ i <= n /\ ~HexRead(s, i, f[i])
    OBVIOUS
  <2>3. HexRead(s, i - 1, f[i - 1])
    <3>1. CASE i = 0
      BY <1>4, <3>1
    <3>2. CASE i # 0
      <4>1. i - 1 \in Nat /\ i - 1 <= n /\ i - 1 \notin T
        BY <1>1, <2>1, <2>2, <3>2
      <4> QED
        BY <4>1
    <3> QED
      BY <3>1, <3>2
  <2>4. i \in 0 .. (2 * size - 1) /\ i \in -1 .. n /\ i # -1
    BY <1>1, <2>2
  <2>5. f[i] = Turn(f[i - 1], i, s[i])
    BY <1>3, <2>4
  <2>6. HexRead(s, i, f[i])
    BY <2>3, <2>4, <2>5, TurnReads
  <2> QED
    BY <2>2, <2>6
<1>6. HexRead(s, n, r)
  BY <1>1, <1>5
<1>7. \A k \in Index : s[k] \in 0 .. 127
  BY HexAssumption, Zenon
<1>8. 0 .. n = Index
  BY DEF Index
<1>9. r.ok <=> IsHex(s)
  <2>1. r.ok <=> \A k \in Index : digit(s[k]) # -1
    BY <1>6, <1>8, Zenon DEF HexRead
  <2>2. \A k \in Index : digit(s[k]) # -1 <=> \E m \in 0 .. 15 : IsDigit(s[k], m)
    <3> SUFFICES ASSUME NEW k \in Index
                 PROVE  digit(s[k]) # -1 <=> \E m \in 0 .. 15 : IsDigit(s[k], m)
      OBVIOUS
    <3>1. /\ digit(s[k]) \in -1 .. 15
          /\ digit(s[k]) # -1 => IsDigit(s[k], digit(s[k]))
          /\ digit(s[k]) = -1 => \A m \in 0 .. 15 : ~IsDigit(s[k], m)
      BY <1>7, DigitIs, Zenon
    <3>2. digit(s[k]) # -1 => digit(s[k]) \in 0 .. 15
      BY <3>1
    <3> QED
      BY <3>1, <3>2
  <2> QED
    BY <2>1, <2>2 DEF IsHex
<1>10. ASSUME r.ok
       PROVE  IsHexOf(s, r.buf)
  <2> SUFFICES ASSUME NEW k \in 0 .. (size - 1)
               PROVE  \E high, low \in 0 .. 15 :
                        /\ IsDigit(s[2 * k], high) /\ IsDigit(s[2 * k + 1], low)
                        /\ r.buf[k] = 16 * high + low
    BY Zenon DEF IsHexOf
  <2> DEFINE high == digit(s[2 * k])
             low == digit(s[2 * k + 1])
  <2>1. 2 * k \in Index /\ 2 * k + 1 \in Index /\ 2 * k + 1 <= n
    BY <1>1 DEF Index
  <2>2. high # -1 /\ low # -1
    BY <1>6, <1>8, <1>10, <2>1, Zenon DEF HexRead
  <2>3. high \in 0 .. 15 /\ IsDigit(s[2 * k], high)
    <3>1. high \in -1 .. 15 /\ IsDigit(s[2 * k], high)
      BY <1>7, <2>1, <2>2, DigitIs, Zenon
    <3> QED
      BY <2>2, <3>1
  <2>4. low \in 0 .. 15 /\ IsDigit(s[2 * k + 1], low)
    <3>1. low \in -1 .. 15 /\ IsDigit(s[2 * k + 1], low)
      BY <1>7, <2>1, <2>2, DigitIs, Zenon
    <3> QED
      BY <2>2, <3>1
  <2>5. r.buf[k] = 16 * high + low
    BY <1>6, <1>10, <2>1 DEF HexRead, ByteOf
  <2> HIDE DEF high, low
  <2> QED
    BY <2>3, <2>4, <2>5
<1>11. r.buf \in Buffer
  BY <1>6 DEF HexRead, Locals
<1> QED
  BY <1>2, <1>9, <1>10, <1>11
-----------------------------------------------------------------------------
(* The words of argv *)

\* What IsOption says of the i-th word of a, if f says it of the ones before.
OptionHere(a, f, i) ==
  /\ i > 0
  /\ a[i] \in Options
  /\ \/ i = 1
     \/ f[i - 1] /\ a[i - 1] \notin WithParam
     \/ i > 2 /\ f[i - 2] /\ a[i - 2] \in WithParam

OptionsOf(a) == CHOOSE f : f = [i \in 0 .. Len(a) |-> OptionHere(a, f, i)]

\* IsOption depends on argv alone.
LEMMA IsOptionIs == IsOption = OptionsOf(argv)
BY DEF IsOption, OptionsOf, OptionHere

\* The recursion of IsOption unfolds.
LEMMA OptionsUnfold ==
  ASSUME NEW a, Len(a) \in Nat
  PROVE  \A i \in 0 .. Len(a) : OptionsOf(a)[i] = OptionHere(a, OptionsOf(a), i)
<1> DEFINE Is(f, n) == f = [i \in 0 .. n |-> OptionHere(a, f, i)]
           T == {n \in Nat : ~(\E f : Is(f, n))}
<1>1. T = {}
  <2> SUFFICES ASSUME T # {} PROVE FALSE
    OBVIOUS
  <2>1. PICK n \in T : \A m \in T : n <= m
    BY LeastNatural, Zenon
  <2>2. n \in Nat /\ ~(\E f : Is(f, n))
    OBVIOUS
  <2>3. n # 0
    <3> DEFINE g == [i \in 0 .. 0 |-> FALSE]
    <3>1. \A i \in 0 .. 0 : OptionHere(a, g, i) = FALSE
      BY DEF OptionHere
    <3> HIDE DEF OptionHere
    <3>2. Is(g, 0)
      BY <3>1, Zenon
    <3> QED
      BY <2>2, <3>2
  <2>4. n - 1 \in Nat /\ n - 1 \notin T
    BY <2>1, <2>2, <2>3
  <2>5. PICK f : Is(f, n - 1)
    BY <2>4
  <2> DEFINE g == [i \in 0 .. n |-> OptionHere(a, f, i)]
  <2>6. ASSUME NEW i \in 0 .. (n - 1)
        PROVE  g[i] = f[i]
    <3>1. i \in 0 .. n
      BY <2>2
    <3>2. g[i] = OptionHere(a, f, i)
      BY <3>1, Zenon
    <3>3. f[i] = OptionHere(a, f, i)
      BY <2>5, Zenon
    <3> QED
      BY <3>2, <3>3
  <2> HIDE DEF g
  <2>7. ASSUME NEW i \in 0 .. n
        PROVE  OptionHere(a, g, i) = OptionHere(a, f, i)
    <3>1. i > 0 => i - 1 \in 0 .. (n - 1)
      BY <2>2
    <3>2. i > 0 => g[i - 1] = f[i - 1]
      BY <2>6, <3>1
    <3>3. i > 2 => i - 2 \in 0 .. (n - 1)
      BY <2>2
    <3>4. i > 2 => g[i - 2] = f[i - 2]
      BY <2>6, <3>3
    <3> QED
      BY <3>2, <3>4 DEF OptionHere
  <2>8. Is(g, n)
    BY <2>7 DEF g
  <2> QED
    BY <2>2, <2>8
<1>2. \E f : Is(f, Len(a))
  BY <1>1
<1>3. Is(OptionsOf(a), Len(a))
  BY <1>2, Zenon DEF OptionsOf
<1> SUFFICES ASSUME NEW i \in 0 .. Len(a)
             PROVE  OptionsOf(a)[i] = OptionHere(a, OptionsOf(a), i)
  OBVIOUS
<1> QED
  BY <1>3, Zenon

\* A command line is a sequence of words.
LEMMA ArgvIsSeq ==
  ASSUME NEW a \in Argv
  PROVE  /\ a \in Seq(Options \cup {"--"} \cup Words)
         /\ Len(a) \in Nat /\ Len(a) <= MaxArgs /\ DOMAIN a = 1 .. Len(a)
<1>1. PICK n \in 0 .. MaxArgs : a \in [1 .. n -> Options \cup {"--"} \cup Words]
  BY DEF Argv
<1>2. n \in Nat /\ n <= MaxArgs
  BY ArgsAssumption
<1> HIDE DEF Words, Options
<1>3. a \in Seq(Options \cup {"--"} \cup Words)
  BY <1>1, <1>2
<1>4. Len(a) = n
  BY <1>1, <1>2, <1>3
<1> QED
  BY <1>1, <1>2, <1>3, <1>4

\* The word i is an option or an option's parameter.
Used(i) == IsOption[i] \/ (i > 1 /\ IsOption[i - 1] /\ argv[i - 1] \in WithParam)

\* The words before i are options and their parameters, all complete.
Boundary(i) ==
  \/ i = 1
  \/ IsOption[i - 1] /\ argv[i - 1] \notin WithParam
  \/ i > 2 /\ IsOption[i - 2] /\ argv[i - 2] \in WithParam

\* An option is where the loop would look for one.
LEMMA OptionIffBoundary ==
  ASSUME argv \in Argv, NEW i \in 1 .. Len(argv)
  PROVE  IsOption[i] <=> argv[i] \in Options /\ Boundary(i)
<1>1. Len(argv) \in Nat
  BY ArgvIsSeq
<1>2. OptionsOf(argv)[i] = OptionHere(argv, OptionsOf(argv), i)
  BY <1>1, OptionsUnfold
<1>3. IsOption[i] = OptionHere(argv, IsOption, i)
  BY <1>2, IsOptionIs
<1>4. i > 0
  OBVIOUS
<1> HIDE DEF IsOption
<1> QED
  BY <1>3, <1>4 DEF OptionHere, Boundary

\* No word is an option and another option's parameter.
LEMMA NotBoth ==
  ASSUME argv \in Argv, NEW i \in 2 .. Len(argv), IsOption[i], IsOption[i - 1]
  PROVE  argv[i - 1] \notin WithParam
<1> DEFINE T == {k \in Nat : /\ k >= 2 /\ k <= Len(argv) /\ IsOption[k]
                             /\ IsOption[k - 1] /\ argv[k - 1] \in WithParam}
<1> SUFFICES ASSUME T # {} PROVE FALSE
  <2>1. i \in Nat /\ i >= 2 /\ i <= Len(argv)
    BY ArgvIsSeq
  <2> QED
    BY <2>1
<1>1. PICK k \in T : \A m \in T : k <= m
  BY LeastNatural, Zenon
<1>2. /\ k \in Nat /\ k >= 2 /\ k <= Len(argv) /\ Len(argv) \in Nat
      /\ IsOption[k] /\ IsOption[k - 1] /\ argv[k - 1] \in WithParam
  BY ArgvIsSeq
<1>3. Boundary(k)
  BY <1>2, OptionIffBoundary
<1>4. k > 2 /\ IsOption[k - 2] /\ argv[k - 2] \in WithParam
  BY <1>2, <1>3 DEF Boundary
<1>5. k - 1 \in Nat /\ k - 1 >= 2 /\ k - 1 <= Len(argv) /\ (k - 1) - 1 = k - 2
  BY <1>2, <1>4
<1>6. k - 1 \in T
  BY <1>2, <1>4, <1>5
<1>7. k <= k - 1
  BY <1>1, <1>6, Zenon
<1> QED
  BY <1>2, <1>7

\* Before a place where the loop stands there is no option that waits for its
\* parameter.
LEMMA NoneWaits ==
  ASSUME argv \in Argv, NEW i \in 2 .. (Len(argv) + 1), Boundary(i),
         IsOption[i - 1]
  PROVE  argv[i - 1] \notin WithParam
<1>1. Len(argv) \in Nat
  BY ArgvIsSeq
<1>2. CASE i > 2 /\ IsOption[i - 2] /\ argv[i - 2] \in WithParam
  <2>1. i - 1 \in 2 .. Len(argv) /\ (i - 1) - 1 = i - 2
    BY <1>1, <1>2
  <2> QED
    BY <1>2, <2>1, NotBoth
<1> QED
  BY <1>2 DEF Boundary

\* Where the loop finds no option, none follows.
LEMMA NoneFollows ==
  ASSUME argv \in Argv, NEW i \in 1 .. (Len(argv) + 1), Boundary(i),
         i <= Len(argv) => argv[i] \notin Options
  PROVE  \A k \in 1 .. Len(argv) : IsOption[k] => k < i
<1> DEFINE T == {k \in Nat : i <= k /\ k <= Len(argv) /\ IsOption[k]}
<1>1. Len(argv) \in Nat /\ i \in Nat /\ i >= 1
  BY ArgvIsSeq
<1> SUFFICES ASSUME T # {} PROVE FALSE
  BY <1>1
<1>2. PICK k \in T : \A m \in T : k <= m
  BY LeastNatural, Zenon
<1>3. k \in Nat /\ i <= k /\ k <= Len(argv) /\ IsOption[k] /\ k \in 1 .. Len(argv)
  BY <1>1
<1>4. argv[k] \in Options /\ Boundary(k)
  BY <1>3, OptionIffBoundary
<1>5. k # i
  BY <1>3, <1>4
<1>6. k - 1 \in Nat /\ i <= k - 1 /\ k - 1 <= Len(argv) /\ k # 1
  BY <1>1, <1>3, <1>5
<1>7. ~IsOption[k - 1]
  <2>1. k - 1 \notin T
    BY <1>2, <1>3
  <2> QED
    BY <1>6, <2>1
<1>8. k > 2 /\ IsOption[k - 2] /\ argv[k - 2] \in WithParam
  BY <1>4, <1>6, <1>7 DEF Boundary
<1>9. k - 2 \in Nat /\ k - 2 <= Len(argv) /\ k - 2 \notin T
  BY <1>1, <1>2, <1>3, <1>8
<1>10. k - 2 = i - 1
  <2>1. ~(i <= k - 2)
    BY <1>8, <1>9
  <2> QED
    BY <1>1, <1>3, <1>6, <2>1
<1>11. i \in 2 .. (Len(argv) + 1)
  BY <1>1, <1>8, <1>10
<1>12. argv[i - 1] \notin WithParam
  BY <1>8, <1>10, <1>11, NoneWaits
<1> QED
  BY <1>8, <1>10, <1>12
-----------------------------------------------------------------------------
(* The loop over argv *)

\* Whether main accepts w as a parameter of o: it fits, or is an empty DNS port.
Accepts(o, w) == Fits(o, w) \/ (o = "--dns_port" /\ w = "")

\* The options that do end the program, and that the first of them does.
Stopping == {i \in DOMAIN argv : IsOption[i] /\
               \/ argv[i] \in {"-h", "-x"}
               \/ argv[i] \in WithParam /\ (i = Len(argv) \/ ~Accepts(argv[i], argv[i + 1]))}

StopsAtFirst ==
  status # "parsing" =>
    status = IF Stopping = {} THEN "done"
             ELSE IF argv[Min(Stopping)] = "-h" THEN "help" ELSE "usage"

\* The places before at where the option o is given, and the parameters of the
\* options that the loop has seen, none for one it has not.
Before(o) == {i \in Given(o) : i < at}

LastParam == [o \in WithParam |-> IF Before(o) = {} THEN "none"
                                  ELSE argv[Max(Before(o)) + 1]]

\* The local variables when the parameters are last: the ports of the DNS
\* addresses, the host and the port are still to come.
ReadOr(w, default, value) == IF w = "none" THEN default ELSE value

Updated(w) == ReadOr(w, FALSE, TRUE)
TokenOf(w) == IF w = "" THEN "NULL" ELSE "token_buf"

Address(w, p) == [type |-> pton(w), host |-> w, port |-> p]

Locally(c, d, u, d1, d2, dp, pp, r, tu, t, b) ==
  [config |-> c, device |-> d, unmetered |-> u, dns1 |-> d1, dns2 |-> d2,
   dns_port |-> dp, p2p_port |-> pp, relay |-> r, token_update |-> tu, token |-> t,
   token_buf |-> b, host |-> Defaults.host, port |-> Defaults.port]

\* The parameters when the last of o is now w.
With(last, o, w) == [v \in WithParam |-> IF v = o THEN w ELSE last[v]]

Kept(last, u, b) ==
  Locally(
    ReadOr(last["-c"], "config.bin", last["-c"]),
    ReadOr(last["--device"], 8, strtol(last["--device"])),
    u,
    ReadOr(last["--dns1"], NoAddr, Address(last["--dns1"], 0)),
    ReadOr(last["--dns2"], NoAddr, Address(last["--dns2"], 0)),
    ReadOr(last["--dns_port"], MOBILE_DNS_PORT, strtol(last["--dns_port"])),
    ReadOr(last["--p2p_port"], MOBILE_DEFAULT_P2P_PORT, strtol(last["--p2p_port"])),
    ReadOr(last["--relay"], NoAddr, Address(last["--relay"], MOBILE_DEFAULT_RELAY_PORT)),
    Updated(last["--relay-token"]),
    ReadOr(last["--relay-token"], "NULL", TokenOf(last["--relay-token"])),
    b)

\* While the loop runs, the words before at are options and their parameters, none
\* of them ends the program, and the variables are what the last of each says.
LoopInv ==
  status = "parsing" =>
    /\ Boundary(at)
    /\ \A i \in 1 .. (at - 1) : Used(i)
    /\ \A i \in Stopping : at <= i
    /\ \A o \in {"--dns1", "--dns2", "--relay"} : LastParam[o] \in {"none", "addr4", "addr6"}
    /\ opt = Kept(LastParam, Before("--unmetered") # {}, opt.token_buf)
    /\ LastParam["--relay-token"] \in {"none", ""} \/ IsHexOf(str, opt.token_buf)

\* The inductive invariant.
LineInv ==
  TypeOK /\ LoopInv /\ StopsAtFirst /\ LastCounts /\ HostIsFirst /\ TokenRight

\* What is said of argv stays as it is while argv does.
LEMMA ArgvStays ==
  ASSUME argv' = argv, str' = str
  PROVE  /\ IsOption' = IsOption /\ Stopping' = Stopping
         /\ \A o : Given(o)' = Given(o)
         /\ \A i : (Boundary(i)' <=> Boundary(i)) /\ (Used(i)' <=> Used(i))
<1>1. IsOption' = OptionsOf(argv')
  BY DEF IsOption, OptionsOf, OptionHere
<1>2. IsOption' = IsOption
  BY <1>1, IsOptionIs
<1> HIDE DEF IsOption
<1>3. \A o, w : Accepts(o, w)' <=> Accepts(o, w)
  BY DEF Accepts, Fits, IsHex
<1>4. Stopping' = Stopping
  BY <1>2, <1>3, Zenon DEF Stopping
<1>5. \A o : Given(o)' = Given(o)
  BY <1>2 DEF Given
<1>6. \A i : (Boundary(i)' <=> Boundary(i)) /\ (Used(i)' <=> Used(i))
  BY <1>2 DEF Boundary, Used
<1> QED
  BY <1>2, <1>4, <1>5, <1>6

\* The parameters that LastParam has are words of argv; "none" is none.
LEMMA WordsAre ==
  ASSUME argv \in Argv, NEW i \in 1 .. Len(argv)
  PROVE  argv[i] # "none" /\ argv[i] \in Options \cup {"--"} \cup Words
<1>1. argv[i] \in Options \cup {"--"} \cup Words
  BY ArgvIsSeq
<1> QED
  BY <1>1, Zenon DEF Options, WithParam, Words

\* One option more, with its parameter if it has one: at goes to the place
\* after it.
LEMMA Advances ==
  ASSUME argv \in Argv, at \in 1 .. Len(argv), argv[at] \in Options, Boundary(at),
         \A i \in 1 .. (at - 1) : Used(i),
         \A i \in Stopping : at <= i, at \notin Stopping,
         argv' = argv, str' = str,
         at' = IF argv[at] \in WithParam THEN at + 2 ELSE at + 1
  PROVE  /\ at' \in 1 .. (Len(argv) + 1)
         /\ Boundary(at)'
         /\ \A i \in 1 .. (at' - 1) : Used(i)'
         /\ \A i \in Stopping' : at' <= i
         /\ \A o : Before(o)' = IF o = argv[at] THEN Before(o) \cup {at} ELSE Before(o)
<1>1. PICK p : p = at
  OBVIOUS
<1>2. PICK n : n = at'
  OBVIOUS
<1>3. /\ p \in Nat /\ p >= 1 /\ p <= Len(argv)
      /\ Len(argv) \in Nat /\ DOMAIN argv = 1 .. Len(argv)
  BY <1>1, ArgvIsSeq
<1>4. IsOption[p]
  BY <1>1, OptionIffBoundary
<1> HIDE DEF IsOption
<1>5. ASSUME argv[p] \in WithParam
      PROVE  p < Len(argv)
  <2>1. p \in DOMAIN argv
    BY <1>3
  <2>2. p # Len(argv)
    BY <1>1, <1>4, <1>5, <2>1 DEF Stopping
  <2>3. \A k \in Nat : p <= k /\ p # k => p < k
    BY <1>3
  <2> QED
    BY <1>3, <2>2, <2>3, Zenon
<1>6. n = IF argv[p] \in WithParam THEN p + 2 ELSE p + 1
  BY <1>1, <1>2
<1>7. n \in 1 .. (Len(argv) + 1) /\ n \in Nat /\ n > p /\ n <= p + 2
  BY <1>3, <1>5, <1>6
<1>8. Boundary(n)
  <2>1. CASE argv[p] \in WithParam
    BY <1>3, <1>4, <1>6, <2>1 DEF Boundary
  <2>2. CASE argv[p] \notin WithParam
    BY <1>3, <1>4, <1>6, <2>2 DEF Boundary
  <2> QED
    BY <2>1, <2>2
<1>9. ASSUME NEW i \in 1 .. Len(argv), IsOption[i], i < n
      PROVE  i <= p
  <2>1. CASE i = p + 1
    <3>1. argv[p] \in WithParam
      BY <1>3, <1>6, <1>9, <2>1
    <3>2. i \in 2 .. Len(argv) /\ i - 1 = p
      BY <1>3, <2>1
    <3> QED
      BY <1>4, <1>9, <3>1, <3>2, NotBoth
  <2> QED
    BY <1>3, <1>7, <1>9, <2>1
<1>10. ASSUME NEW i \in 1 .. (n - 1)
       PROVE  Used(i)
  <2>1. CASE i < p
    BY <1>1, <1>3, <2>1
  <2>2. CASE i = p
    BY <1>4, <2>2 DEF Used
  <2>3. CASE i > p
    <3>1. argv[p] \in WithParam /\ i = p + 1
      BY <1>3, <1>6, <1>10, <2>3
    <3>2. i > 1 /\ i - 1 = p
      BY <1>3, <3>1
    <3> QED
      BY <1>4, <3>1, <3>2 DEF Used
  <2> QED
    BY <1>3, <2>1, <2>2, <2>3
<1>11. ASSUME NEW i \in Stopping
       PROVE  n <= i
  <2>1. i \in 1 .. Len(argv) /\ IsOption[i] /\ i # p /\ p <= i
    BY <1>1, <1>3, Zenon DEF Stopping
  <2> QED
    BY <1>3, <1>7, <1>9, <2>1
<1>12. ASSUME NEW o
       PROVE  Before(o)' = IF o = argv[at] THEN Before(o) \cup {at} ELSE Before(o)
  <2>1. Before(o)' = {i \in Given(o) : i < n}
    BY <1>2, ArgvStays DEF Before
  <2>2. Before(o) = {i \in Given(o) : i < p}
    BY <1>1 DEF Before
  <2>3. \A i \in Given(o) : i \in 1 .. Len(argv) /\ IsOption[i] /\ argv[i] = o
    BY <1>3 DEF Given
  <2>4. p \in Given(o) <=> o = argv[p]
    BY <1>3, <1>4 DEF Given
  <2>5. \A i \in Given(o) : i < n <=> i < p \/ i = p
    <3> SUFFICES ASSUME NEW i \in Given(o)
                 PROVE  i < n <=> i < p \/ i = p
      OBVIOUS
    <3>1. i \in 1 .. Len(argv) /\ IsOption[i]
      BY <2>3
    <3>2. i < n => i <= p
      BY <1>9, <3>1
    <3> QED
      BY <1>3, <1>7, <3>1, <3>2
  <2>6. CASE o = argv[p]
    BY <1>1, <2>1, <2>2, <2>4, <2>5, <2>6
  <2>7. CASE o # argv[p]
    BY <1>1, <2>1, <2>2, <2>4, <2>5, <2>7
  <2> QED
    BY <2>6, <2>7
<1>13. Boundary(at)'
  <2>1. IsOption' = IsOption
    BY ArgvStays
  <2> QED
    BY <1>2, <1>8, <2>1 DEF Boundary
<1> QED
  BY <1>2, <1>7, <1>10, <1>11, <1>12, <1>13, ArgvStays

\* The parameter of the option that is passed is now the last of that option.
LEMMA LastParamIs ==
  ASSUME argv \in Argv, at \in 1 .. Len(argv), argv' = argv,
         \A o : Before(o)' = IF o = argv[at] THEN Before(o) \cup {at} ELSE Before(o)
  PROVE  LastParam' = With(LastParam, argv[at], argv[at + 1])
<1>1. Len(argv) \in Nat /\ DOMAIN argv = 1 .. Len(argv)
  BY ArgvIsSeq
<1>2. Max(Before(argv[at]) \cup {at}) = at
  <2> DEFINE T == Before(argv[at]) \cup {at}
  <2>1. \A i \in Before(argv[at]) : i \in 1 .. Len(argv) /\ i < at
    BY <1>1 DEF Before, Given
  <2>2. T \in SUBSET (1 .. Len(argv)) /\ T # {}
    BY <2>1
  <2>3. Max(T) \in T /\ \A i \in T : i <= Max(T)
    BY <1>1, <2>2, MaxMinIs, Zenon
  <2> HIDE DEF Max
  <2>4. at <= Max(T)
    BY <2>3, Zenon
  <2> QED
    BY <2>1, <2>3, <2>4
<1>3. LastParam' = [o \in WithParam |-> IF Before(o)' = {} THEN "none"
                                        ELSE argv[Max(Before(o)') + 1]]
  BY DEF LastParam
<1>4. ASSUME NEW o \in WithParam
      PROVE  (IF Before(o)' = {} THEN "none" ELSE argv[Max(Before(o)') + 1])
               = IF o = argv[at] THEN argv[at + 1] ELSE LastParam[o]
  <2> HIDE DEF Max, Before, WithParam
  <2>1. CASE o = argv[at]
    <3>1. Before(o)' = Before(argv[at]) \cup {at} /\ Before(o)' # {}
      BY <2>1
    <3>2. Max(Before(o)') = at
      BY <1>2, <3>1
    <3> QED
      BY <2>1, <3>1, <3>2
  <2>2. CASE o # argv[at]
    <3>1. Before(o)' = Before(o)
      BY <2>2
    <3>2. LastParam[o] = IF Before(o) = {} THEN "none" ELSE argv[Max(Before(o)) + 1]
      BY DEF LastParam
    <3> QED
      BY <2>2, <3>1, <3>2
  <2> QED
    BY <2>1, <2>2
<1> QED
  BY <1>3, <1>4 DEF With

\* The variables after the option o with the parameter w.
LEMMA KeptAfter ==
  ASSUME NEW last, NEW u, NEW b, NEW w, w # "none"
  PROVE  /\ [Kept(last, u, b) EXCEPT !.config = w] = Kept(With(last, "-c", w), u, b)
         /\ [Kept(last, u, b) EXCEPT !.device = strtol(w)]
              = Kept(With(last, "--device", w), u, b)
         /\ [Kept(last, u, b) EXCEPT !.dns1 = Address(w, 0)]
              = Kept(With(last, "--dns1", w), u, b)
         /\ [Kept(last, u, b) EXCEPT !.dns2 = Address(w, 0)]
              = Kept(With(last, "--dns2", w), u, b)
         /\ [Kept(last, u, b) EXCEPT !.dns_port = strtol(w)]
              = Kept(With(last, "--dns_port", w), u, b)
         /\ [Kept(last, u, b) EXCEPT !.p2p_port = strtol(w)]
              = Kept(With(last, "--p2p_port", w), u, b)
         /\ [Kept(last, u, b) EXCEPT !.relay = Address(w, MOBILE_DEFAULT_RELAY_PORT)]
              = Kept(With(last, "--relay", w), u, b)
<1> DEFINE with(o) == With(last, o, w)
           kept == Kept(last, u, b)
<1>1. \A o, v \in WithParam : with(o)[v] = IF v = o THEN w ELSE last[v]
  BY DEF With
<1>2. /\ "-c" \in WithParam /\ "--device" \in WithParam /\ "--dns1" \in WithParam
      /\ "--dns2" \in WithParam /\ "--dns_port" \in WithParam
      /\ "--p2p_port" \in WithParam /\ "--relay" \in WithParam
      /\ "--relay-token" \in WithParam
  BY DEF WithParam
<1> HIDE DEF with
<1>3. \A default, value : ReadOr(w, default, value) = value
  BY DEF ReadOr
<1> DEFINE c == ReadOr(last["-c"], "config.bin", last["-c"])
           d == ReadOr(last["--device"], 8, strtol(last["--device"]))
           d1 == ReadOr(last["--dns1"], NoAddr, Address(last["--dns1"], 0))
           d2 == ReadOr(last["--dns2"], NoAddr, Address(last["--dns2"], 0))
           dp == ReadOr(last["--dns_port"], MOBILE_DNS_PORT, strtol(last["--dns_port"]))
           pp == ReadOr(last["--p2p_port"], MOBILE_DEFAULT_P2P_PORT,
                        strtol(last["--p2p_port"]))
           r == ReadOr(last["--relay"], NoAddr,
                       Address(last["--relay"], MOBILE_DEFAULT_RELAY_PORT))
           tu == Updated(last["--relay-token"])
           t == ReadOr(last["--relay-token"], "NULL", TokenOf(last["--relay-token"]))
<1>4. kept = Locally(c, d, u, d1, d2, dp, pp, r, tu, t, b)
  BY DEF Kept
<1>5. [kept EXCEPT !.config = w] = Kept(with("-c"), u, b)
  <2>1. Kept(with("-c"), u, b) = Locally(w, d, u, d1, d2, dp, pp, r, tu, t, b)
    <3>1. /\ with("-c")["-c"] = w
          /\ \A v \in WithParam : v # "-c" => with("-c")[v] = last[v]
      BY <1>1, <1>2
    <3> QED
      BY <1>2, <1>3, <3>1 DEF Kept
  <2> HIDE DEF kept, c, d, d1, d2, dp, pp, r, tu, t
  <2> QED
    BY <1>4, <2>1 DEF Locally
<1>6. [kept EXCEPT !.device = strtol(w)] = Kept(with("--device"), u, b)
  <2>1. Kept(with("--device"), u, b) = Locally(c, strtol(w), u, d1, d2, dp, pp, r, tu, t, b)
    <3>1. /\ with("--device")["--device"] = w
          /\ \A v \in WithParam : v # "--device" => with("--device")[v] = last[v]
      BY <1>1, <1>2
    <3> QED
      BY <1>2, <1>3, <3>1 DEF Kept
  <2> HIDE DEF kept, c, d, d1, d2, dp, pp, r, tu, t
  <2> QED
    BY <1>4, <2>1 DEF Locally
<1>7. [kept EXCEPT !.dns1 = Address(w, 0)] = Kept(with("--dns1"), u, b)
  <2>1. Kept(with("--dns1"), u, b) = Locally(c, d, u, Address(w, 0), d2, dp, pp, r, tu, t, b)
    <3>1. /\ with("--dns1")["--dns1"] = w
          /\ \A v \in WithParam : v # "--dns1" => with("--dns1")[v] = last[v]
      BY <1>1, <1>2
    <3> QED
      BY <1>2, <1>3, <3>1 DEF Kept
  <2> HIDE DEF kept, c, d, d1, d2, dp, pp, r, tu, t
  <2> QED
    BY <1>4, <2>1 DEF Locally
<1>8. [kept EXCEPT !.dns2 = Address(w, 0)] = Kept(with("--dns2"), u, b)
  <2>1. Kept(with("--dns2"), u, b) = Locally(c, d, u, d1, Address(w, 0), dp, pp, r, tu, t, b)
    <3>1. /\ with("--dns2")["--dns2"] = w
          /\ \A v \in WithParam : v # "--dns2" => with("--dns2")[v] = last[v]
      BY <1>1, <1>2
    <3> QED
      BY <1>2, <1>3, <3>1 DEF Kept
  <2> HIDE DEF kept, c, d, d1, d2, dp, pp, r, tu, t
  <2> QED
    BY <1>4, <2>1 DEF Locally
<1>9. [kept EXCEPT !.dns_port = strtol(w)] = Kept(with("--dns_port"), u, b)
  <2>1. Kept(with("--dns_port"), u, b) = Locally(c, d, u, d1, d2, strtol(w), pp, r, tu, t, b)
    <3>1. /\ with("--dns_port")["--dns_port"] = w
          /\ \A v \in WithParam : v # "--dns_port" => with("--dns_port")[v] = last[v]
      BY <1>1, <1>2
    <3> QED
      BY <1>2, <1>3, <3>1 DEF Kept
  <2> HIDE DEF kept, c, d, d1, d2, dp, pp, r, tu, t
  <2> QED
    BY <1>4, <2>1 DEF Locally
<1>10. [kept EXCEPT !.p2p_port = strtol(w)] = Kept(with("--p2p_port"), u, b)
  <2>1. Kept(with("--p2p_port"), u, b) = Locally(c, d, u, d1, d2, dp, strtol(w), r, tu, t, b)
    <3>1. /\ with("--p2p_port")["--p2p_port"] = w
          /\ \A v \in WithParam : v # "--p2p_port" => with("--p2p_port")[v] = last[v]
      BY <1>1, <1>2
    <3> QED
      BY <1>2, <1>3, <3>1 DEF Kept
  <2> HIDE DEF kept, c, d, d1, d2, dp, pp, r, tu, t
  <2> QED
    BY <1>4, <2>1 DEF Locally
<1>11. [kept EXCEPT !.relay = Address(w, MOBILE_DEFAULT_RELAY_PORT)]
         = Kept(with("--relay"), u, b)
  <2>1. Kept(with("--relay"), u, b)
          = Locally(c, d, u, d1, d2, dp, pp, Address(w, MOBILE_DEFAULT_RELAY_PORT), tu, t, b)
    <3>1. /\ with("--relay")["--relay"] = w
          /\ \A v \in WithParam : v # "--relay" => with("--relay")[v] = last[v]
      BY <1>1, <1>2
    <3> QED
      BY <1>2, <1>3, <3>1 DEF Kept
  <2> HIDE DEF kept, c, d, d1, d2, dp, pp, r, tu, t
  <2> QED
    BY <1>4, <2>1 DEF Locally
<1> HIDE DEF kept
<1> QED
  BY <1>5, <1>6, <1>7, <1>8, <1>9, <1>10, <1>11 DEF with, kept

\* x is TRUE, which the provers take better from a name.
IsTrue(x) == x = TRUE

SetToken(opts, x, y, e) == [opts EXCEPT !.token_update = x, !.token = y, !.token_buf = e]

\* The variables after a relay token.
LEMMA KeptToken ==
  ASSUME NEW last, NEW u, NEW b, NEW w, w # "none", NEW e, NEW x, IsTrue(x),
         NEW y, y = TokenOf(w)
  PROVE  SetToken(Kept(last, u, b), x, y, e) = Kept(With(last, "--relay-token", w), u, e)
<1> DEFINE with(o) == With(last, o, w)
           kept == Kept(last, u, b)
<1>1. \A o, v \in WithParam : with(o)[v] = IF v = o THEN w ELSE last[v]
  BY DEF With
<1>2. /\ "-c" \in WithParam /\ "--device" \in WithParam /\ "--dns1" \in WithParam
      /\ "--dns2" \in WithParam /\ "--dns_port" \in WithParam
      /\ "--p2p_port" \in WithParam /\ "--relay" \in WithParam
      /\ "--relay-token" \in WithParam
  BY DEF WithParam
<1> HIDE DEF with
<1>3. \A default, value : ReadOr(w, default, value) = value
  BY DEF ReadOr
<1> DEFINE c == ReadOr(last["-c"], "config.bin", last["-c"])
           d == ReadOr(last["--device"], 8, strtol(last["--device"]))
           d1 == ReadOr(last["--dns1"], NoAddr, Address(last["--dns1"], 0))
           d2 == ReadOr(last["--dns2"], NoAddr, Address(last["--dns2"], 0))
           dp == ReadOr(last["--dns_port"], MOBILE_DNS_PORT, strtol(last["--dns_port"]))
           pp == ReadOr(last["--p2p_port"], MOBILE_DEFAULT_P2P_PORT,
                        strtol(last["--p2p_port"]))
           r == ReadOr(last["--relay"], NoAddr,
                       Address(last["--relay"], MOBILE_DEFAULT_RELAY_PORT))
           tu == Updated(last["--relay-token"])
           t == ReadOr(last["--relay-token"], "NULL", TokenOf(last["--relay-token"]))
<1>4. kept = Locally(c, d, u, d1, d2, dp, pp, r, tu, t, b)
  BY DEF Kept
<1>5. Kept(with("--relay-token"), u, e) = Locally(c, d, u, d1, d2, dp, pp, r, x, y, e)
  <2>1. Kept(with("--relay-token"), u, e)
          = Locally(c, d, u, d1, d2, dp, pp, r, TRUE, TokenOf(w), e)
    BY <1>1, <1>2, <1>3, Zenon DEF Kept, Updated
  <2> QED
    BY <2>1, Zenon DEF IsTrue
<1> HIDE DEF kept, c, d, d1, d2, dp, pp, r, tu, t
<1>6. [kept EXCEPT !.token_update = x, !.token = y, !.token_buf = e]
        = Locally(c, d, u, d1, d2, dp, pp, r, x, y, e)
  <2>1. [kept EXCEPT !.token_update = x] = Locally(c, d, u, d1, d2, dp, pp, r, x, t, b)
    BY <1>4 DEF Locally
  <2>2. [Locally(c, d, u, d1, d2, dp, pp, r, x, t, b) EXCEPT !.token = y]
          = Locally(c, d, u, d1, d2, dp, pp, r, x, y, b)
    BY DEF Locally
  <2>3. [Locally(c, d, u, d1, d2, dp, pp, r, x, y, b) EXCEPT !.token_buf = e]
          = Locally(c, d, u, d1, d2, dp, pp, r, x, y, e)
    BY DEF Locally
  <2> QED
    BY <2>1, <2>2, <2>3, Zenon
<1> QED
  BY <1>5, <1>6 DEF with, kept, SetToken

\* The buffer of the token is b.
LEMMA KeptBuf ==
  ASSUME NEW last, NEW u, NEW b
  PROVE  Kept(last, u, b).token_buf = b
BY DEF Kept, Locally

\* An address that is set, or that is not.
LEMMA AddressTyped ==
  ASSUME NEW w \in {"none", "addr4", "addr6"}, NEW p \in Nat
  PROVE  ReadOr(w, NoAddr, Address(w, p)) \in Addr
<1>1. CASE w = "none"
  BY <1>1 DEF ReadOr, NoAddr, Addr
<1>2. CASE w # "none"
  <2>1. PICK t : t = pton(w)
    OBVIOUS
  <2>2. t \in {"NONE", "IPV4", "IPV6"} /\ w \in Words \cup {"none"}
    BY <1>2, <2>1, Zenon DEF pton, Words
  <2>3. [type |-> t, host |-> w, port |-> p] \in Addr
    BY <2>2 DEF Addr
  <2> QED
    BY <1>2, <2>1, <2>3 DEF ReadOr, Address
<1> QED
  BY <1>1, <1>2

\* The variables have their types whatever the parameters are.
LEMMA KeptTyped ==
  ASSUME NEW last, NEW u, NEW b \in Buffer,
         \A o \in {"--dns1", "--dns2", "--relay"} : last[o] \in {"none", "addr4", "addr6"}
  PROVE  /\ {Kept(last, u, b).dns1, Kept(last, u, b).dns2, Kept(last, u, b).relay}
              \subseteq Addr
         /\ {Kept(last, u, b).dns_port, Kept(last, u, b).p2p_port,
             Kept(last, u, b).device} \subseteq Nat
         /\ Kept(last, u, b).token_buf \in Buffer
<1>1. \A w : strtol(w) \in Nat
  BY DEF strtol
<1>2. \A w \in {"none", "addr4", "addr6"}, p \in Nat :
        ReadOr(w, NoAddr, Address(w, p)) \in Addr
  BY AddressTyped
<1>3. /\ Kept(last, u, b).dns1 = ReadOr(last["--dns1"], NoAddr, Address(last["--dns1"], 0))
      /\ Kept(last, u, b).dns2 = ReadOr(last["--dns2"], NoAddr, Address(last["--dns2"], 0))
      /\ Kept(last, u, b).relay = ReadOr(last["--relay"], NoAddr,
                                         Address(last["--relay"], MOBILE_DEFAULT_RELAY_PORT))
      /\ Kept(last, u, b).token_buf = b
  BY Zenon DEF Kept, Locally
<1>4. /\ Kept(last, u, b).dns_port \in Nat /\ Kept(last, u, b).p2p_port \in Nat
      /\ Kept(last, u, b).device \in Nat
  BY <1>1 DEF Kept, Locally, ReadOr, MOBILE_DNS_PORT, MOBILE_DEFAULT_P2P_PORT
<1>5. MOBILE_DEFAULT_RELAY_PORT \in Nat
  BY DEF MOBILE_DEFAULT_RELAY_PORT
<1> QED
  BY <1>2, <1>3, <1>4, <1>5

\* Where the loop stands.
LEMMA InLoop ==
  ASSUME LineInv, More
  PROVE  status = "parsing" /\ argv \in Argv /\ at \in 1 .. Len(argv)
<1>1. argv \in Argv /\ at \in 1 .. (Len(argv) + 1) /\ status = "parsing" /\ at <= Len(argv)
  BY DEF LineInv, TypeOK, More
<1>2. Len(argv) \in Nat
  BY <1>1, ArgvIsSeq
<1> QED
  BY <1>1, <1>2

\* An option ends the program where the loop finds it: it is the first that does.
LEMMA EndsHere ==
  ASSUME LineInv, More, at \in Stopping,
         Exit(IF argv[at] = "-h" THEN "help" ELSE "usage")
  PROVE  LineInv'
<1> DEFINE how == IF argv[at] = "-h" THEN "help" ELSE "usage"
<1>1. /\ status = "parsing" /\ argv \in Argv /\ \A i \in Stopping : at <= i
      /\ status' = how /\ argv' = argv /\ str' = str /\ at' = at /\ opt' = opt
  BY Zenon DEF LineInv, LoopInv, TypeOK, More, Exit
<1>2. how \in {"help", "usage"}
  OBVIOUS
<1>3. Stopping' = Stopping
  BY <1>1, ArgvStays
<1>4. Min(Stopping) = at
  <2>1. Len(argv) \in Nat /\ DOMAIN argv = 1 .. Len(argv)
    BY <1>1, ArgvIsSeq
  <2>2. Stopping \in SUBSET (1 .. Len(argv)) /\ Stopping # {}
    BY <2>1 DEF Stopping
  <2> HIDE DEF Stopping
  <2>3. Min(Stopping) \in Stopping /\ \A i \in Stopping : Min(Stopping) <= i
    BY <2>1, <2>2, MaxMinIs, Zenon
  <2> HIDE DEF Min
  <2>4. at <= Min(Stopping) /\ Min(Stopping) <= at /\ Min(Stopping) \in Int /\ at \in Int
    <3>1. Min(Stopping) \in 1 .. Len(argv) /\ at \in 1 .. Len(argv)
      BY <2>2, <2>3, Zenon
    <3>2. at <= Min(Stopping) /\ Min(Stopping) <= at
      BY <1>1, <2>3
    <3> QED
      BY <2>1, <3>1, <3>2
  <2> QED
    BY <2>4
<1>5. TypeOK'
  BY <1>1, <1>2 DEF LineInv, TypeOK
<1>6. StopsAtFirst'
  <2>1. Min(Stopping') = at
    BY <1>3, <1>4
  <2> HIDE DEF Min, Stopping
  <2> QED
    BY <1>1, <1>3, <2>1 DEF StopsAtFirst
<1>7. status' # "parsing" /\ status' # "done"
  BY <1>1, <1>2
<1>8. LoopInv' /\ LastCounts' /\ HostIsFirst' /\ TokenRight'
  BY <1>7, Zenon DEF LoopInv, LastCounts, HostIsFirst, TokenRight
<1> QED
  BY <1>5, <1>6, <1>8 DEF LineInv

\* While the loop runs nothing is said of how it ends.
LEMMA StillParsing ==
  ASSUME TypeOK', LoopInv', status' = "parsing"
  PROVE  LineInv'
BY Zenon DEF LineInv, StopsAtFirst, LastCounts, HostIsFirst, TokenRight

\* An option with a parameter that fits it, and sets the variables by it.
LEMMA TakesParam ==
  ASSUME LineInv, More, argv[at] \in WithParam, at # Len(argv), Accepts(argv[at], Param),
         NEW b \in Buffer,
         opt' = Kept(With(LastParam, argv[at], Param),
                     Before("--unmetered") # {}, b),
         \/ argv[at] # "--relay-token" /\ b = opt.token_buf
         \/ argv[at] = "--relay-token" /\ (Param = "" \/ IsHexOf(str, b)),
         at' = at + 2, UNCHANGED <<argv, str, status>>
  PROVE  LineInv'
<1>1. /\ status = "parsing" /\ argv \in Argv /\ at \in 1 .. Len(argv)
      /\ argv' = argv /\ str' = str /\ status' = status
  <2>1. argv' = argv /\ str' = str /\ status' = status
    BY Zenon
  <2> QED
    BY <2>1, InLoop, Zenon
<1>2. /\ Boundary(at) /\ \A i \in 1 .. (at - 1) : Used(i)
      /\ \A i \in Stopping : at <= i
      /\ \A o \in {"--dns1", "--dns2", "--relay"} : LastParam[o] \in {"none", "addr4", "addr6"}
      /\ LastParam["--relay-token"] \in {"none", ""} \/ IsHexOf(str, opt.token_buf)
  BY <1>1, Zenon DEF LineInv, LoopInv
<1>3. argv[at] \in Options
  BY Zenon DEF Options
<1>4. at \notin Stopping
  BY Zenon DEF Stopping, Param, WithParam
<1>5. /\ at' \in 1 .. (Len(argv) + 1) /\ Boundary(at)'
      /\ \A i \in 1 .. (at' - 1) : Used(i)'
      /\ \A i \in Stopping' : at' <= i
      /\ \A o : Before(o)' = IF o = argv[at] THEN Before(o) \cup {at} ELSE Before(o)
  BY <1>1, <1>2, <1>3, <1>4, Advances, Zenon
<1>6. LastParam' = With(LastParam, argv[at], Param)
  BY <1>1, <1>5, LastParamIs, Zenon DEF Param
<1>7. Before("--unmetered")' = Before("--unmetered")
  <2>1. argv[at] # "--unmetered"
    BY Zenon DEF WithParam
  <2> QED
    BY <1>5, <2>1, Zenon
<1> HIDE DEF LastParam, Before
<1>8. opt' = Kept(LastParam', Before("--unmetered")' # {}, b)
  BY <1>6, <1>7, Zenon
<1>9. PICK last, u : last = LastParam' /\ u = (Before("--unmetered")' # {})
  BY Zenon
<1>0. opt' = Kept(last, u, b) /\ opt'.token_buf = b
  <2>1. opt' = Kept(last, u, b)
    BY <1>8, <1>9, Zenon
  <2>2. Kept(last, u, b).token_buf = b
    BY KeptBuf, Zenon
  <2> QED
    BY <2>1, <2>2, Zenon
<1>10. ASSUME NEW o \in {"--dns1", "--dns2", "--relay"}
       PROVE  LastParam'[o] \in {"none", "addr4", "addr6"}
  <2>1. o \in WithParam
    BY Zenon DEF WithParam
  <2>2. LastParam'[o] = IF o = argv[at] THEN Param ELSE LastParam[o]
    BY <1>6, <2>1, Zenon DEF With
  <2>3. CASE o = argv[at]
    <3>1. Param \in {"addr4", "addr6"}
      BY <2>3, Zenon DEF Accepts, Fits
    <3> QED
      BY <2>2, <2>3, <3>1, Zenon
  <2>4. CASE o # argv[at]
    BY <1>2, <2>2, <2>4, Zenon
  <2> QED
    BY <2>3, <2>4, Zenon
<1>11. LastParam'["--relay-token"] \in {"none", ""} \/ IsHexOf(str', opt'.token_buf)
  <2>1. "--relay-token" \in WithParam
    BY Zenon DEF WithParam
  <2>2. LastParam'["--relay-token"] = IF "--relay-token" = argv[at] THEN Param
                                      ELSE LastParam["--relay-token"]
    BY <1>6, <2>1, Zenon DEF With
  <2> QED
    BY <1>0, <1>1, <1>2, <2>2, Zenon
<1>12. LoopInv'
  BY <1>0, <1>1, <1>5, <1>8, <1>10, <1>11, Zenon DEF LoopInv
<1>13. TypeOK'
  <2>1. str \in [Index -> Char] /\ status \in {"parsing", "usage", "help", "done"}
    BY Zenon DEF LineInv, TypeOK
  <2>2. /\ {opt'.dns1, opt'.dns2, opt'.relay} \subseteq Addr
        /\ {opt'.dns_port, opt'.p2p_port, opt'.device} \subseteq Nat
        /\ opt'.token_buf \in Buffer
    <3>1. \A o \in {"--dns1", "--dns2", "--relay"} : last[o] \in {"none", "addr4", "addr6"}
      BY <1>9, <1>10, Zenon
    <3>2. PICK new : new = opt'
      BY Zenon
    <3>3. new = Kept(last, u, b)
      BY <1>0, <3>2, Zenon
    <3>4. /\ {new.dns1, new.dns2, new.relay} \subseteq Addr
          /\ {new.dns_port, new.p2p_port, new.device} \subseteq Nat
          /\ new.token_buf \in Buffer
      BY <3>1, <3>3, KeptTyped, Zenon
    <3> QED
      BY <3>2, <3>4, Zenon
  <2> QED
    BY <1>1, <1>5, <2>1, <2>2, Zenon DEF TypeOK
<1> QED
  BY <1>1, <1>12, <1>13, StillParsing, Zenon

\* The variables at an option that a word follows.
LEMMA AtOption ==
  ASSUME LineInv, More, at # Len(argv)
  PROVE  \E last, u, b, w :
           /\ last = LastParam
           /\ u = (Before("--unmetered") # {})
           /\ b = opt.token_buf /\ b \in Buffer
           /\ w = Param /\ w # "none"
           /\ opt = Kept(last, u, b)
<1>2. PICK last, u, b, w : /\ last = LastParam /\ u = (Before("--unmetered") # {})
                           /\ b = opt.token_buf /\ w = Param
  OBVIOUS
<1>4. w # "none"
  <2>1. argv \in Argv /\ at \in 1 .. Len(argv)
    BY InLoop
  <2>2. Len(argv) \in Nat
    BY <2>1, ArgvIsSeq
  <2>3. at + 1 \in 1 .. Len(argv)
    BY <2>1, <2>2
  <2>4. argv[at + 1] # "none"
    BY <2>1, <2>3, WordsAre
  <2> QED
    BY <1>2, <2>4 DEF Param
<1>5. b \in Buffer
  BY <1>2 DEF LineInv, TypeOK
<1>6. opt = Kept(last, u, b)
  <2>1. opt = Kept(LastParam, Before("--unmetered") # {}, opt.token_buf)
    BY InLoop, Zenon DEF LineInv, LoopInv
  <2> QED
    BY <1>2, <2>1
<1> QED
  BY <1>2, <1>4, <1>5, <1>6

\* The handling of an option with a parameter keeps the invariant, if ok is
\* that the parameter fits and new are the variables as the option sets them.
LEMMA OptionKeeps ==
  ASSUME LineInv, NEW o \in WithParam, NEW ok, NEW new, NEW b, Option(o, ok, new),
         at # Len(argv) => (ok <=> Accepts(o, Param)),
         at # Len(argv) /\ ok =>
           /\ b \in Buffer
           /\ new = Kept(With(LastParam, o, Param),
                         Before("--unmetered") # {}, b)
           /\ \/ o # "--relay-token" /\ b = opt.token_buf
              \/ o = "--relay-token" /\ (Param = "" \/ IsHexOf(str, b))
  PROVE  LineInv'
<1>1. More /\ argv[at] = o
  BY Zenon DEF Option
<1>2. CASE at = Len(argv) \/ ~ok
  <2>1. Exit("usage")
    BY <1>2, Zenon DEF Option
  <2>2. argv \in Argv /\ at \in 1 .. Len(argv) /\ Boundary(at)
    BY <1>1, InLoop, Zenon DEF LineInv, LoopInv
  <2>3. argv[at] \in Options /\ argv[at] # "-h"
    BY <1>1, Zenon DEF Options, WithParam
  <2>4. IsOption[at]
    BY <2>2, <2>3, OptionIffBoundary, Zenon
  <2>5. at \in DOMAIN argv
    BY <2>2, ArgvIsSeq, Zenon
  <2>6. at = Len(argv) \/ ~Accepts(argv[at], argv[at + 1])
    BY <1>1, <1>2, Zenon DEF Param
  <2> HIDE DEF IsOption
  <2>7. at \in Stopping
    BY <1>1, <2>4, <2>5, <2>6, Zenon DEF Stopping
  <2>8. Exit(IF argv[at] = "-h" THEN "help" ELSE "usage")
    BY <2>1, <2>3, Zenon
  <2> QED
    BY <1>1, <2>7, <2>8, EndsHere, Zenon
<1>3. CASE at # Len(argv) /\ ok
  <2>1. opt' = new /\ at' = at + 2 /\ UNCHANGED <<argv, str, status>>
    BY <1>3, Zenon DEF Option
  <2>2. /\ b \in Buffer
        /\ opt' = Kept(With(LastParam, argv[at], Param),
                       Before("--unmetered") # {}, b)
    BY <1>1, <1>3, <2>1, Zenon
  <2>3. \/ argv[at] # "--relay-token" /\ b = opt.token_buf
        \/ argv[at] = "--relay-token" /\ (Param = "" \/ IsHexOf(str, b))
    BY <1>1, <1>3, Zenon
  <2>4. argv[at] \in WithParam /\ at # Len(argv) /\ Accepts(argv[at], Param)
    BY <1>1, <1>3, Zenon
  <2> QED
    BY <1>1, <2>1, <2>2, <2>3, <2>4, TakesParam, Zenon
<1> QED
  BY <1>2, <1>3, Zenon

\* main_parse_addr sets the type and the host.
LEMMA ParseAddr ==
  ASSUME NEW l, NEW p, NEW w
  PROVE  /\ main_parse_addr(Address(l, p), w) = Address(w, p)
         /\ main_parse_addr(NoAddr, w) = Address(w, 0)
<1>1. ASSUME NEW t, NEW h, NEW q
      PROVE  main_parse_addr([type |-> t, host |-> h, port |-> q], w) = Address(w, q)
  <2>1. PICK x : x = pton(w)
    OBVIOUS
  <2>2. [[type |-> t, host |-> h, port |-> q] EXCEPT !.type = x]
          = [type |-> x, host |-> h, port |-> q]
    OBVIOUS
  <2>3. [[type |-> x, host |-> h, port |-> q] EXCEPT !.host = w]
          = [type |-> x, host |-> w, port |-> q]
    OBVIOUS
  <2> QED
    BY <2>1, <2>2, <2>3, Zenon DEF main_parse_addr, Address
<1> QED
  BY <1>1 DEF Address, NoAddr

\* main_set_port sets the port of an address that is set.
LEMMA SetPort ==
  ASSUME NEW w, NEW q, NEW p
  PROVE  /\ main_set_port(Address(w, q), p) = IF pton(w) = "NONE" THEN Address(w, q)
                                              ELSE Address(w, p)
         /\ main_set_port(NoAddr, p) = NoAddr
<1>1. PICK t : t = pton(w)
  OBVIOUS
<1>2. [[type |-> t, host |-> w, port |-> q] EXCEPT !.port = p]
        = [type |-> t, host |-> w, port |-> p]
  OBVIOUS
<1> QED
  BY <1>1, <1>2 DEF main_set_port, Address, NoAddr

\* -c: the name of the configuration file.
LEMMA ConfigKeeps ==
  ASSUME LineInv, main_config
  PROVE  LineInv'
<1>1. PICK ok, new, buf : /\ ok = (TRUE) /\ buf = opt.token_buf
                          /\ new = [opt EXCEPT !.config = Param]
  BY Zenon
<1>2. Option("-c", ok, new) /\ More
  BY <1>1 DEF main_config, Option
<1>3. ASSUME at # Len(argv)
      PROVE  /\ ok <=> Accepts("-c", Param)
             /\ ok => /\ buf \in Buffer
                      /\ new = Kept(With(LastParam, "-c", Param),
                                    Before("--unmetered") # {}, buf)
  <2>1. PICK last, u, b, w :
           /\ last = LastParam /\ u = (Before("--unmetered") # {})
           /\ b = opt.token_buf /\ b \in Buffer /\ w = Param /\ w # "none"
           /\ opt = Kept(last, u, b)
    BY <1>2, <1>3, AtOption
  <2>2. [Kept(last, u, b) EXCEPT !.config = w] = Kept(With(last, "-c", w), u, b)
    BY <2>1, KeptAfter
  <2>4. ok => new = Kept(With(last, "-c", w), u, b)
    BY <1>1, <2>1, <2>2
  <2>5. ok <=> Accepts("-c", w)
    BY <1>1 DEF Accepts, Fits
  <2> QED
    BY <1>1, <2>1, <2>4, <2>5
<1>4. "-c" \in WithParam /\ "-c" # "--relay-token"
  BY DEF WithParam
<1> QED
  BY <1>1, <1>2, <1>3, <1>4, OptionKeeps, Zenon

\* --device: any word is a number to strtol.
LEMMA DeviceKeeps ==
  ASSUME LineInv, main_device
  PROVE  LineInv'
<1>1. PICK ok, new, buf : /\ ok = (TRUE) /\ buf = opt.token_buf
                          /\ new = [opt EXCEPT !.device = strtol(Param)]
  BY Zenon
<1>2. Option("--device", ok, new) /\ More
  BY <1>1 DEF main_device, Option
<1>3. ASSUME at # Len(argv)
      PROVE  /\ ok <=> Accepts("--device", Param)
             /\ ok => /\ buf \in Buffer
                      /\ new = Kept(With(LastParam, "--device", Param),
                                    Before("--unmetered") # {}, buf)
  <2>1. PICK last, u, b, w :
           /\ last = LastParam /\ u = (Before("--unmetered") # {})
           /\ b = opt.token_buf /\ b \in Buffer /\ w = Param /\ w # "none"
           /\ opt = Kept(last, u, b)
    BY <1>2, <1>3, AtOption
  <2>2. [Kept(last, u, b) EXCEPT !.device = strtol(w)]
          = Kept(With(last, "--device", w), u, b)
    BY <2>1, KeptAfter
  <2>4. ok => new = Kept(With(last, "--device", w), u, b)
    BY <1>1, <2>1, <2>2
  <2>5. ok <=> Accepts("--device", w)
    BY <1>1 DEF Accepts, Fits
  <2> QED
    BY <1>1, <2>1, <2>4, <2>5
<1>4. "--device" \in WithParam /\ "--device" # "--relay-token"
  BY DEF WithParam
<1> QED
  BY <1>1, <1>2, <1>3, <1>4, OptionKeeps, Zenon

\* --p2p_port: any word is a number to strtol.
LEMMA P2pPortKeeps ==
  ASSUME LineInv, main_p2p_port
  PROVE  LineInv'
<1>1. PICK ok, new, buf : /\ ok = (TRUE) /\ buf = opt.token_buf
                          /\ new = [opt EXCEPT !.p2p_port = strtol(Param)]
  BY Zenon
<1>2. Option("--p2p_port", ok, new) /\ More
  BY <1>1 DEF main_p2p_port, Option
<1>3. ASSUME at # Len(argv)
      PROVE  /\ ok <=> Accepts("--p2p_port", Param)
             /\ ok => /\ buf \in Buffer
                      /\ new = Kept(With(LastParam, "--p2p_port", Param),
                                    Before("--unmetered") # {}, buf)
  <2>1. PICK last, u, b, w :
           /\ last = LastParam /\ u = (Before("--unmetered") # {})
           /\ b = opt.token_buf /\ b \in Buffer /\ w = Param /\ w # "none"
           /\ opt = Kept(last, u, b)
    BY <1>2, <1>3, AtOption
  <2>2. [Kept(last, u, b) EXCEPT !.p2p_port = strtol(w)]
          = Kept(With(last, "--p2p_port", w), u, b)
    BY <2>1, KeptAfter
  <2>4. ok => new = Kept(With(last, "--p2p_port", w), u, b)
    BY <1>1, <2>1, <2>2
  <2>5. ok <=> Accepts("--p2p_port", w)
    BY <1>1 DEF Accepts, Fits
  <2> QED
    BY <1>1, <2>1, <2>4, <2>5
<1>4. "--p2p_port" \in WithParam /\ "--p2p_port" # "--relay-token"
  BY DEF WithParam
<1> QED
  BY <1>1, <1>2, <1>3, <1>4, OptionKeeps, Zenon

\* --dns_port: the test for an empty word always passes, the option has a name.
LEMMA DnsPortKeeps ==
  ASSUME LineInv, main_dns_port
  PROVE  LineInv'
<1>1. PICK ok, new, buf : /\ ok = (argv[at] # "" /\ AtEnd(Param)) /\ buf = opt.token_buf
                          /\ new = [opt EXCEPT !.dns_port = strtol(Param)]
  BY Zenon
<1>2. Option("--dns_port", ok, new) /\ More /\ argv[at] = "--dns_port"
  BY <1>1, Zenon DEF main_dns_port, Option
<1>3. ASSUME at # Len(argv)
      PROVE  /\ ok <=> Accepts("--dns_port", Param)
             /\ ok => /\ buf \in Buffer
                      /\ new = Kept(With(LastParam, "--dns_port", Param),
                                    Before("--unmetered") # {}, buf)
  <2>1. PICK last, u, b, w :
           /\ last = LastParam /\ u = (Before("--unmetered") # {})
           /\ b = opt.token_buf /\ b \in Buffer /\ w = Param /\ w # "none"
           /\ opt = Kept(last, u, b)
    BY <1>2, <1>3, AtOption
  <2>2. [Kept(last, u, b) EXCEPT !.dns_port = strtol(w)]
          = Kept(With(last, "--dns_port", w), u, b)
    BY <2>1, KeptAfter
  <2>4. ok => new = Kept(With(last, "--dns_port", w), u, b)
    BY <1>1, <2>1, <2>2, Zenon
  <2>5. ok <=> Accepts("--dns_port", w)
    BY <1>1, <1>2, <2>1, Zenon DEF Accepts, Fits, AtEnd
  <2> QED
    BY <1>1, <2>1, <2>4, <2>5, Zenon
<1>4. "--dns_port" \in WithParam /\ "--dns_port" # "--relay-token"
  BY DEF WithParam
<1> QED
  BY <1>1, <1>2, <1>3, <1>4, OptionKeeps, Zenon

\* --dns1: an address, without its port for now.
LEMMA Dns1Keeps ==
  ASSUME LineInv, main_dns1
  PROVE  LineInv'
<1>1. PICK ok, new, buf : /\ ok = (pton(Param) # "NONE") /\ buf = opt.token_buf
                          /\ new = [opt EXCEPT !.dns1 = main_parse_addr(@, Param)]
  BY Zenon
<1>2. Option("--dns1", ok, new) /\ More
  BY <1>1, Zenon DEF main_dns1, Option
<1>3. ASSUME at # Len(argv)
      PROVE  /\ ok <=> Accepts("--dns1", Param)
             /\ ok => /\ buf \in Buffer
                      /\ new = Kept(With(LastParam, "--dns1", Param),
                                    Before("--unmetered") # {}, buf)
  <2>1. PICK last, u, b, w :
           /\ last = LastParam /\ u = (Before("--unmetered") # {})
           /\ b = opt.token_buf /\ b \in Buffer /\ w = Param /\ w # "none"
           /\ opt = Kept(last, u, b)
    BY <1>2, <1>3, AtOption
  <2>2. [Kept(last, u, b) EXCEPT !.dns1 = Address(w, 0)]
          = Kept(With(last, "--dns1", w), u, b)
    BY <2>1, KeptAfter
  <2>3. main_parse_addr(opt.dns1, w) = Address(w, 0)
    <3>1. opt.dns1 = ReadOr(last["--dns1"], NoAddr, Address(last["--dns1"], 0))
      BY <2>1 DEF Kept, Locally
    <3> QED
      BY <3>1, ParseAddr DEF ReadOr
  <2>4. ok => new = Kept(With(last, "--dns1", w), u, b)
    BY <1>1, <2>1, <2>2, <2>3
  <2>5. ok <=> Accepts("--dns1", w)
    BY <1>1, <2>1, Zenon DEF Accepts, Fits, pton
  <2> QED
    BY <1>1, <2>1, <2>4, <2>5
<1>4. "--dns1" \in WithParam /\ "--dns1" # "--relay-token"
  BY DEF WithParam
<1> QED
  BY <1>1, <1>2, <1>3, <1>4, OptionKeeps, Zenon

\* --dns2: an address, without its port for now.
LEMMA Dns2Keeps ==
  ASSUME LineInv, main_dns2
  PROVE  LineInv'
<1>1. PICK ok, new, buf : /\ ok = (pton(Param) # "NONE") /\ buf = opt.token_buf
                          /\ new = [opt EXCEPT !.dns2 = main_parse_addr(@, Param)]
  BY Zenon
<1>2. Option("--dns2", ok, new) /\ More
  BY <1>1, Zenon DEF main_dns2, Option
<1>3. ASSUME at # Len(argv)
      PROVE  /\ ok <=> Accepts("--dns2", Param)
             /\ ok => /\ buf \in Buffer
                      /\ new = Kept(With(LastParam, "--dns2", Param),
                                    Before("--unmetered") # {}, buf)
  <2>1. PICK last, u, b, w :
           /\ last = LastParam /\ u = (Before("--unmetered") # {})
           /\ b = opt.token_buf /\ b \in Buffer /\ w = Param /\ w # "none"
           /\ opt = Kept(last, u, b)
    BY <1>2, <1>3, AtOption
  <2>2. [Kept(last, u, b) EXCEPT !.dns2 = Address(w, 0)]
          = Kept(With(last, "--dns2", w), u, b)
    BY <2>1, KeptAfter
  <2>3. main_parse_addr(opt.dns2, w) = Address(w, 0)
    <3>1. opt.dns2 = ReadOr(last["--dns2"], NoAddr, Address(last["--dns2"], 0))
      BY <2>1 DEF Kept, Locally
    <3> QED
      BY <3>1, ParseAddr DEF ReadOr
  <2>4. ok => new = Kept(With(last, "--dns2", w), u, b)
    BY <1>1, <2>1, <2>2, <2>3
  <2>5. ok <=> Accepts("--dns2", w)
    BY <1>1, <2>1, Zenon DEF Accepts, Fits, pton
  <2> QED
    BY <1>1, <2>1, <2>4, <2>5
<1>4. "--dns2" \in WithParam /\ "--dns2" # "--relay-token"
  BY DEF WithParam
<1> QED
  BY <1>1, <1>2, <1>3, <1>4, OptionKeeps, Zenon

\* --relay: an address and the port of the relay.
LEMMA RelayKeeps ==
  ASSUME LineInv, main_relay
  PROVE  LineInv'
<1>1. PICK ok, new, buf : /\ ok = (pton(Param) # "NONE") /\ buf = opt.token_buf
                          /\ new = [opt EXCEPT !.relay = main_set_port(
                                          main_parse_addr(@, Param), MOBILE_DEFAULT_RELAY_PORT)]
  BY Zenon
<1>2. Option("--relay", ok, new) /\ More
  BY <1>1, Zenon DEF main_relay, Option
<1>3. ASSUME at # Len(argv)
      PROVE  /\ ok <=> Accepts("--relay", Param)
             /\ ok => /\ buf \in Buffer
                      /\ new = Kept(With(LastParam, "--relay", Param),
                                    Before("--unmetered") # {}, buf)
  <2>1. PICK last, u, b, w :
           /\ last = LastParam /\ u = (Before("--unmetered") # {})
           /\ b = opt.token_buf /\ b \in Buffer /\ w = Param /\ w # "none"
           /\ opt = Kept(last, u, b)
    BY <1>2, <1>3, AtOption
  <2>2. [Kept(last, u, b) EXCEPT !.relay = Address(w, MOBILE_DEFAULT_RELAY_PORT)]
          = Kept(With(last, "--relay", w), u, b)
    BY <2>1, KeptAfter
  <2>3. pton(w) # "NONE" =>
          main_set_port(main_parse_addr(opt.relay, w), MOBILE_DEFAULT_RELAY_PORT)
            = Address(w, MOBILE_DEFAULT_RELAY_PORT)
    <3>1. opt.relay = ReadOr(last["--relay"], NoAddr,
                             Address(last["--relay"], MOBILE_DEFAULT_RELAY_PORT))
      BY <2>1 DEF Kept, Locally
    <3>2. \/ main_parse_addr(opt.relay, w) = Address(w, 0)
          \/ main_parse_addr(opt.relay, w) = Address(w, MOBILE_DEFAULT_RELAY_PORT)
      BY <3>1, ParseAddr DEF ReadOr
    <3> QED
      BY <3>2, SetPort
  <2>4. ok => new = Kept(With(last, "--relay", w), u, b)
    BY <1>1, <2>1, <2>2, <2>3, Zenon
  <2>5. ok <=> Accepts("--relay", w)
    BY <1>1, <2>1, Zenon DEF Accepts, Fits, pton
  <2> QED
    BY <1>1, <2>1, <2>4, <2>5
<1>4. "--relay" \in WithParam /\ "--relay" # "--relay-token"
  BY DEF WithParam
<1> QED
  BY <1>1, <1>2, <1>3, <1>4, OptionKeeps, Zenon

\* --relay-token: what main_parse_hex accepts is a token, and the buffer holds it.
LEMMA TokenKeeps ==
  ASSUME LineInv, main_relay_token
  PROVE  LineInv'
<1> HIDE DEF Parsed
<1>1. PICK ok : ok = (Param = "" \/ (Param = "token" /\ Parsed.ok))
  BY Zenon
<1>10. PICK buf, y : /\ buf = IF Param = "" THEN opt.token_buf ELSE Parsed.buf
                     /\ y = TokenOf(Param)
  BY Zenon
<1>11. PICK x, new : /\ IsTrue(x)
                     /\ new = [opt EXCEPT !.token_update = x, !.token = y, !.token_buf = buf]
  BY Zenon DEF IsTrue
<1>2. Option("--relay-token", ok, new) /\ More
  BY <1>1, <1>10, <1>11, Zenon DEF main_relay_token, Option, IsTrue, TokenOf
<1>3. opt.token_buf \in Buffer /\ str \in [Index -> Char]
  BY DEF LineInv, TypeOK
<1>4. /\ Parsed.buf \in Buffer
      /\ Parsed.ok <=> IsHex(str)
      /\ Parsed.ok => IsHexOf(str, Parsed.buf)
  BY <1>3, ParseHex DEF Parsed
<1>5. buf \in Buffer
  <2>1. Parsed.buf \in Buffer
    BY <1>4
  <2> QED
    BY <1>3, <1>10, <2>1, Zenon
<1>6. ok <=> Accepts("--relay-token", Param)
  <2>1. Accepts("--relay-token", Param) <=> Param = "" \/ (Param = "token" /\ IsHex(str))
    BY DEF Accepts, Fits
  <2> QED
    BY <1>1, <1>4, <2>1, Zenon
<1>7. ok => Param = "" \/ IsHexOf(str, buf)
  BY <1>1, <1>4, <1>10, Zenon
<1>8. ASSUME at # Len(argv)
      PROVE  new = Kept(With(LastParam, "--relay-token", Param),
                        Before("--unmetered") # {}, buf)
  <2>1. PICK last, u, b, w :
           /\ last = LastParam /\ u = (Before("--unmetered") # {})
           /\ b = opt.token_buf /\ b \in Buffer /\ w = Param /\ w # "none"
           /\ opt = Kept(last, u, b)
    BY <1>2, <1>8, AtOption
  <2>2. IsTrue(x) /\ y = TokenOf(w)
    BY <1>10, <1>11, <2>1, Zenon
  <2>3. SetToken(Kept(last, u, b), x, y, buf) = Kept(With(last, "--relay-token", w), u, buf)
    BY <2>1, <2>2, KeptToken
  <2>4. new = Kept(With(last, "--relay-token", w), u, buf)
    BY <1>11, <2>1, <2>3, Zenon DEF SetToken
  <2> QED
    BY <2>1, <2>4
<1>9. "--relay-token" \in WithParam
  BY DEF WithParam
<1> QED
  BY <1>2, <1>5, <1>6, <1>7, <1>8, <1>9, OptionKeeps, Zenon

\* -h and an option that is not known end the program.
LEMMA EndingKeeps ==
  ASSUME LineInv, More, argv[at] \in {"-h", "-x"},
         Exit(IF argv[at] = "-h" THEN "help" ELSE "usage")
  PROVE  LineInv'
<1>1. argv \in Argv /\ at \in 1 .. Len(argv) /\ Boundary(at)
  BY InLoop, Zenon DEF LineInv, LoopInv
<1>2. argv[at] \in Options
  BY DEF Options
<1>3. IsOption[at] /\ at \in DOMAIN argv
  BY <1>1, <1>2, OptionIffBoundary, ArgvIsSeq
<1> HIDE DEF IsOption
<1>4. at \in Stopping
  BY <1>3 DEF Stopping
<1> QED
  BY <1>4, EndsHere

\* --unmetered has no parameter.
LEMMA UnmeteredKeeps ==
  ASSUME LineInv, main_unmetered
  PROVE  LineInv'
<1>1. /\ More /\ argv[at] = "--unmetered" /\ opt' = [opt EXCEPT !.unmetered = TRUE]
      /\ at' = at + 1 /\ argv' = argv /\ str' = str /\ status' = status
  BY DEF main_unmetered
<1>2. argv \in Argv /\ at \in 1 .. Len(argv) /\ status = "parsing"
  BY <1>1, InLoop
<1>3. /\ Boundary(at) /\ \A i \in 1 .. (at - 1) : Used(i)
      /\ \A i \in Stopping : at <= i
      /\ \A o \in {"--dns1", "--dns2", "--relay"} : LastParam[o] \in {"none", "addr4", "addr6"}
      /\ opt = Kept(LastParam, Before("--unmetered") # {}, opt.token_buf)
      /\ LastParam["--relay-token"] \in {"none", ""} \/ IsHexOf(str, opt.token_buf)
  BY <1>2, Zenon DEF LineInv, LoopInv
<1>4. argv[at] \in Options /\ argv[at] \notin WithParam /\ argv[at] \notin {"-h", "-x"}
  BY <1>1 DEF Options, WithParam
<1>5. at \notin Stopping
  BY <1>4 DEF Stopping
<1>6. /\ at' \in 1 .. (Len(argv) + 1) /\ Boundary(at)'
      /\ \A i \in 1 .. (at' - 1) : Used(i)'
      /\ \A i \in Stopping' : at' <= i
      /\ \A o : Before(o)' = IF o = argv[at] THEN Before(o) \cup {at} ELSE Before(o)
  BY <1>1, <1>2, <1>3, <1>4, <1>5, Advances, Zenon
<1>7. LastParam' = LastParam
  <2>1. LastParam' = With(LastParam, argv[at], argv[at + 1])
    BY <1>1, <1>2, <1>6, LastParamIs
  <2>2. \A v \in WithParam : v # argv[at]
    BY <1>4
  <2>3. LastParam = [v \in WithParam |-> LastParam[v]]
    BY DEF LastParam
  <2> QED
    BY <2>1, <2>2, <2>3 DEF With
<1>8. Before("--unmetered")' # {}
  BY <1>1, <1>6
<1> HIDE DEF LastParam, Before
<1>9. PICK last, u, x, b : /\ last = LastParam /\ u = (Before("--unmetered") # {})
                           /\ IsTrue(x) /\ b = opt.token_buf
  BY DEF IsTrue
<1>10. opt' = Kept(last, x, b)
  <2>1. opt = Kept(last, u, b)
    BY <1>3, <1>9, Zenon
  <2>2. [Kept(last, u, b) EXCEPT !.unmetered = x] = Kept(last, x, b)
    BY DEF Kept, Locally
  <2>3. opt' = [Kept(last, u, b) EXCEPT !.unmetered = x]
    BY <1>1, <1>9, <2>1, Zenon DEF IsTrue
  <2> QED
    BY <2>2, <2>3
<1>11. opt'.token_buf = b
  BY <1>10, KeptBuf
<1>12. opt' = Kept(LastParam', Before("--unmetered")' # {}, opt'.token_buf)
  <2>1. x = (Before("--unmetered")' # {})
    BY <1>8, <1>9, Zenon DEF IsTrue
  <2> QED
    BY <1>7, <1>9, <1>10, <1>11, <2>1
<1>13. LastParam'["--relay-token"] \in {"none", ""} \/ IsHexOf(str', opt'.token_buf)
  BY <1>1, <1>3, <1>7, <1>9, <1>11, Zenon
<1>14. LoopInv'
  BY <1>3, <1>6, <1>7, <1>12, <1>13, Zenon DEF LoopInv
<1>15. TypeOK'
  <2>1. str \in [Index -> Char] /\ b \in Buffer
    BY <1>9 DEF LineInv, TypeOK
  <2>2. PICK new : new = opt'
    OBVIOUS
  <2>3. \A o \in {"--dns1", "--dns2", "--relay"} : last[o] \in {"none", "addr4", "addr6"}
    BY <1>3, <1>9, Zenon
  <2>4. new = Kept(last, x, b)
    BY <1>10, <2>2
  <2>5. /\ {new.dns1, new.dns2, new.relay} \subseteq Addr
        /\ {new.dns_port, new.p2p_port, new.device} \subseteq Nat
        /\ new.token_buf \in Buffer
    BY <2>1, <2>3, <2>4, KeptTyped
  <2> QED
    BY <1>1, <1>2, <1>6, <2>1, <2>2, <2>5 DEF TypeOK
<1> QED
  BY <1>1, <1>2, <1>14, <1>15, StillParsing

\* Before the loop.
LEMMA InitLine == Init => LineInv
<1> SUFFICES ASSUME Init PROVE LineInv
  OBVIOUS
<1>1. at = 1 /\ status = "parsing" /\ opt = Defaults
  BY DEF Init
<1>2. argv \in Argv
  <2>1. ASSUME argv = <<"--relay-token", "token">>
        PROVE  argv \in Argv
    <3>1. 2 \in 0 .. MaxArgs
      BY ArgsAssumption
    <3>2. argv \in [1 .. 2 -> Options \cup {"--"} \cup Words]
      <4>1. "--relay-token" \in Options /\ "token" \in Words
        BY DEF Options, WithParam, Words
      <4> HIDE DEF Words, Options
      <4>2. DOMAIN argv = 1 .. 2 /\ argv[1] = "--relay-token" /\ argv[2] = "token"
        BY <2>1
      <4>3. argv = [i \in 1 .. 2 |-> argv[i]]
        BY <2>1
      <4> QED
        BY <4>1, <4>2, <4>3
    <3> HIDE DEF Words, Options
    <3> QED
      BY <3>1, <3>2 DEF Argv
  <2> QED
    BY <2>1 DEF Init
<1>3. str \in [Index -> Char]
  <2>1. \A c \in {65, 71} : [k \in Index |-> c] \in [Index -> Char]
    BY ArgsAssumption
  <2> QED
    BY <2>1 DEF Init
<1>4. opt.token_buf \in Buffer
  BY <1>1, ArgsAssumption DEF Defaults, Buffer
<1>5. Len(argv) \in Nat /\ DOMAIN argv = 1 .. Len(argv)
  BY <1>2, ArgvIsSeq
<1>6. \A o : Before(o) = {}
  BY <1>1, <1>5 DEF Before, Given
<1>7. \A o \in WithParam : LastParam[o] = "none"
  BY <1>6 DEF LastParam
<1>8. /\ "-c" \in WithParam /\ "--device" \in WithParam /\ "--dns1" \in WithParam
      /\ "--dns2" \in WithParam /\ "--dns_port" \in WithParam
      /\ "--p2p_port" \in WithParam /\ "--relay" \in WithParam
      /\ "--relay-token" \in WithParam
  BY DEF WithParam
<1>9. opt = Kept(LastParam, Before("--unmetered") # {}, opt.token_buf)
  <2>1. PICK last, u, b : /\ last = LastParam /\ u = (Before("--unmetered") # {})
                          /\ b = opt.token_buf
    OBVIOUS
  <2>2. u = FALSE
    BY <1>6, <2>1, Zenon
  <2>3. \A default, value : ReadOr("none", default, value) = default
    BY DEF ReadOr
  <2>4. Kept(last, u, b) = Locally("config.bin", 8, FALSE, NoAddr, NoAddr, MOBILE_DNS_PORT,
                                   MOBILE_DEFAULT_P2P_PORT, NoAddr, FALSE, "NULL", b)
    <3>1. \A o \in WithParam : last[o] = "none"
      BY <1>7, <2>1
    <3> QED
      BY <1>8, <2>2, <2>3, <3>1, Zenon DEF Kept, Updated
  <2>5. Defaults = Locally("config.bin", 8, FALSE, NoAddr, NoAddr, MOBILE_DNS_PORT,
                           MOBILE_DEFAULT_P2P_PORT, NoAddr, FALSE, "NULL", b)
    BY <1>1, <2>1, Zenon DEF Locally, Defaults
  <2> QED
    BY <1>1, <2>1, <2>4, <2>5, Zenon
<1>10. LoopInv
  <2>1. Boundary(at) /\ \A i \in 1 .. (at - 1) : Used(i)
    BY <1>1 DEF Boundary
  <2>2. \A i \in Stopping : at <= i
    BY <1>1, <1>5 DEF Stopping
  <2> QED
    BY <1>7, <1>8, <1>9, <2>1, <2>2, Zenon DEF LoopInv
<1>11. TypeOK
  <2>1. {opt.dns1, opt.dns2, opt.relay} \subseteq Addr
    BY <1>1 DEF Defaults, NoAddr, Addr, Words
  <2>2. {opt.dns_port, opt.p2p_port, opt.device} \subseteq Nat
    BY <1>1 DEF Defaults, MOBILE_DNS_PORT, MOBILE_DEFAULT_P2P_PORT
  <2> QED
    BY <1>1, <1>2, <1>3, <1>4, <1>5, <2>1, <2>2 DEF TypeOK
<1> QED
  BY <1>1, <1>10, <1>11, Zenon
  DEF LineInv, StopsAtFirst, LastCounts, HostIsFirst, TokenRight

\* Where the loop ends it has seen every option, and what is left is the rest.
LEMMA AllSeen ==
  ASSUME LineInv, status = "parsing", ~(More /\ argv[at] \in Options)
  PROVE  /\ Stopping = {}
         /\ \A o : Given(o) = Before(o)
         /\ Skip \in 1 .. (Len(argv) + 1)
         /\ Rest = SubSeq(argv, Skip, Len(argv))
<1>1. /\ argv \in Argv /\ at \in 1 .. (Len(argv) + 1) /\ Boundary(at)
      /\ \A i \in 1 .. (at - 1) : Used(i)
      /\ \A i \in Stopping : at <= i
  BY Zenon DEF LineInv, TypeOK, LoopInv
<1>2. Len(argv) \in Nat /\ DOMAIN argv = 1 .. Len(argv) /\ at \in Nat /\ at >= 1
  BY <1>1, ArgvIsSeq
<1>3. at <= Len(argv) => argv[at] \notin Options
  BY DEF More
<1>4. \A k \in 1 .. Len(argv) : IsOption[k] => k < at
  BY <1>1, <1>3, NoneFollows
<1> HIDE DEF IsOption
<1>5. Stopping = {}
  <2> SUFFICES ASSUME NEW i \in Stopping PROVE FALSE
    OBVIOUS
  <2>1. i \in 1 .. Len(argv) /\ IsOption[i]
    BY <1>2 DEF Stopping
  <2>2. i < at /\ at <= i
    BY <1>1, <1>4, <2>1
  <2> QED
    BY <1>2, <2>1, <2>2
<1>6. \A o : Given(o) = Before(o)
  <2> SUFFICES ASSUME NEW o PROVE Given(o) = Before(o)
    OBVIOUS
  <2>1. \A i \in Given(o) : i < at
    BY <1>2, <1>4 DEF Given
  <2> QED
    BY <2>1 DEF Before
<1>7. Skip \in 1 .. (Len(argv) + 1)
  <2>1. CASE More /\ argv[at] = "--"
    <3>1. Skip = at + 1 /\ at <= Len(argv)
      BY <2>1 DEF Skip, More
    <3> QED
      BY <1>2, <3>1
  <2>2. CASE ~(More /\ argv[at] = "--")
    BY <1>1, <2>2 DEF Skip
  <2> QED
    BY <2>1, <2>2
<1>8. Rest = SubSeq(argv, Skip, Len(argv))
  <2> DEFINE used == {i \in DOMAIN argv : IsOption[i] \/
                        (i > 1 /\ IsOption[i - 1] /\ argv[i - 1] \in WithParam)}
             end == IF used = {} THEN 1 ELSE Max(used) + 1
  <2>1. used = 1 .. (at - 1)
    <3>1. ASSUME NEW i \in used
          PROVE  i \in 1 .. (at - 1)
      <4>1. i \in 1 .. Len(argv) /\ Used(i)
        BY <1>2 DEF Used
      <4>2. CASE IsOption[i]
        BY <1>2, <1>4, <4>1, <4>2
      <4>3. CASE i > 1 /\ IsOption[i - 1] /\ argv[i - 1] \in WithParam
        <5>1. i - 1 \in 1 .. Len(argv)
          BY <1>2, <4>1, <4>3
        <5>2. i - 1 < at
          BY <1>4, <4>3, <5>1
        <5>3. i # at
          <6> SUFFICES ASSUME i = at PROVE FALSE
            OBVIOUS
          <6>1. at \in 2 .. (Len(argv) + 1) /\ IsOption[at - 1]
            BY <1>2, <4>1, <4>3
          <6>2. argv[at - 1] \notin WithParam
            BY <1>1, <6>1, NoneWaits
          <6> QED
            BY <4>3, <6>2
        <5> QED
          BY <1>2, <4>1, <5>2, <5>3
      <4> QED
        BY <4>1, <4>2, <4>3 DEF Used
    <3>2. ASSUME NEW i \in 1 .. (at - 1)
          PROVE  i \in used
      <4>1. Used(i) /\ i \in DOMAIN argv
        BY <1>1, <1>2
      <4> QED
        BY <4>1 DEF Used
    <3> QED
      BY <3>1, <3>2
  <2>2. end = at
    <3> HIDE DEF used
    <3>1. CASE at = 1
      BY <2>1, <3>1
    <3>2. CASE at # 1
      <4>1. used \in SUBSET (1 .. Len(argv)) /\ used # {} /\ at - 1 \in used
        <5>1. \A k \in Nat : at \in 1 .. (k + 1) =>
                at - 1 \in 1 .. (at - 1) /\ 1 .. (at - 1) \subseteq 1 .. k
          BY <1>2, <3>2
        <5>2. at - 1 \in 1 .. (at - 1) /\ 1 .. (at - 1) \subseteq 1 .. Len(argv)
          BY <1>1, <1>2, <5>1
        <5> QED
          BY <2>1, <5>2
      <4>2. Max(used) \in used /\ \A i \in used : i <= Max(used)
        BY <1>2, <4>1, MaxMinIs
      <4> HIDE DEF Max
      <4>3. Max(used) \in 1 .. (at - 1) /\ at - 1 <= Max(used)
        BY <2>1, <4>1, <4>2
      <4>4. Max(used) + 1 = at
        BY <1>2, <4>3
      <4> QED
        BY <4>1, <4>4, Zenon
    <3> QED
      BY <3>1, <3>2
  <2>3. Rest = SubSeq(argv, IF end <= Len(argv) /\ argv[end] = "--" THEN end + 1 ELSE end,
                      Len(argv))
    BY DEF Rest
  <2> HIDE DEF end
  <2>4. Skip = IF at <= Len(argv) /\ argv[at] = "--" THEN at + 1 ELSE at
    BY DEF Skip, More
  <2> QED
    BY <2>2, <2>3, <2>4
<1> QED
  BY <1>5, <1>6, <1>7, <1>8

\* The parameter of the last of each option is the one that is kept.
LEMMA LastIsKept ==
  ASSUME LineInv, Stopping = {}, NEW o \in WithParam, Given(o) = Before(o)
  PROVE  /\ Given(o) = {} => LastParam[o] = "none"
         /\ Given(o) # {} => /\ LastParam[o] = argv[Max(Given(o)) + 1]
                             /\ LastParam[o] # "none"
<1>1. LastParam[o] = IF Given(o) = {} THEN "none" ELSE argv[Max(Given(o)) + 1]
  BY DEF LastParam
<1>2. ASSUME Given(o) # {}
      PROVE  argv[Max(Given(o)) + 1] # "none"
  <2>1. argv \in Argv
    BY DEF LineInv, TypeOK
  <2>2. Len(argv) \in Nat /\ DOMAIN argv = 1 .. Len(argv)
    BY <2>1, ArgvIsSeq
  <2>3. Given(o) \in SUBSET (1 .. Len(argv))
    BY <2>2 DEF Given
  <2>4. PICK m : m = Max(Given(o))
    OBVIOUS
  <2>5. m \in Given(o)
    BY <1>2, <2>2, <2>3, <2>4, MaxMinIs, Zenon
  <2>6. m \in 1 .. Len(argv) /\ IsOption[m] /\ argv[m] \in WithParam
    BY <2>2, <2>5 DEF Given
  <2> HIDE DEF IsOption
  <2>7. m # Len(argv)
    BY <2>2, <2>6, Zenon DEF Stopping
  <2>8. m + 1 \in 1 .. Len(argv)
    <3>1. \A k \in Nat : m \in 1 .. k /\ m # k => m + 1 \in 1 .. k
      OBVIOUS
    <3> QED
      BY <2>2, <2>6, <2>7, <3>1, Zenon
  <2> QED
    BY <2>1, <2>4, <2>8, WordsAre
<1> QED
  BY <1>1, <1>2

\* The end of the loop assigns the host, the port and the two addresses.
Ended(opts, h, q, x, y) == [opts EXCEPT !.host = h, !.port = q, !.dns1 = x, !.dns2 = y]

\* The address of a server with the port p.
LEMMA AddressSet ==
  ASSUME NEW w \in {"none", "addr4", "addr6"}, NEW p
  PROVE  main_set_port(ReadOr(w, NoAddr, Address(w, 0)), p) = ReadOr(w, NoAddr, Address(w, p))
<1>1. w # "none" => pton(w) # "NONE"
  BY DEF pton
<1> QED
  BY <1>1, SetPort DEF ReadOr

\* The end of the loop.
LEMMA DoneKeeps ==
  ASSUME LineInv, main_done
  PROVE  LineInv'
<1>1. /\ status = "parsing" /\ ~(More /\ argv[at] \in Options) /\ status' = "done"
      /\ argv' = argv /\ str' = str /\ at' = at
  BY DEF main_done
<1>2. /\ Stopping = {} /\ \A o : Given(o) = Before(o)
      /\ Skip \in 1 .. (Len(argv) + 1) /\ Rest = SubSeq(argv, Skip, Len(argv))
  BY <1>1, AllSeen
<1>3. argv \in Argv /\ str \in [Index -> Char] /\ at \in 1 .. (Len(argv) + 1)
  BY DEF LineInv, TypeOK
<1>4. /\ \A o \in {"--dns1", "--dns2", "--relay"} : LastParam[o] \in {"none", "addr4", "addr6"}
      /\ opt = Kept(LastParam, Before("--unmetered") # {}, opt.token_buf)
      /\ LastParam["--relay-token"] \in {"none", ""} \/ IsHexOf(str, opt.token_buf)
      /\ opt.token_buf \in Buffer
  BY <1>1, Zenon DEF LineInv, LoopInv, TypeOK
<1>5. \A o \in WithParam : /\ Given(o) = {} => LastParam[o] = "none"
                           /\ Given(o) # {} => /\ LastParam[o] = argv[Max(Given(o)) + 1]
                                               /\ LastParam[o] # "none"
  BY <1>2, LastIsKept
<1>6. /\ "-c" \in WithParam /\ "--device" \in WithParam /\ "--dns1" \in WithParam
      /\ "--dns2" \in WithParam /\ "--dns_port" \in WithParam
      /\ "--p2p_port" \in WithParam /\ "--relay" \in WithParam
      /\ "--relay-token" \in WithParam
  BY DEF WithParam
<1>7. Stopping' = Stopping /\ (\A o : Given(o)' = Given(o)) /\ IsOption' = IsOption
  BY <1>1, ArgvStays
<1> HIDE DEF IsOption, Stopping, Given, Before, LastParam
<1>8. Rest' = Rest
  BY <1>1, <1>7 DEF Rest
<1> HIDE DEF Rest
<1>9. PICK last, u, b : /\ last = LastParam /\ u = (Before("--unmetered") # {})
                        /\ b = opt.token_buf /\ opt = Kept(last, u, b)
  BY <1>4, Zenon
<1>10. PICK h, q, x, y, new :
         /\ h = IF Skip <= Len(argv) THEN argv[Skip] ELSE opt.host
         /\ q = IF Skip + 1 <= Len(argv) THEN argv[Skip + 1] ELSE opt.port
         /\ x = main_set_port(opt.dns1, opt.dns_port)
         /\ y = main_set_port(opt.dns2, opt.dns_port)
         /\ new = opt'
  OBVIOUS
<1>11. new = Ended(Kept(last, u, b), h, q, x, y)
  <2>1. opt' = [opt EXCEPT !.host = h, !.port = q, !.dns1 = x, !.dns2 = y]
    BY <1>10 DEF main_done
  <2> QED
    BY <1>9, <1>10, <2>1, Zenon DEF Ended
<1> DEFINE dns_port == ReadOr(last["--dns_port"], MOBILE_DNS_PORT, strtol(last["--dns_port"]))
<1>12. /\ new.config = ReadOr(last["-c"], "config.bin", last["-c"])
       /\ new.device = ReadOr(last["--device"], 8, strtol(last["--device"]))
       /\ new.unmetered = u /\ new.dns1 = x /\ new.dns2 = y
       /\ new.dns_port = dns_port
       /\ new.p2p_port = ReadOr(last["--p2p_port"], MOBILE_DEFAULT_P2P_PORT,
                                strtol(last["--p2p_port"]))
       /\ new.relay = ReadOr(last["--relay"], NoAddr,
                             Address(last["--relay"], MOBILE_DEFAULT_RELAY_PORT))
       /\ new.token_update = Updated(last["--relay-token"])
       /\ new.token = ReadOr(last["--relay-token"], "NULL", TokenOf(last["--relay-token"]))
       /\ new.token_buf = b /\ new.host = h /\ new.port = q
  BY <1>11 DEF Ended, Kept, Locally
<1>13. /\ opt.dns1 = ReadOr(last["--dns1"], NoAddr, Address(last["--dns1"], 0))
       /\ opt.dns2 = ReadOr(last["--dns2"], NoAddr, Address(last["--dns2"], 0))
       /\ opt.dns_port = dns_port
       /\ opt.host = Defaults.host /\ opt.port = Defaults.port
  BY <1>9 DEF Kept, Locally
<1> HIDE DEF dns_port
<1>14. /\ x = ReadOr(last["--dns1"], NoAddr, Address(last["--dns1"], dns_port))
       /\ y = ReadOr(last["--dns2"], NoAddr, Address(last["--dns2"], dns_port))
  <2>1. /\ last["--dns1"] \in {"none", "addr4", "addr6"}
        /\ last["--dns2"] \in {"none", "addr4", "addr6"}
    BY <1>4, <1>9, Zenon
  <2> QED
    BY <1>10, <1>13, <2>1, AddressSet
<1>15. StopsAtFirst'
  BY <1>1, <1>2, <1>7 DEF StopsAtFirst
<1>16. TokenRight'
  <2>1. ASSUME new.token = "token_buf"
        PROVE  last["--relay-token"] \notin {"none", ""}
    BY <1>12, <2>1, Zenon DEF ReadOr, TokenOf
  <2>2. new.token = "token_buf" => IsHexOf(str, new.token_buf)
    BY <1>4, <1>9, <1>12, <2>1, Zenon
  <2> QED
    BY <1>1, <1>10, <2>2 DEF TokenRight
<1>17. HostIsFirst'
  <2>1. argv \in Seq(Options \cup {"--"} \cup Words) /\ Len(argv) \in Nat
    BY <1>3, ArgvIsSeq
  <2>2. /\ Len(Rest) >= 1 <=> Skip <= Len(argv)
        /\ Len(Rest) >= 2 <=> Skip + 1 <= Len(argv)
        /\ Len(Rest) >= 1 => Rest[1] = argv[Skip]
        /\ Len(Rest) >= 2 => Rest[2] = argv[Skip + 1]
    <3>1. PICK k, a, n : k = Skip /\ a = argv /\ n = Len(argv)
      BY Zenon
    <3>2. /\ a \in Seq(Options \cup {"--"} \cup Words)
          /\ n = Len(a) /\ n \in Nat /\ k \in 1 .. (n + 1)
      BY <1>2, <2>1, <3>1
    <3>3. Rest = SubSeq(a, k, n)
      BY <1>2, <3>1
    <3> HIDE DEF Options, Words
    <3>4. /\ Len(SubSeq(a, k, n)) = n - k + 1
          /\ \A i \in 1 .. (n - k + 1) : SubSeq(a, k, n)[i] = a[k + i - 1]
      BY <3>2
    <3>5. /\ Len(Rest) >= 1 <=> k <= n
          /\ Len(Rest) >= 2 <=> k + 1 <= n
      BY <3>2, <3>3, <3>4
    <3>6. Len(Rest) >= 1 => Rest[1] = a[k]
      <4>1. k <= n => 1 \in 1 .. (n - k + 1) /\ k + 1 - 1 = k
        BY <3>2
      <4> QED
        BY <3>3, <3>4, <3>5, <4>1, Zenon
    <3>7. Len(Rest) >= 2 => Rest[2] = a[k + 1]
      <4>1. k + 1 <= n => 2 \in 1 .. (n - k + 1) /\ k + 2 - 1 = k + 1
        BY <3>2
      <4> QED
        BY <3>3, <3>4, <3>5, <4>1, Zenon
    <3> QED
      BY <3>1, <3>5, <3>6, <3>7
  <2>3. /\ new.host = IF Len(Rest) >= 1 THEN Rest[1] ELSE Defaults.host
        /\ new.port = IF Len(Rest) >= 2 THEN Rest[2] ELSE Defaults.port
    BY <1>10, <1>12, <1>13, <2>2
  <2> QED
    BY <1>8, <1>10, <2>3 DEF HostIsFirst
<1>18. TypeOK'
  <2>1. \A w : strtol(w) \in Nat
    BY DEF strtol
  <2>2. dns_port \in Nat
    BY <2>1 DEF dns_port, ReadOr, MOBILE_DNS_PORT
  <2>3. \A w \in {"none", "addr4", "addr6"}, p \in Nat :
          ReadOr(w, NoAddr, Address(w, p)) \in Addr
    BY AddressTyped
  <2>4. MOBILE_DEFAULT_RELAY_PORT \in Nat /\ MOBILE_DEFAULT_P2P_PORT \in Nat
    BY DEF MOBILE_DEFAULT_RELAY_PORT, MOBILE_DEFAULT_P2P_PORT
  <2>5. \A o \in {"--dns1", "--dns2", "--relay"} : last[o] \in {"none", "addr4", "addr6"}
    BY <1>4, <1>9, Zenon
  <2>6. new.dns1 \in Addr /\ new.dns2 \in Addr /\ new.relay \in Addr
    BY <1>12, <1>14, <2>2, <2>3, <2>4, <2>5
  <2>7. new.dns_port \in Nat /\ new.p2p_port \in Nat /\ new.device \in Nat
    BY <1>12, <2>1, <2>2, <2>4 DEF ReadOr
  <2>8. new.token_buf \in Buffer
    BY <1>4, <1>9, <1>12, Zenon
  <2> QED
    BY <1>1, <1>3, <1>10, <2>6, <2>7, <2>8 DEF TypeOK
<1>19. LoopInv'
  BY <1>1, Zenon DEF LoopInv
<1>20. LastCounts'
  <2> DEFINE w(o) == argv[Max(Given(o)) + 1]
  <2>1. \A o \in WithParam : /\ Given(o) = {} => last[o] = "none"
                             /\ Given(o) # {} => last[o] = w(o) /\ last[o] # "none"
    BY <1>5, <1>9
  <2> HIDE DEF w
  <2>2. new.config = IF Given("-c") = {} THEN "config.bin" ELSE w("-c")
    BY <1>6, <1>12, <2>1 DEF ReadOr
  <2>3. new.device = IF Given("--device") = {} THEN 8 ELSE strtol(w("--device"))
    BY <1>6, <1>12, <2>1 DEF ReadOr
  <2>4. new.p2p_port = IF Given("--p2p_port") = {} THEN MOBILE_DEFAULT_P2P_PORT
                       ELSE strtol(w("--p2p_port"))
    BY <1>6, <1>12, <2>1 DEF ReadOr
  <2>5. new.unmetered = (Given("--unmetered") # {})
    BY <1>2, <1>9, <1>12, Zenon
  <2>6. new.token_update = (Given("--relay-token") # {})
    BY <1>6, <1>12, <2>1, Zenon DEF Updated, ReadOr
  <2>7. new.token = IF Given("--relay-token") = {} THEN "NULL"
                    ELSE IF w("--relay-token") = "" THEN "NULL" ELSE "token_buf"
    BY <1>6, <1>12, <2>1, Zenon DEF TokenOf, ReadOr
  <2>8. dns_port = IF Given("--dns_port") = {} THEN MOBILE_DNS_PORT
                   ELSE strtol(w("--dns_port"))
    BY <1>6, <2>1 DEF dns_port, ReadOr
  <2> DEFINE address(p) == [v \in Words |-> [type |-> pton(v), host |-> v, port |-> p]]
  <2>9. \A p : \A v \in {"addr4", "addr6"} : address(p)[v] = Address(v, p)
    BY Zenon DEF Address, Words
  <2> HIDE DEF address
  <2>10. ASSUME NEW o \in {"--dns1", "--dns2", "--relay"}, NEW p
         PROVE  ReadOr(last[o], NoAddr, Address(last[o], p))
                  = IF Given(o) = {} THEN NoAddr ELSE address(p)[w(o)]
    <3>1. o \in WithParam
      BY DEF WithParam
    <3>2. CASE Given(o) = {}
      BY <2>1, <3>1, <3>2 DEF ReadOr
    <3>3. CASE Given(o) # {}
      <4>1. last[o] = w(o) /\ last[o] # "none" /\ last[o] \in {"none", "addr4", "addr6"}
        <5>1. last[o] = w(o) /\ last[o] # "none"
          BY <2>1, <3>1, <3>3
        <5>2. last[o] \in {"none", "addr4", "addr6"}
          BY <1>4, <1>9, Zenon
        <5> QED
          BY <5>1, <5>2
      <4> QED
        BY <2>9, <3>3, <4>1 DEF ReadOr
    <3> QED
      BY <3>2, <3>3
  <2>11. new.dns1 = IF Given("--dns1") = {} THEN NoAddr ELSE address(dns_port)[w("--dns1")]
    <3>1. new.dns1 = ReadOr(last["--dns1"], NoAddr, Address(last["--dns1"], dns_port))
      BY <1>12, <1>14
    <3> QED
      BY <2>10, <3>1
  <2>12. new.dns2 = IF Given("--dns2") = {} THEN NoAddr ELSE address(dns_port)[w("--dns2")]
    <3>1. new.dns2 = ReadOr(last["--dns2"], NoAddr, Address(last["--dns2"], dns_port))
      BY <1>12, <1>14
    <3> QED
      BY <2>10, <3>1
  <2>13. new.relay = IF Given("--relay") = {} THEN NoAddr
                     ELSE address(MOBILE_DEFAULT_RELAY_PORT)[w("--relay")]
    BY <1>12, <2>10
  <2>14. \A o : argv'[Max(Given(o)') + 1] = w(o)
    BY <1>1, <1>7 DEF w
  <2>15. opt' = new /\ \A o : Given(o)' = Given(o)
    BY <1>7, <1>10
  <2>16. (IF Given("--dns_port")' = {} THEN MOBILE_DNS_PORT
          ELSE strtol(argv'[Max(Given("--dns_port")') + 1])) = dns_port
    BY <2>8, <2>14, <2>15
  <2> QED
    BY <2>2, <2>3, <2>4, <2>5, <2>6, <2>7, <2>11, <2>12, <2>13, <2>14, <2>15, <2>16,
      Zenon
       DEF LastCounts, Chosen, address, Defaults
<1> QED
  BY <1>15, <1>16, <1>17, <1>18, <1>19, <1>20 DEF LineInv

\* Every step keeps the invariant: nothing changes once the loop has ended.
LEMMA StepLine == LineInv /\ [Next]_vars => LineInv'
<1> SUFFICES ASSUME LineInv, [Next]_vars PROVE LineInv'
  OBVIOUS
<1>1. CASE main_help
  <2>1. More /\ argv[at] = "-h" /\ Exit("help")
    BY <1>1 DEF main_help
  <2>2. Exit(IF argv[at] = "-h" THEN "help" ELSE "usage")
    BY <2>1
  <2> QED
    BY <2>1, <2>2, EndingKeeps
<1>2. CASE main_config
  BY <1>2, ConfigKeeps
<1>3. CASE main_device
  BY <1>3, DeviceKeeps
<1>4. CASE main_unmetered
  BY <1>4, UnmeteredKeeps
<1>5. CASE main_dns1
  BY <1>5, Dns1Keeps
<1>6. CASE main_dns2
  BY <1>6, Dns2Keeps
<1>7. CASE main_dns_port
  BY <1>7, DnsPortKeeps
<1>8. CASE main_p2p_port
  BY <1>8, P2pPortKeeps
<1>9. CASE main_relay
  BY <1>9, RelayKeeps
<1>10. CASE main_relay_token
  BY <1>10, TokenKeeps
<1>11. CASE main_unknown
  <2>1. More /\ argv[at] = "-x" /\ Exit("usage")
    BY <1>11 DEF main_unknown
  <2>2. Exit(IF argv[at] = "-h" THEN "help" ELSE "usage")
    BY <2>1
  <2> QED
    BY <2>1, <2>2, EndingKeeps
<1>12. CASE main_done
  BY <1>12, DoneKeeps
<1>13. CASE UNCHANGED vars
  <2>1. argv' = argv /\ str' = str /\ at' = at /\ status' = status /\ opt' = opt
    BY <1>13 DEF vars
  <2>2. /\ IsOption' = IsOption /\ Stopping' = Stopping /\ (\A o : Given(o)' = Given(o))
        /\ \A i : (Boundary(i)' <=> Boundary(i)) /\ (Used(i)' <=> Used(i))
    BY <2>1, ArgvStays
  <2> HIDE DEF IsOption, Stopping, Given
  <2>3. TypeOK'
    BY <2>1 DEF LineInv, TypeOK
  <2>4. StopsAtFirst'
    BY <2>1, <2>2 DEF LineInv, StopsAtFirst
  <2>5. TokenRight'
    BY <2>1 DEF LineInv, TokenRight
  <2>6. HostIsFirst'
    <3>1. Rest' = Rest
      BY <2>1, <2>2 DEF Rest
    <3> HIDE DEF Rest
    <3> QED
      BY <2>1, <3>1 DEF LineInv, HostIsFirst
  <2>7. LastCounts'
    BY <2>1, <2>2, Zenon DEF LineInv, LastCounts, Chosen
  <2>8. LoopInv'
    <3>1. \A o : Before(o)' = Before(o)
      BY <2>1, <2>2 DEF Before
    <3>2. LastParam' = LastParam
      BY <2>1, <3>1 DEF LastParam
    <3>3. Boundary(at)' <=> Boundary(at)
      BY <2>1, <2>2 DEF Boundary
    <3> HIDE DEF Before, LastParam
    <3> QED
      BY <2>1, <2>2, <3>1, <3>2, <3>3, Zenon DEF LineInv, LoopInv
  <2> QED
    BY <2>3, <2>4, <2>5, <2>6, <2>7, <2>8 DEF LineInv
<1>14. CASE Exited
  BY <1>13, <1>14 DEF Exited
<1> QED
  BY <1>1, <1>2, <1>3, <1>4, <1>5, <1>6, <1>7, <1>8, <1>9, <1>10, <1>11, <1>12,
     <1>13, <1>14 DEF Next

\* The loop over argv keeps LineInv.
THEOREM LineInvariant == Spec => []LineInv
<1>1. Init => LineInv
  BY InitLine
<1>2. LineInv /\ [Next]_vars => LineInv'
  BY StepLine
<1> QED
  BY <1>1, <1>2, PTL DEF Spec

\* The variables of main keep their types: the addresses, the ports and the
\* buffer of the token are never anything else, whatever is typed.
THEOREM LineTyped == Spec => []TypeOK
<1>1. LineInv => TypeOK
  BY DEF LineInv
<1> QED
  BY <1>1, LineInvariant, PTL

\* The options that end the program are those that should, but for the empty DNS
\* ports: if the first that should is none of these, it is the first that does.
LEMMA StopsAreEnds ==
  ASSUME TypeOK, StopsAtFirst
  PROVE  EndsAtFirst
<1>1. Len(argv) \in Nat /\ DOMAIN argv = 1 .. Len(argv)
  BY ArgvIsSeq DEF TypeOK
<1>2. Stopping = Ending \ EmptyPorts
  <2>1. "--dns_port" \in WithParam /\ "--dns_port" \notin {"-h", "-x"}
    BY DEF WithParam
  <2>2. ASSUME NEW i \in DOMAIN argv
        PROVE  i < Len(argv) <=> i # Len(argv)
    BY <1>1
  <2> HIDE DEF IsOption, WithParam
  <2>3. ASSUME NEW i \in DOMAIN argv
        PROVE  i \in Stopping <=> i \in Ending /\ i \notin EmptyPorts
    <3>1. CASE i \in EmptyPorts
      BY <2>1, <2>2, <3>1, Zenon DEF Stopping, EmptyPorts, Given, Accepts
    <3>2. CASE i \notin EmptyPorts
      BY <2>2, <3>2, Zenon DEF Stopping, Ending, EmptyPorts, Given, Accepts
    <3> QED
      BY <3>1, <3>2
  <2>4. Stopping \subseteq DOMAIN argv /\ Ending \subseteq DOMAIN argv
    BY Zenon DEF Stopping, Ending
  <2> QED
    BY <2>3, <2>4, Zenon
<1>3. Ending \in SUBSET (1 .. Len(argv))
  BY <1>1 DEF Ending
<1>4. Stopping \in SUBSET (1 .. Len(argv))
  BY <1>2, <1>3, Zenon
<1> HIDE DEF Ending, Stopping, EmptyPorts
<1>5. CASE Ending = {}
  BY <1>2, <1>5, Zenon DEF StopsAtFirst, EndsAtFirst
<1>6. CASE Ending # {} /\ Min(Ending) \in EmptyPorts
  BY <1>6, Zenon DEF EndsAtFirst
<1>7. CASE Ending # {} /\ Min(Ending) \notin EmptyPorts
  <2>1. Min(Ending) \in Ending /\ \A i \in Ending : Min(Ending) <= i
    BY <1>1, <1>3, <1>7, MaxMinIs, Zenon
  <2>2. Min(Ending) \in Stopping
    BY <1>2, <1>7, <2>1, Zenon
  <2>3. Min(Stopping) \in Stopping /\ \A i \in Stopping : Min(Stopping) <= i
    BY <1>1, <1>4, <2>2, MaxMinIs, Zenon
  <2> HIDE DEF Min
  <2>4. Min(Stopping) \in Ending /\ Min(Ending) \in 1 .. Len(argv)
        /\ Min(Stopping) \in 1 .. Len(argv)
    BY <1>2, <1>3, <2>1, <2>3, Zenon
  <2>5. Min(Stopping) <= Min(Ending) /\ Min(Ending) <= Min(Stopping)
    BY <2>1, <2>2, <2>3, <2>4, Zenon
  <2>6. Min(Stopping) = Min(Ending)
    BY <1>1, <2>4, <2>5
  <2> QED
    BY <1>7, <2>2, <2>6, Zenon DEF StopsAtFirst, EndsAtFirst
<1> QED
  BY <1>5, <1>6, <1>7

\* The first option that is not known, has no parameter or one that does not
\* fit it ends the program, -h with the help, unless it is an empty DNS port;
\* main goes on if there is none.
THEOREM FirstEnds == Spec => []EndsAtFirst
<1>1. LineInv => EndsAtFirst
  BY StopsAreEnds DEF LineInv
<1> QED
  BY <1>1, LineInvariant, PTL

\* When main goes on, its variables are what the last of each option says, and
\* the port of the DNS servers is in both addresses in whatever order the
\* options came.
THEOREM LastOptionCounts == Spec => []LastCounts
<1>1. LineInv => LastCounts
  BY DEF LineInv
<1> QED
  BY <1>1, LineInvariant, PTL

\* The host and the port are the first words that belong to no option, after
\* a "--" if there is one.
THEOREM HostIsNext == Spec => []HostIsFirst
<1>1. LineInv => HostIsFirst
  BY DEF LineInv
<1> QED
  BY <1>1, LineInvariant, PTL

\* The token libmobile is given is the one that was typed, byte by byte.
THEOREM TokenIsTyped == Spec => []TokenRight
<1>1. LineInv => TokenRight
  BY DEF LineInv
<1> QED
  BY <1>1, LineInvariant, PTL
=============================================================================
