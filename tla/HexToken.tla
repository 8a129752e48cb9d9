------------------------------ MODULE HexToken ------------------------------
(***************************************************************************)
(* main.c: main_parse_hex, which reads a relay token of size bytes.  A     *)
(* character is its code; strings and buffers begin at 0.                  *)
(***************************************************************************)
EXTENDS Integers

CONSTANTS
  size,     \* MOBILE_RELAY_TOKEN_SIZE
  Char      \* the characters of a parameter

ASSUME HexAssumption == size \in Nat \ {0} /\ Char \subseteq 0 .. 127

Index == 0 .. (2 * size - 1)
Buffer == [0 .. (size - 1) -> 0 .. 255]

\* Mutant: the lower case letters count from 0.
digit_lower(c) ==
  CASE c \in 48 .. 57 -> c - 48
    [] c \in 65 .. 70 -> c - (65 - 10)
    [] c \in 97 .. 102 -> c - 97
    [] OTHER -> -1

\* The value of the character c, -1 for one that is no digit.
digit(c) ==
  CASE c \in 48 .. 57 -> c - 48
    [] c \in 65 .. 70 -> c - (65 - 10)
    [] c \in 97 .. 102 -> c - (97 - 10)
    [] OTHER -> -1

\* x <<= 4; x |= c: the low bits are clear.
shifted(x, c) == ((x * 16) % 256) + c

\* The local variables after turn i of the loop for the character c.
Turn(l, i, c) ==
  LET x == shifted(l.x, digit(c))
  IN  IF ~l.ok \/ digit(c) = -1 THEN [l EXCEPT !.ok = FALSE]
      ELSE IF i % 2 = 1 THEN [l EXCEPT !.x = 0, !.buf[i \div 2] = x]
      ELSE [l EXCEPT !.x = x]

\* What is returned (ok) and left in the buffer that held buf, for str.
main_parse_hex(buf, str) ==
  LET loop[i \in -1 .. (2 * size - 1)] ==
        IF i = -1 THEN [ok |-> TRUE, x |-> 0, buf |-> buf]
        ELSE Turn(loop[i - 1], i, str[i])
  IN  loop[2 * size - 1]
-----------------------------------------------------------------------------
(* Hexadecimal numbers *)

\* The character c is the digit n, in either case.
IsDigit(c, n) == \/ n \in 0 .. 9 /\ c = 48 + n
                 \/ n \in 10 .. 15 /\ c \in {55 + n, 87 + n}

IsHex(str) == \A k \in Index : \E n \in 0 .. 15 : IsDigit(str[k], n)

\* str is the bytes buf, each from its own two digits.
IsHexOf(str, buf) ==
  \A k \in 0 .. (size - 1) : \E high, low \in 0 .. 15 :
    /\ IsDigit(str[2 * k], high) /\ IsDigit(str[2 * k + 1], low)
    /\ buf[k] = 16 * high + low
=============================================================================
