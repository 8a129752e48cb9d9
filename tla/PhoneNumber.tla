---------------------------- MODULE PhoneNumber ----------------------------
(***************************************************************************)
(* main.c: the two telephone numbers libmobile reports, which are kept in  *)
(* arrays of MOBILE_MAX_NUMBER_SIZE + 1 characters, and the title of the   *)
(* window that shows them.                                                 *)
(***************************************************************************)
EXTENDS Integers

CONSTANTS
  MaxNumber,    \* MOBILE_MAX_NUMBER_SIZE
  Digits,       \* the characters of a number
  MaxGiven      \* the longest number that is reported

ASSUME NumberAssumption ==
  MaxNumber \in Nat \ {0} /\ MaxGiven \in Nat /\ Digits \subseteq Nat \ {0}

Cell == 0 .. MaxNumber
Types == {"USER", "PEER"}
NUL == 0

\* A C string of n characters: s[n] is its terminator.
Strings(n) == {s \in [0 .. n -> Digits \cup {NUL}] :
                 s[n] = NUL /\ \A k \in 0 .. (n - 1) : s[k] # NUL}
Numbers == UNION {Strings(n) : n \in 0 .. MaxGiven}
NULL == [k \in {0} |-> -1]

VARIABLES
  number,    \* number_user and number_peer
  title,     \* the numbers in the title, cell by cell
  given      \* history: the numbers reported last

vars == <<number, title, given>>

\* The types of the variables.
TypeOK ==
  /\ number \in [Types -> [Cell -> Digits \cup {NUL}]]
  /\ given \in [Types -> Numbers \cup {NULL}]

\* The length of the string in the array a.
strlen(a) == CHOOSE n \in 0 .. (MaxNumber + 1) :
               /\ n = MaxNumber + 1 \/ a[n] = NUL
               /\ \A k \in 0 .. (n - 1) : a[k] # NUL

\* What update_title shows of the arrays: a number, or nothing if it is empty.
update_title(numbers) ==
  [t \in Types |-> [k \in 0 .. (strlen(numbers[t]) - 1) |-> numbers[t][k]]]

\* main; anything may be behind the terminator of an empty string.
Init ==
  /\ number \in [Types -> {a \in [Cell -> Digits \cup {NUL}] : a[0] = NUL}]
  /\ title = update_title(number)
  /\ given = [t \in Types |-> NULL]
-----------------------------------------------------------------------------
Length(s) == CHOOSE n \in 0 .. MaxGiven : s \in Strings(n)

\* Mutant: what is behind the string is copied too.
strncpy_beyond(a, s) ==
  [k \in Cell |-> IF k = MaxNumber THEN a[k]
                  ELSE IF k <= Length(s) THEN s[k] ELSE -1]

\* At most MaxNumber characters are copied; what a shorter string leaves of
\* them is cleared.
strncpy(a, s) ==
  [k \in Cell |-> IF k = MaxNumber THEN a[k]
                  ELSE IF k < Length(s) THEN s[k] ELSE NUL]

\* Mutant: the last cell is not set.
stored_open(a, s) == IF s = NULL THEN [a EXCEPT ![0] = NUL] ELSE strncpy(a, s)

\* The array a after the number s.
stored(a, s) ==
  IF s = NULL THEN [a EXCEPT ![0] = NUL]
  ELSE [strncpy(a, s) EXCEPT ![MaxNumber] = NUL]

impl_update_number(type, s) ==
  /\ number' = [number EXCEPT ![type] = stored(@, s)]
  /\ title' = update_title(number')
  /\ given' = [given EXCEPT ![type] = s]

Next == \E type \in Types, s \in Numbers \cup {NULL} : impl_update_number(type, s)

Spec == Init /\ [][Next]_vars
-----------------------------------------------------------------------------
(* Properties *)

\* The title shows the numbers that were reported last, cut to what the arrays
\* can hold, or none after NULL; it never shows what an earlier and longer
\* number left behind, and reads nothing beyond an array.
TitleShowsLast ==
  \A t \in Types :
    /\ DOMAIN title[t] \subseteq 0 .. (MaxNumber - 1)
    /\ DOMAIN title[t] = {k \in DOMAIN given[t] :
                            k < MaxNumber /\ given[t][k] \notin {NUL, -1}}
    /\ \A k \in DOMAIN title[t] : title[t][k] = given[t][k]
=============================================================================
