-------------------------- MODULE PhoneNumberProofs --------------------------
(***************************************************************************)
(* PhoneNumber for every size of the arrays, every alphabet and numbers of *)
(* every length: TypeOK and TitleShowsLast.                                *)
(***************************************************************************)
EXTENDS PhoneNumber, TLAPS

\* The first m cells of the array a are the characters of a string, and the
\* next one ends it.
Terminated(a, m) == a[m] = NUL /\ \A k \in 0 .. (m - 1) : a[k] # NUL

\* The array a is the number s, or nothing after NULL, cut to MaxNumber
\* characters.
Holds(a, s) ==
  \E m \in 0 .. MaxNumber :
    /\ Terminated(a, m)
    /\ 0 .. (m - 1) = {k \in DOMAIN s : k < MaxNumber /\ s[k] \notin {NUL, -1}}
    /\ \A k \in 0 .. (m - 1) : a[k] = s[k]

\* The inductive invariant.  That the arrays hold the numbers says what the
\* title, which is only computed from the arrays, cannot: where the string of a
\* cell begins and ends when a later number is shorter.
NumberInv ==
  /\ TypeOK
  /\ title = update_title(number)
  /\ \A t \in Types : Holds(number[t], given[t])
-----------------------------------------------------------------------------
(* Strings *)

\* strlen finds the terminator of a string that has one.
LEMMA StrlenIs ==
  ASSUME NEW a, NEW m \in 0 .. MaxNumber, Terminated(a, m)
  PROVE  strlen(a) = m
<1> DEFINE Ends(n) == /\ n = MaxNumber + 1 \/ a[n] = NUL
                      /\ \A k \in 0 .. (n - 1) : a[k] # NUL
<1>1. MaxNumber \in Nat
  BY NumberAssumption
<1>2. m \in 0 .. (MaxNumber + 1) /\ Ends(m)
  BY <1>1 DEF Terminated
<1>3. ASSUME NEW n \in 0 .. (MaxNumber + 1), Ends(n)
      PROVE  n = m
  BY <1>1, <1>3 DEF Terminated
<1> QED
  BY <1>2, <1>3 DEF strlen

\* A string has one length.
LEMMA LengthIs ==
  ASSUME NEW n \in 0 .. MaxGiven, NEW s \in Strings(n)
  PROVE  Length(s) = n
<1>1. MaxGiven \in Nat
  BY NumberAssumption
<1>2. ASSUME NEW m \in 0 .. MaxGiven, s \in Strings(m)
      PROVE  m = n
  BY <1>1, <1>2 DEF Strings
<1> QED
  BY <1>2 DEF Length

\* A string as an array of characters with its terminator.
LEMMA StringCells ==
  ASSUME NEW n \in 0 .. MaxGiven, NEW s \in Strings(n)
  PROVE  /\ DOMAIN s = 0 .. n
         /\ s[n] = NUL
         /\ \A k \in 0 .. (n - 1) : s[k] \in Digits /\ s[k] \notin {NUL, -1}
         /\ s # NULL
<1>1. /\ s \in [0 .. n -> Digits \cup {NUL}] /\ s[n] = NUL
      /\ \A k \in 0 .. (n - 1) : s[k] # NUL
  BY DEF Strings
<1>2. n \in Nat /\ MaxGiven \in Nat /\ Digits \subseteq Nat
  BY NumberAssumption
<1>3. \A k \in 0 .. (n - 1) : s[k] \in Digits /\ s[k] \notin {NUL, -1}
  BY <1>1, <1>2 DEF NUL
<1>4. s # NULL
  <2> SUFFICES ASSUME s = NULL PROVE FALSE
    OBVIOUS
  <2>1. DOMAIN s = {0}
    BY DEF NULL
  <2>2. n = 0
    <3>1. n \in DOMAIN s
      BY <1>1, <1>2
    <3> QED
      BY <2>1, <3>1
  <2>3. NULL[0] = -1
    BY DEF NULL
  <2> QED
    BY <1>1, <2>2, <2>3 DEF NUL
<1> QED
  BY <1>1, <1>3, <1>4
-----------------------------------------------------------------------------
(* impl_update_number *)

\* NULL leaves an array that holds nothing.
LEMMA StoresNull ==
  ASSUME NEW a \in [Cell -> Digits \cup {NUL}]
  PROVE  /\ stored(a, NULL) \in [Cell -> Digits \cup {NUL}]
         /\ Holds(stored(a, NULL), NULL)
<1>1. MaxNumber \in Nat /\ 0 \in Cell
  BY NumberAssumption DEF Cell
<1>2. stored(a, NULL) = [a EXCEPT ![0] = NUL]
  BY DEF stored
<1> DEFINE b == [a EXCEPT ![0] = NUL]
<1>3. b \in [Cell -> Digits \cup {NUL}] /\ b[0] = NUL
  BY <1>1
<1>4. {k \in DOMAIN NULL : k < MaxNumber /\ NULL[k] \notin {NUL, -1}} = {}
  BY DEF NULL
<1> HIDE DEF b
<1>5. 0 .. (0 - 1) = {}
  OBVIOUS
<1>6. Terminated(b, 0)
  BY <1>3 DEF Terminated
<1>7. Holds(b, NULL)
  BY <1>1, <1>4, <1>5, <1>6 DEF Holds
<1> QED
  BY <1>2, <1>3, <1>7 DEF b

\* strncpy and the terminator after it leave an array that holds the string,
\* cut to MaxNumber characters.
LEMMA StoresString ==
  ASSUME NEW a \in [Cell -> Digits \cup {NUL}],
         NEW n \in 0 .. MaxGiven, NEW s \in Strings(n)
  PROVE  /\ stored(a, s) \in [Cell -> Digits \cup {NUL}]
         /\ Holds(stored(a, s), s)
<1> DEFINE b == stored(a, s)
           m == IF n < MaxNumber THEN n ELSE MaxNumber
<1>1. MaxNumber \in Nat \ {0} /\ n \in Nat
  BY NumberAssumption
<1>2. /\ DOMAIN s = 0 .. n /\ s[n] = NUL /\ s # NULL
      /\ \A k \in 0 .. (n - 1) : s[k] \in Digits /\ s[k] \notin {NUL, -1}
  BY StringCells
<1>3. strncpy(a, s) = [k \in Cell |-> IF k = MaxNumber THEN a[k]
                                      ELSE IF k < n THEN s[k] ELSE NUL]
  BY LengthIs DEF strncpy
<1>4. b = [strncpy(a, s) EXCEPT ![MaxNumber] = NUL]
  BY <1>2 DEF stored
<1>5. b = [k \in Cell |-> IF k = MaxNumber THEN NUL
                          ELSE IF k < n THEN s[k] ELSE NUL]
  BY <1>3, <1>4, Zenon
<1> HIDE DEF b
<1>6. b \in [Cell -> Digits \cup {NUL}]
  BY <1>1, <1>2, <1>5 DEF Cell
<1>7. m \in 0 .. MaxNumber /\ m <= n /\ m \in Nat
  BY <1>1
<1>8. \A k \in 0 .. (m - 1) : b[k] = s[k] /\ b[k] # NUL
  BY <1>1, <1>2, <1>5 DEF Cell
<1>9. b[m] = NUL
  BY <1>1, <1>5 DEF Cell
<1>10. 0 .. (m - 1) = {k \in DOMAIN s : k < MaxNumber /\ s[k] \notin {NUL, -1}}
  <2>1. ASSUME NEW k \in 0 .. (m - 1)
        PROVE  k \in DOMAIN s /\ k < MaxNumber /\ s[k] \notin {NUL, -1}
    BY <1>1, <1>2, <2>1
  <2>2. ASSUME NEW k \in DOMAIN s, k < MaxNumber, s[k] \notin {NUL, -1}
        PROVE  k \in 0 .. (m - 1)
    <3>1. k \in 0 .. n /\ k # n
      BY <1>2, <2>2
    <3> QED
      BY <1>1, <2>2, <3>1
  <2> QED
    BY <2>1, <2>2
<1> HIDE DEF m
<1>11. Terminated(b, m)
  BY <1>8, <1>9 DEF Terminated
<1>12. Holds(b, s)
  BY <1>7, <1>8, <1>10, <1>11 DEF Holds
<1> QED
  BY <1>6, <1>12 DEF b

\* Whatever libmobile reports, the array holds it afterwards.
LEMMA Stores ==
  ASSUME NEW a \in [Cell -> Digits \cup {NUL}], NEW s \in Numbers \cup {NULL}
  PROVE  /\ stored(a, s) \in [Cell -> Digits \cup {NUL}]
         /\ Holds(stored(a, s), s)
<1>1. CASE s = NULL
  BY <1>1, StoresNull
<1>2. CASE s \in Numbers
  <2>1. PICK n \in 0 .. MaxGiven : s \in Strings(n)
    BY <1>2 DEF Numbers
  <2> QED
    BY <2>1, StoresString
<1> QED
  BY <1>1, <1>2
-----------------------------------------------------------------------------
(* The invariant *)

\* The numbers are empty when the program starts, whatever is behind their
\* terminators.
LEMMA NumberInit ==
  ASSUME Init
  PROVE  NumberInv
<1>1. /\ number \in [Types -> [Cell -> Digits \cup {NUL}]]
      /\ \A t \in Types : number[t][0] = NUL
      /\ title = update_title(number)
      /\ given = [t \in Types |-> NULL]
  BY DEF Init
<1>2. TypeOK
  BY <1>1 DEF TypeOK
<1>3. ASSUME NEW t \in Types
      PROVE  Holds(number[t], given[t])
  <2>1. given[t] = NULL
    BY <1>1
  <2>2. {k \in DOMAIN NULL : k < MaxNumber /\ NULL[k] \notin {NUL, -1}} = {}
    BY DEF NULL
  <2>3. 0 .. (0 - 1) = {} /\ 0 \in 0 .. MaxNumber
    BY NumberAssumption
  <2>4. Terminated(number[t], 0)
    BY <1>1, <2>3 DEF Terminated
  <2> QED
    BY <2>1, <2>2, <2>3, <2>4 DEF Holds
<1> QED
  BY <1>1, <1>2, <1>3 DEF NumberInv

\* impl_update_number keeps the invariant: it changes one of the arrays, and
\* computes the title anew from both.
LEMMA NumberNext ==
  ASSUME NumberInv, NEW u \in Types, NEW s \in Numbers \cup {NULL},
         impl_update_number(u, s)
  PROVE  NumberInv'
<1>1. /\ number \in [Types -> [Cell -> Digits \cup {NUL}]]
      /\ given \in [Types -> Numbers \cup {NULL}]
      /\ \A t \in Types : Holds(number[t], given[t])
  BY DEF NumberInv, TypeOK
<1>2. /\ number' = [number EXCEPT ![u] = stored(number[u], s)]
      /\ title' = update_title(number')
      /\ given' = [given EXCEPT ![u] = s]
  BY DEF impl_update_number
<1>3. /\ stored(number[u], s) \in [Cell -> Digits \cup {NUL}]
      /\ Holds(stored(number[u], s), s)
  BY <1>1, Stores
<1>4. TypeOK'
  BY <1>1, <1>2, <1>3 DEF TypeOK
<1>5. ASSUME NEW t \in Types
      PROVE  Holds(number'[t], given'[t])
  <2>1. CASE t = u
    BY <1>1, <1>2, <1>3, <2>1
  <2>2. CASE t # u
    BY <1>1, <1>2, <2>2
  <2> QED
    BY <2>1, <2>2
<1>6. (title = update_title(number))'
  BY <1>2 DEF update_title
<1>7. (\A t \in Types : Holds(number[t], given[t]))'
  BY <1>5 DEF Holds, Terminated
<1> QED
  BY <1>4, <1>6, <1>7 DEF NumberInv

\* The arrays hold the numbers that were reported last.
THEOREM NumberInvariant == Spec => []NumberInv
<1>1. Init => NumberInv
  BY NumberInit
<1>2. NumberInv /\ Next => NumberInv'
  BY NumberNext DEF Next
<1>3. ASSUME NumberInv, UNCHANGED vars
      PROVE  NumberInv'
  <2>1. number' = number /\ title' = title /\ given' = given
    BY <1>3 DEF vars
  <2>2. TypeOK'
    BY <1>3, <2>1 DEF NumberInv, TypeOK
  <2>3. (title = update_title(number))'
    BY <1>3, <2>1 DEF NumberInv, update_title
  <2>4. (\A t \in Types : Holds(number[t], given[t]))'
    BY <1>3, <2>1 DEF NumberInv, Holds, Terminated
  <2> QED
    BY <2>2, <2>3, <2>4 DEF NumberInv
<1> QED
  BY <1>1, <1>2, <1>3, PTL DEF Spec

\* The arrays contain characters of numbers and terminators only.
THEOREM NumberTyped == Spec => []TypeOK
<1>1. NumberInv => TypeOK
  BY DEF NumberInv
<1> QED
  BY <1>1, NumberInvariant, PTL

\* update_title shows the numbers impl_update_number was called with last, cut
\* to what the arrays hold, for arrays of every size and numbers of any length.
THEOREM TitleIsLast == Spec => []TitleShowsLast
<1>1. ASSUME NumberInv, NEW t \in Types
      PROVE  /\ DOMAIN title[t] \subseteq 0 .. (MaxNumber - 1)
             /\ DOMAIN title[t] = {k \in DOMAIN given[t] :
                                     k < MaxNumber /\ given[t][k] \notin {NUL, -1}}
             /\ \A k \in DOMAIN title[t] : title[t][k] = given[t][k]
  <2> DEFINE a == number[t]
  <2>1. PICK m \in 0 .. MaxNumber :
          /\ Terminated(a, m)
          /\ 0 .. (m - 1) = {k \in DOMAIN given[t] :
                               k < MaxNumber /\ given[t][k] \notin {NUL, -1}}
          /\ \A k \in 0 .. (m - 1) : a[k] = given[t][k]
    BY <1>1 DEF NumberInv, Holds
  <2>2. strlen(a) = m
    BY <2>1, StrlenIs
  <2>3. title[t] = [k \in 0 .. (strlen(a) - 1) |-> a[k]]
    BY <1>1 DEF NumberInv, update_title
  <2>4. title[t] = [k \in 0 .. (m - 1) |-> a[k]]
    BY <2>2, <2>3
  <2>5. 0 .. (m - 1) \subseteq 0 .. (MaxNumber - 1)
    BY <2>1, NumberAssumption
  <2> QED
    BY <2>1, <2>4, <2>5
<1>2. NumberInv => TitleShowsLast
  BY <1>1 DEF TitleShowsLast
<1> QED
  BY <1>2, NumberInvariant, PTL
=============================================================================
