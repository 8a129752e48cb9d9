------------------------------- MODULE Startup -------------------------------
(***************************************************************************)
(* main.c and socket.c: what main acquires, in its order, the failures on  *)
(* the way and the two ends of main; socket_connect, which tries one       *)
(* address of the emulator's host after the other.                         *)
(***************************************************************************)
EXTENDS Integers

CONSTANT MaxAddrs    \* addresses getaddrinfo returns for the host, at most

INVALID_SOCKET == -1

\* More than can be open at a time.
Fd == 0 .. MaxAddrs

VARIABLES
  step,        \* the next step of main
  set,         \* the pointers of main that are not NULL
  bgb_sock,
  held,        \* what the process has acquired: the file and the memory ...
  bad,         \* ... what it released without holding it ...
  open,        \* ... and the sockets
  left,        \* socket_connect: the addresses still to try
  sock,        \* its local variable
  status       \* the exit status

vars == <<step, set, bgb_sock, held, bad, open, left, sock, status>>

Steps == {"fopen", "malloc", "mobile_new", "getaddrinfo", "try", "return",
          "setsockopt", "sigaction", "bgb_init", "clock", "loop", "error",
          "exit", "killed"}

\* The types of the variables.
TypeOK ==
  /\ step \in Steps
  /\ {set, held, bad} \subseteq SUBSET {"config", "mobile", "adapter"}
  /\ {bgb_sock, sock} \subseteq Fd \cup {INVALID_SOCKET}
  /\ open \subseteq Fd
  /\ left \in 0 .. MaxAddrs
  /\ status \in {-1, 0, 1}

Init ==
  /\ step = "fopen"
  /\ set = {} /\ bgb_sock = INVALID_SOCKET
  /\ held = {} /\ bad = {} /\ open = {}
  /\ left = 0 /\ sock = INVALID_SOCKET
  /\ status = -1

connectVars == <<left, sock>>

Release(things) ==
  /\ held' = held \ things
  /\ bad' = bad \cup (things \ held)
-----------------------------------------------------------------------------
(* main, up to the emulator *)

\* The step at acquires a thing and stores it in its variable, or main goes
\* to fails.
Acquire(at, thing, next, fails) ==
  /\ step = at
  /\ \/ /\ set' = set \cup {thing} /\ held' = held \cup {thing}
        /\ step' = next
     \/ /\ step' = fails
        /\ UNCHANGED <<set, held>>
  /\ UNCHANGED <<bgb_sock, bad, open, connectVars, status>>

\* fopen "r+b", else "w+b", and the padding.
main_fopen == Acquire("fopen", "config", "malloc", "error")

\* struct mobile_user, and its fields.
main_malloc == Acquire("malloc", "mobile", "mobile_new", "error")

\* mobile_new and the calls that configure the adapter.  A NULL adapter is
\* not checked for: the first mobile_def_ call stores through it.
main_mobile_new == Acquire("mobile_new", "adapter", "getaddrinfo", "killed")
-----------------------------------------------------------------------------
(* socket_connect *)

\* The name is resolved, to one address or more; else INVALID_SOCKET.
socket_connect ==
  /\ step = "getaddrinfo"
  /\ \/ /\ left' \in 1 .. MaxAddrs
        /\ step' = "try"
     \/ /\ step' = "error"
        /\ UNCHANGED left
  /\ sock' = INVALID_SOCKET
  /\ UNCHANGED <<set, bgb_sock, held, bad, open, status>>

\* Mutant: the loop does not end with the list.
AnotherEndless == step = "try"

\* The loop has another address.
Another == step = "try" /\ left > 0

\* One turn of the loop, for a socket that can be opened: it connects, or it
\* is closed again.
socket_connect_try ==
  LET fd == CHOOSE f \in Fd : f \notin open /\ \A g \in Fd \ open : f <= g
  IN
  /\ Another
  /\ sock' = fd
  /\ \/ /\ open' = open \cup {fd}
        /\ step' = "return"
        /\ UNCHANGED left
     \/ /\ left' = left - 1
        /\ UNCHANGED <<step, open>>
  /\ UNCHANGED <<set, bgb_sock, held, bad, status>>

\* One turn of the loop when socket fails.
socket_connect_nosocket ==
  /\ Another
  /\ sock' = INVALID_SOCKET
  /\ left' = left - 1
  /\ UNCHANGED <<step, set, bgb_sock, held, bad, open, status>>

\* The result is sock, if the loop was left by break.
Returns(result) ==
  /\ step = "return" \/ (step = "try" /\ left = 0)
  /\ bgb_sock' = result
  /\ step' = IF result = INVALID_SOCKET THEN "error" ELSE "setsockopt"
  /\ UNCHANGED <<set, held, bad, open, left, sock, status>>

\* Mutant: sock is returned, also after the last address.
socket_connect_return_sock == Returns(sock)

socket_connect_return == Returns(IF left = 0 THEN INVALID_SOCKET ELSE sock)
-----------------------------------------------------------------------------
(* main, with the emulator *)

\* The step at succeeds, or fails and ends the program.
Step(at, next) ==
  /\ step = at
  /\ step' \in {next, "error"}
  /\ UNCHANGED <<set, bgb_sock, held, bad, open, connectVars, status>>

main_setsockopt == Step("setsockopt", "sigaction")
main_sigaction == Step("sigaction", "bgb_init")
main_bgb_init == Step("bgb_init", "clock")
main_clock == Step("clock", "loop")

\* The loop ends; everything is released.  socket_impl_stop has closed the
\* sockets of the adapter.
main_end ==
  /\ step = "loop"
  /\ open' = open \ {bgb_sock}
  /\ Release({"adapter", "mobile", "config"})
  /\ status' = 0
  /\ step' = "exit"
  /\ UNCHANGED <<set, bgb_sock, connectVars>>

\* The error label, releasing things.
ErrorReleases(things) ==
  /\ step = "error"
  /\ Release(things)
  /\ status' = 1
  /\ step' = "exit"
  /\ UNCHANGED <<set, bgb_sock, open, connectVars>>

\* Mutant: the structure is freed without a test.
main_error_untested ==
  ErrorReleases({"adapter", "mobile"} \cup (set \cap {"config"}))

main_error ==
  ErrorReleases((IF "mobile" \in set THEN {"adapter", "mobile"} ELSE {})
                \cup (set \cap {"config"}))

Next ==
  \/ main_fopen \/ main_malloc \/ main_mobile_new
  \/ socket_connect \/ socket_connect_try \/ socket_connect_nosocket
  \/ socket_connect_return
  \/ main_setsockopt \/ main_sigaction \/ main_bgb_init \/ main_clock
  \/ main_end \/ main_error

Spec == Init /\ [][Next]_vars
=============================================================================
