----------------------------- MODULE Lifecycle -----------------------------
(***************************************************************************)
(* The program from its start to its end, and the next one after it:       *)
(* Startup, which acquires and releases, with ConfigFile, the file it      *)
(* opens first and closes last.  Any step may fail, and the process may be *)
(* killed at any of them.                                                  *)
(***************************************************************************)
EXTENDS ConfigFile

CONSTANT MaxAddrs

ASSUME AddrsAssumption == MaxAddrs \in Nat \ {0}

VARIABLES step, set, bgb_sock, held, bad, open, left, sock, status

Main == INSTANCE Startup

mainVars == <<step, set, bgb_sock, held, bad, open, left, sock, status>>
allVars == <<vars, mainVars>>

LifeInit == Init /\ Main!Init

\* The file is open and padded before anything else is done.
Fopen == Main!main_fopen /\ step' = "malloc" /\ main_open
FopenFails ==
  /\ Main!main_fopen /\ step' = "error"
  /\ UNCHANGED vars
Rewind == main_rewind /\ UNCHANGED mainVars

\* The steps of main that leave the file alone.  The crash in mobile_new is
\* among those of Killed.
MainStep ==
  /\ pc = "run"
  /\ \/ Main!main_malloc \/ (Main!main_mobile_new /\ step' # "killed")
     \/ Main!socket_connect \/ Main!socket_connect_try
     \/ Main!socket_connect_nosocket \/ Main!socket_connect_return
     \/ Main!main_setsockopt \/ Main!main_sigaction
     \/ Main!main_bgb_init \/ Main!main_clock
  /\ UNCHANGED vars

\* libmobile is called, and may use the configuration, when it is configured
\* and while packets are handled.
LibmobileCalled == step \in {"getaddrinfo", "clock", "loop"}

Libmobile ==
  /\ LibmobileCalled
  /\ \E offset \in Addr : \E n \in 1 .. (ConfigSize - offset) :
       \/ impl_config_read(offset, n)
       \/ \E data \in [offset .. (offset + n - 1) -> Byte] :
            impl_config_write(offset, n, data)
  /\ UNCHANGED mainVars

MainEnd == Main!main_end /\ main_fclose

\* The error label closes the file if it was opened.
CloseIfOpen ==
  \/ "config" \in set /\ main_fclose
  \/ /\ "config" \notin set
     /\ pc' = "exited"
     /\ UNCHANGED <<disk, size, pend, pos, answer, saved, before>>

MainError == Main!main_error /\ CloseIfOpen

\* The system takes back what a process has held; the next one begins with
\* nothing.
NoProcess ==
  /\ set' = {} /\ bgb_sock' = Main!INVALID_SOCKET
  /\ held' = {} /\ open' = {}
  /\ left' = 0 /\ sock' = Main!INVALID_SOCKET /\ status' = -1
  /\ UNCHANGED bad

Killed == Kill /\ step' = "killed" /\ NoProcess

Again == Restart /\ step' = "fopen" /\ NoProcess

LifeNext ==
  \/ Fopen \/ FopenFails \/ Rewind \/ MainStep \/ Libmobile
  \/ MainEnd \/ MainError \/ Killed \/ Again

LifeSpec == LifeInit /\ [][LifeNext]_allVars
-----------------------------------------------------------------------------
(* Properties *)

\* The types of the variables of both.
LifeTypeOK == TypeOK /\ Main!TypeOK

\* However main ends, the file, the structure and the adapter have each been
\* released if they were acquired, and released once.
ReleasedOnce == bad = {} /\ (step = "exit" => held = {})

\* socket_connect returns the one socket that is open and connected, or
\* INVALID_SOCKET with none open, whichever addresses it tried in vain; at
\* most one is open at a time, and a clean end leaves none.
OneSocket ==
  /\ bgb_sock # Main!INVALID_SOCKET /\ step # "exit" => open = {bgb_sock}
  /\ bgb_sock = Main!INVALID_SOCKET /\ step # "return" => open = {}
  /\ status = 0 => open = {}
=============================================================================
