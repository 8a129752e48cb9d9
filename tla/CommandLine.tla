---------------------------- MODULE CommandLine ----------------------------
(***************************************************************************)
(* main.c: the options of the command line.  argv is any sequence of up to *)
(* MaxArgs words; what a word means as a parameter is what the parsers     *)
(* called on it return.                                                    *)
(***************************************************************************)
EXTENDS HexToken, FiniteSetsExt, Sequences

CONSTANTS
  MaxArgs,
  Garbage     \* a byte of a buffer that is not initialised

ASSUME ArgsAssumption ==
  MaxArgs \in Nat \ {0, 1} /\ Garbage \in 0 .. 255 /\ {65, 71} \subseteq Char

WithParam == {"-c", "--device", "--dns1", "--dns2", "--dns_port", "--p2p_port",
              "--relay", "--relay-token"}
Options == WithParam \cup {"-h", "--unmetered", "-x"}

\* addr4 and addr6 are addresses, 54 is a number, token a word of the length
\* of a relay token; name is none of these.
Words == {"addr4", "addr6", "54", "token", "name", ""}
Argv == UNION {[1 .. n -> Options \cup {"--"} \cup Words] : n \in 0 .. MaxArgs}

MOBILE_DNS_PORT == 53
MOBILE_DEFAULT_P2P_PORT == 1027
MOBILE_DEFAULT_RELAY_PORT == 31227

VARIABLES
  argv,
  str,        \* the characters of the word token
  at,         \* the index of *argv
  status,     \* parsing, usage or help: the program has exited; done
  opt         \* the local variables the options are kept in

vars == <<argv, str, at, status, opt>>

Addr == [type : {"NONE", "IPV4", "IPV6"}, host : Words \cup {"none"}, port : Nat]
NoAddr == [type |-> "NONE", host |-> "none", port |-> 0]
Defaults ==
  [config |-> "config.bin", device |-> 8, unmetered |-> FALSE,
   dns1 |-> NoAddr, dns2 |-> NoAddr, dns_port |-> MOBILE_DNS_PORT,
   p2p_port |-> MOBILE_DEFAULT_P2P_PORT, relay |-> NoAddr,
   token_update |-> FALSE, token |-> "NULL",
   token_buf |-> [k \in 0 .. (size - 1) |-> Garbage],
   host |-> "127.0.0.1", port |-> "8765"]

\* The types of the variables.
TypeOK ==
  /\ argv \in Argv /\ str \in [Index -> Char]
  /\ at \in 1 .. (Len(argv) + 1)
  /\ status \in {"parsing", "usage", "help", "done"}
  /\ {opt.dns1, opt.dns2, opt.relay} \subseteq Addr
  /\ {opt.dns_port, opt.p2p_port, opt.device} \subseteq Nat
  /\ opt.token_buf \in Buffer

\* Any command line, its token all "A", which are digits of a relay token but of
\* no port, or all "G"; or a relay token of any characters.
Init ==
  /\ \/ argv \in Argv /\ str \in {[k \in Index |-> c] : c \in {65, 71}}
     \/ argv = <<"--relay-token", "token">> /\ str \in [Index -> Char]
  /\ at = 1
  /\ status = "parsing"
  /\ opt = Defaults
-----------------------------------------------------------------------------
(* The parsers of parameters *)

\* mobile_inet_pton: the kind of address.
pton(w) == CASE w = "addr4" -> "IPV4" [] w = "addr6" -> "IPV6" [] OTHER -> "NONE"

\* strtol: the number, and whether it ended at the end of the word.
strtol(w) == IF w = "54" THEN 54 ELSE 0
AtEnd(w) == w \in {"54", ""}

main_parse_addr(addr, w) == [addr EXCEPT !.type = pton(w), !.host = w]

main_set_port(addr, port) ==
  IF addr.type = "NONE" THEN addr ELSE [addr EXCEPT !.port = port]
-----------------------------------------------------------------------------
(* The loop over argv *)

More == status = "parsing" /\ at <= Len(argv)
Param == argv[at + 1]

Exit(how) == status' = how /\ UNCHANGED <<argv, str, at, opt>>

\* Mutants: main_checkparam is not called; a parameter that does not fit is
\* accepted.
Option_unchecked(o, ok, new) ==
  /\ More /\ argv[at] = o
  /\ opt' = IF at = Len(argv) THEN opt ELSE new
  /\ at' = at + 2
  /\ UNCHANGED <<argv, str, status>>

Option_lenient(o, ok, new) ==
  /\ More /\ argv[at] = o
  /\ IF at = Len(argv) THEN Exit("usage")
     ELSE opt' = new /\ at' = at + 2 /\ UNCHANGED <<argv, str, status>>

\* The option o, which needs a parameter; the parameter is in order if ok, and
\* the variables are then new.
Option(o, ok, new) ==
  /\ More /\ argv[at] = o
  /\ IF at = Len(argv) \/ ~ok THEN Exit("usage")
     ELSE opt' = new /\ at' = at + 2 /\ UNCHANGED <<argv, str, status>>

main_help == More /\ argv[at] = "-h" /\ Exit("help")
main_config == Option("-c", TRUE, [opt EXCEPT !.config = Param])
main_device == Option("--device", TRUE, [opt EXCEPT !.device = strtol(Param)])

main_unmetered ==
  /\ More /\ argv[at] = "--unmetered"
  /\ opt' = [opt EXCEPT !.unmetered = TRUE]
  /\ at' = at + 1
  /\ UNCHANGED <<argv, str, status>>

main_dns1 == Option("--dns1", pton(Param) # "NONE",
                    [opt EXCEPT !.dns1 = main_parse_addr(@, Param)])
main_dns2 == Option("--dns2", pton(Param) # "NONE",
                    [opt EXCEPT !.dns2 = main_parse_addr(@, Param)])

\* The test for an empty parameter looks at the option's own name.
main_dns_port == Option("--dns_port", argv[at] # "" /\ AtEnd(Param),
                        [opt EXCEPT !.dns_port = strtol(Param)])
main_p2p_port == Option("--p2p_port", TRUE, [opt EXCEPT !.p2p_port = strtol(Param)])

main_relay ==
  Option("--relay", pton(Param) # "NONE",
         [opt EXCEPT !.relay = main_set_port(main_parse_addr(@, Param),
                                             MOBILE_DEFAULT_RELAY_PORT)])

\* A parameter of the right length is read, into the same buffer each time.
Parsed == main_parse_hex(opt.token_buf, str)

\* Mutant: an empty token does not clear the one set before.
main_relay_token_keep ==
  Option("--relay-token", Param = "" \/ (Param = "token" /\ Parsed.ok),
         [opt EXCEPT !.token_update = TRUE,
                     !.token = IF Param = "" THEN @ ELSE "token_buf",
                     !.token_buf = IF Param = "" THEN @ ELSE Parsed.buf])

main_relay_token ==
  Option("--relay-token", Param = "" \/ (Param = "token" /\ Parsed.ok),
         [opt EXCEPT !.token_update = TRUE,
                     !.token = IF Param = "" THEN "NULL" ELSE "token_buf",
                     !.token_buf = IF Param = "" THEN @ ELSE Parsed.buf])

main_unknown == More /\ argv[at] = "-x" /\ Exit("usage")

\* Mutant: "--" is taken for the host.
SkipNone == at

\* The index of the host: after "--", if the loop ended there.
Skip == IF More /\ argv[at] = "--" THEN at + 1 ELSE at

\* The end of the loop, the host and the port, and the ports of the DNS
\* addresses.
main_done ==
  /\ status = "parsing"
  /\ ~(More /\ argv[at] \in Options)
  /\ opt' = [opt EXCEPT
       !.host = IF Skip <= Len(argv) THEN argv[Skip] ELSE @,
       !.port = IF Skip + 1 <= Len(argv) THEN argv[Skip + 1] ELSE @,
       !.dns1 = main_set_port(@, opt.dns_port),
       !.dns2 = main_set_port(@, opt.dns_port)]
  /\ status' = "done"
  /\ UNCHANGED <<argv, str, at>>

Exited == status # "parsing" /\ UNCHANGED vars

Next ==
  \/ main_help \/ main_config \/ main_device \/ main_unmetered
  \/ main_dns1 \/ main_dns2 \/ main_dns_port \/ main_p2p_port
  \/ main_relay \/ main_relay_token \/ main_unknown \/ main_done \/ Exited

Spec == Init /\ [][Next]_vars
-----------------------------------------------------------------------------
(* What the words of argv are, read off from the whole of it *)

\* Whether the i-th word is an option: the words before it are options and
\* their parameters.
IsOption ==
  LET opts[i \in 0 .. Len(argv)] ==
        /\ i > 0
        /\ argv[i] \in Options
        /\ \/ i = 1
           \/ opts[i - 1] /\ argv[i - 1] \notin WithParam
           \/ i > 2 /\ opts[i - 2] /\ argv[i - 2] \in WithParam
  IN opts

Given(o) == {i \in DOMAIN argv : IsOption[i] /\ argv[i] = o}

\* The parameter of the last o that is given, read by f, or the default.
Chosen(o, default, f(_)) ==
  IF Given(o) = {} THEN default ELSE f(argv[Max(Given(o)) + 1])

\* Whether w is a parameter for o, as the program's messages say.
Fits(o, w) ==
  CASE o \in {"--dns1", "--dns2", "--relay"} -> w \in {"addr4", "addr6"}
    [] o = "--dns_port" -> w = "54"
    [] o = "--relay-token" -> w = "" \/ (w = "token" /\ IsHex(str))
    [] OTHER -> TRUE

\* The options that should end the program.
Ending == {i \in DOMAIN argv : IsOption[i] /\
             \/ argv[i] \in {"-h", "-x"}
             \/ argv[i] \in WithParam /\ (i = Len(argv) \/ ~Fits(argv[i], argv[i + 1]))}

\* Those of them that do not: see EmptyPortRefused.
EmptyPorts == {i \in Given("--dns_port") : i < Len(argv) /\ argv[i + 1] = ""}

\* The words that are neither options nor their parameters.
Rest ==
  LET used == {i \in DOMAIN argv : IsOption[i] \/
                 (i > 1 /\ IsOption[i - 1] /\ argv[i - 1] \in WithParam)}
      end == IF used = {} THEN 1 ELSE Max(used) + 1
      dashes == end <= Len(argv) /\ argv[end] = "--"
  IN SubSeq(argv, IF dashes THEN end + 1 ELSE end, Len(argv))
-----------------------------------------------------------------------------
(* Properties *)

\* The program goes on if every option is known and has a parameter that fits
\* it; else the first one that is not so ends it, and a word that is another
\* option's parameter is never taken for an option.  Only where that first one
\* is an empty DNS port, which the program fails to refuse, is nothing claimed.
EndsAtFirst ==
  status # "parsing" =>
    \/ status = IF Ending = {} THEN "done"
                ELSE IF argv[Min(Ending)] = "-h" THEN "help" ELSE "usage"
    \/ Ending # {} /\ Min(Ending) \in EmptyPorts

\* Of an option that is given several times the last one counts, an empty
\* relay token clears one given before, and the DNS port applies to both
\* addresses whichever of the options comes first; an address that is not
\* given stays unset, so that libmobile does not override the server's.
LastCounts ==
  status = "done" =>
    LET same(w) == w
        address(p) == [w \in Words |-> [type |-> pton(w), host |-> w, port |-> p]]
        dns_port == Chosen("--dns_port", MOBILE_DNS_PORT, strtol)
        dns(w) == address(dns_port)[w]
        relay(w) == address(MOBILE_DEFAULT_RELAY_PORT)[w]
        token(w) == IF w = "" THEN "NULL" ELSE "token_buf"
    IN  /\ opt.config = Chosen("-c", "config.bin", same)
        /\ opt.device = Chosen("--device", Defaults.device, strtol)
        /\ opt.p2p_port = Chosen("--p2p_port", MOBILE_DEFAULT_P2P_PORT, strtol)
        /\ opt.unmetered = (Given("--unmetered") # {})
        /\ opt.dns1 = Chosen("--dns1", NoAddr, dns)
        /\ opt.dns2 = Chosen("--dns2", NoAddr, dns)
        /\ opt.relay = Chosen("--relay", NoAddr, relay)
        /\ opt.token_update = (Given("--relay-token") # {})
        /\ opt.token = Chosen("--relay-token", "NULL", token)

\* The host and the port are the first words that belong to no option.
HostIsFirst ==
  status = "done" =>
    /\ opt.host = IF Len(Rest) >= 1 THEN Rest[1] ELSE Defaults.host
    /\ opt.port = IF Len(Rest) >= 2 THEN Rest[2] ELSE Defaults.port

\* The relay token libmobile is given has each of its bytes from its own two
\* digits, whatever the buffer held before.
TokenRight ==
  status = "done" /\ opt.token = "token_buf" => IsHexOf(str, opt.token_buf)

\* main.c:384-387 refuses, as "Invalid parameter for --dns_port", a parameter
\* with no digits in it.
EmptyPortRefused ==
  status = "done" => \A i \in Given("--dns_port") : argv[i + 1] # ""
=============================================================================
