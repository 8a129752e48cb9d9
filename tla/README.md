# libmobile-bgb in TLA+

libmobile-bgb connects the BGB Game Boy emulator to libmobile, a library that
emulates the Mobile Adapter GB.  One process, one thread: it talks BGB's link
protocol over a TCP connection, hands each byte the game shifts out to the
adapter, tells the adapter the emulated time, and gives it sockets to the
internet.  This directory models that program, checks the models with TLC and
proves their safety properties with TLAPS.  Line numbers refer to `source/`.

## The system

| Part | State | Operations | Talks to |
|---|---|---|---|
| BGB link (`bgblink.c`) | `struct bgb_state`: `byte`, the answer to the next byte; `timestamp_last`, `timestamp_init` | `bgb_init` (handshake), `bgb_loop` (one packet) | the emulator, over a blocking socket; `main.c` through two callbacks |
| Main loop (`main.c`) | `struct mobile_user`: `action`, `reset`, the clock and its latches; `signal_int_trig` | wait for the clock, `mobile_start`, main loop, `mobile_handle_loop`, shutdown | all other parts |
| Clock and timers (`main.c`) | `bgb_clock`, `bgb_clock_init`, `bgb_clock_latch` | `bgb_loop_timestamp(_init)`, `impl_time_latch`, `impl_time_check_ms` | written by the link's callback, read by libmobile |
| Adapter's sockets (`socket_impl.c`) | `sockets[]`, one descriptor per connection | init, open, close, connect, listen, accept, send, recv, stop | called by libmobile; the main loop polls the table |
| Socket layer (`socket.c`) | none | `socket_hasdata`, `socket_wait`, `socket_setblocking`, `socket_connect` | the operating system |
| Configuration (`main.c:36-48, 434-447`) | a stdio stream | read, write, padding of a new file | called by libmobile |
| Start-up, options, title (`main.c`) | numbers, options | parsing, error exits | the user |
| libmobile | not in the repository | `mobile_start`, `mobile_stop`, `mobile_transfer`, `mobile_actions_get`, `mobile_actions_process` | calls back into `main.c` |
| BGB | not in the repository | sends VERSION, STATUS, SYNC1, SYNC3, JOYPAD ... | the link |

What is hard about it:

- **Time.** The emulator stamps packets with a 31-bit counter that wraps every
  1024 seconds, may run slightly backwards (a BGB bug), and jumps when the
  emulator is reset or loads a save state.  From differences of stamps alone the
  program must tell a jump, which restarts the adapter, from normal running.
- **Two clocks, two callbacks.**  The link and the adapter each keep the last
  stamp; the callback that connects them is exchanged after the first packet.
- **Order within a turn.**  A reset is noticed in the middle of `bgb_loop`, and
  carried out later, in `mobile_handle_loop`, while an action fetched earlier
  may be pending.
- **Blocking and ending.**  The emulator may hang up at any moment, not read,
  or stay silent; SIGINT may arrive anywhere and interrupts some calls; a send
  to a closed connection may kill the process.
- **Descriptors.**  The system reuses descriptors at once, every call may fail,
  and the accepted socket replaces the listening one.
- **Partial results.**  The kernel takes and gives any part of a buffer, or
  nothing; a length of 0 is the end of a stream but an empty datagram; a look at
  the data must not take it.
- **A process that dies.**  The configuration goes through the buffer of stdio,
  which a killed process takes with it, and the next run finds what is left.

What makes the parts correct: the adapter is restarted exactly when the emulator
was; timers are exact between restarts; the exchange of bytes is that of a serial
port; the program ends when it should and never stops answering before; the table
of sockets has no stale entry, never blocks the thread and leaks nothing; a
connection is a pipe each way; what was stored is read back, and a kill costs at
most the last write; every failure of the start-up releases what was acquired.
`PROJECT.json` lists the hazards line by line, with the properties aimed at them.

## The modules

| Module | Models | |
|---|---|---|
| `BgbClock` | the arithmetic on stamps | `Elapsed` is `(t - s) & 0x7FFFFFFF`; `WentBack` the filter of `bgb_loop`, `Jumped` the test of `bgb_loop_timestamp` |
| `BgbWire` | the TCP connection, and the emulator (external) | two bounded queues of packets; the emulator's clock; history `trail` |
| `BgbLink` | `bgblink.c` | `bgb_init` in steps; what `bgb_loop` computes for a packet |
| `MobileLoop` | `main.c` around it, composing all of the above | one action per step of the thread; the emulator; SIGINT; SIGPIPE |
| `SerialExchange` | abstract: a serial port that loses nothing while both ends are there | implemented by `MobileLoop` (`ExchangeSpec`) |
| `SocketImpl` | `socket_impl.c` over the system's table of descriptors | one action per operation, one more per way it fails |
| `ConnTable` | abstract: connections that do not know of each other | implemented by `SocketImpl` (`TableSpec`) |
| `SocketCalls`, `SockAddr` | what `socket_impl_send` and `socket_impl_recv` make of the system's answers and addresses | pure functions |
| `SocketStream` | send and recv on a TCP connection, with network and peer | bytes are numbered; the peer may end or reset |
| `Pipe` | abstract: one direction of a connection | implemented twice by `SocketStream` (`ReceivesStream`, `SendsStream`) |
| `SocketDatagram` | send and recv on a UDP connection | several peers, IPv4 and IPv6, empty and lost datagrams |
| `SocketData` | a connection of either type, composing the two | the type decides what a length of 0 means |
| `ConfigFile` | the configuration file (main.c:36-48, 434-447, 575, 584) | stdio's buffer, kills, restarts |
| `Startup` | `main` up to its loop, its two ends, `socket_connect` | every step may fail |
| `Lifecycle` | the program from start to end and its next start, composing the two | any step may fail or be the last |
| `HexToken` | `main_parse_hex` | a function, and a definition of hexadecimal numbers |
| `CommandLine` | the loop over `argv` (main.c:266-432), with `HexToken` | one action per option |
| `PhoneNumber` | `impl_update_number`, `update_title` | arrays with what earlier numbers left in them |
| `MCMobileLoop`, `MCSocketImpl`, `MCSocketData` | definitions for TLC only | |
| `MobileLoopProofs`, `ResetProofs` | theorems about `MobileLoop`: the loop; restarts and timers | |
| `ExchangeProofs` | that `MobileLoop` implements `SerialExchange` | |
| `SocketProofs` | theorems about `SocketImpl`, and that it implements `ConnTable` | |
| `SocketDataProofs` | theorems about `SocketData`, and that it implements `Pipe` each way | |
| `LifecycleProofs` | theorems about `Lifecycle`, `ConfigFile` and `Startup` | |
| `CommandLineProofs` | theorems about `CommandLine` and `HexToken` | |
| `PhoneNumberProofs` | theorems about `PhoneNumber` | |

### MobileLoop

The program has one thread, so its state is the C structures plus a program
counter.  `pc` names the places where the thread can block or where another
actor can tell the difference:

    greet -> version -> status     bgb_init, waiting in send or recv
    clock                          main.c:539, until the first packet
    loop -> handle -> process -> wait -> loop ...
                                   bgb_loop, mobile_handle_loop,
                                   mobile_actions_process, socket_wait
    stop -> exited                 after the main loop
    failed, killed                 the error label; SIGPIPE

| Code | Definition |
|---|---|
| `bgb_init` (bgblink.c:70-115) | `bgb_init_greet`, `bgb_init_version`, `bgb_init_status`, `bgb_init_fails` |
| `bgb_loop` (117-195) with both callbacks | `bgb_loop_sync1`, `bgb_loop_other`, `bgb_loop_nodata`, `bgb_loop_false` |
| `bgb_send`, `bgb_recv` (50-68) | `bgb_send`, `SendBlocked`, `bgb_send_kills`, `Receives`, `bgb_recv_fails` |
| callbacks (main.c:206-236) | `bgb_loop_transfer`, `bgb_loop_timestamp`, `bgb_loop_timestamp_init`, chosen by `callback_timestamp` |
| timers (50-62) | `impl_time_latch`, `impl_time_check_ms` |
| `mobile_handle_loop` (180-204) | `mobile_handle_loop` up to the call of `mobile_actions_process`, `mobile_actions_process` after it |
| `socket_wait` (559, socket.c:122-149) | `socket_wait`: may return at any time, as it has a time-out |
| the rest of `main` (537-577) | `main_start`, `main_break`, `main_stop` |
| `signal_int` (156-161) without SA_RESTART (517) | `signal_int`: sets the flag, and makes a blocked call fail |

`bgb_loop` is one action although it sends, calls the adapter and stamps in that
order: no other actor sees the program's memory, and what it sends is in the
connection either way.  If the send fails nothing after it happens
(`bgb_loop_false`).  `socket_hasdata` returns 0 or less with nothing to read and
when poll fails, so `bgb_loop_nodata` may happen at any time.

libmobile is not in the repository.  It may answer any byte, ask for any actions
and latch any timers whenever it is called (`ret`, `w` and `L` in the actions).
mobile_start may latch timers; the others mean nothing afterwards.

The emulator is modelled from what `bgblink.c` expects of it and from
`BGBMaster` in `test.py`: it sends VERSION, STATUS, then stamped SYNC1 and SYNC3
packets and packets without a stamp, in any order; SYNC1 only while no answer is
outstanding.  Its clock advances by at most `ResetGap` between two stamps (as
`forward_time` does), is cut by a distance of `Jumps`, or is stamped up to
`BackGap` too low.  It may send a wrong version, an unknown packet, or close the
connection, delivering or losing what is under way.

History variables, which no action reads: `trail` (what the emulator's clock
really did at each packet), `age` (how long ago each timer was latched, by that
clock), `actionOld` (the pending action is older than the last restart), `heard`.

### SocketImpl

`os` is the system's table of sockets, `sockets` the program's table, `known`
what libmobile was told.  A new descriptor is the lowest free one.  libmobile is
assumed to open a connection it knows to be closed and to use one it knows to be
open; that its knowledge is always true is `ResultsTrue`.  Connections under way
are decided, and peers arrive, between any two calls (`NetConnect`, `NetAccept`).

### SocketStream, SocketDatagram and SocketData

A connection that is established, seen from the calls on it.  The kernel, the
network and the peer are external: `recvfrom` and `sendto` are the sets of answers
the system may give in a state, and `RecvResult` and `SendResult` are the code
between an answer and what libmobile is told.

| Code | Definition |
|---|---|
| `socket_hasdata`, `recvfrom` with a buffer | `socket_impl_recv` |
| `recvfrom` with MSG_PEEK, for a NULL buffer | `socket_impl_recv_peek` |
| nothing to read, a poll that was wrong or failed, an error | `socket_impl_recv_none`, `socket_impl_recv_fails` |
| `sendto`, in part or not at all | `socket_impl_send` |
| EPIPE, as SIGPIPE is neither handled nor suppressed | `socket_impl_send_sigpipe` |
| `convert_sockaddr`, and the way back (socket_impl.c:267-281) | `convert_sockaddr`, `recv_addr` |

A port is two bytes in memory, in network order, so the conversion does not depend
on the machine.  libmobile continues a send where the last result says it ended,
and closes a connection on a negative result.  It answers a datagram at the
address it was given with it or, on a connected socket, at none.

`SocketData` is one connection, a stream or a socket for datagrams for as long as it
is open; both use the same code for what the system answers (`RecvResult`).

### ConfigFile

The file (`disk`, `size`), and the buffer of the stream over it (`pend`).
`fseek`, `rewind` and `fclose` write the buffer; `fputc` and `fwrite` put bytes
into it and may write those below some address at once, as the buffer may be full.
`Kill` drops the buffer.  `saved` is what the program should find: all that was
stored, or after a kill what the file then holds.  The kills are those of signals
without a handler: SIGPIPE, SIGTERM, SIGHUP, and SIGINT before main.c:517.  The
machine itself does not fail.

### Startup and Lifecycle

`Startup` follows `main` from `fopen` to one of its two ends.  `set` is which
pointers are not NULL, `held` what the process has really acquired; releasing
what is not held is recorded in `bad`.

`Lifecycle` joins it with `ConfigFile`: `fopen` succeeds together with the padding,
`fclose` is part of both ends, and libmobile uses the configuration only where
`main` calls it (while it is configured, main.c:481-490, and while packets are
handled).  A kill may come at any step after `fopen`, the crash of an untested
`mobile_new` among them, and the program is started again after every end.

### CommandLine, HexToken, PhoneNumber

`CommandLine` starts from every `argv` of up to `MaxArgs` words.  A word stands
for what the parsers return for it: `addr4` is an IPv4 address and `54` a number.
The characters of `token`, a word of the right length, are `str`: all `A` or all `G`
in a line of many words, so that no parser of numbers reads it, and any characters
when the line is just this option.
`-h` and `-c` stand for their long forms too.  The properties compare the loop
with a reading of the whole line (`IsOption`, `Given`, `Rest`), the parameters an
option accepts with those its messages call valid (`Fits`), and `main_parse_hex` with
`IsHex` and `IsHexOf`.  They differ in one case, the empty DNS port of the findings:
`EndsAtFirst` claims nothing of a line whose first fault it is (`EmptyPorts`).

`PhoneNumber` has the two arrays cell by cell, with what earlier numbers left.

## What TLC checks

`tlc -config <cfg> <module>` in this directory.

| Run | Properties | Shows |
|---|---|---|
| `MCReset` | `TypeOK`, `ClockAgreement`, `ResetPrompt`, `OldActionGone`, `TimerExact`, `ResetOnlyOnCut`, `CutResets`, `ResetWindow` | the adapter is restarted exactly when the clock was cut, within the same turn, by the stamps outside one window; both clocks agree; no action outlives that turn; timers are exact across wraps, low stamps and restarts |
| `MCExchange` | `ExchangeSpec` | the program implements the serial port: nothing is lost, repeated or answered wrongly while the emulator is connected and the program runs |
| `MCLive` | `HangupEnds`, `SigintEnds`, `Sync1Answered`, `ActionProcessed` | the program ends when it should; until then every byte is answered and every action processed |
| `MCSocket` | `TypeOK`, `NoStaleSocket`, `NeverBlocks`, `ResultsTrue`, `OnlyAcceptedLeft`, `TableSpec` | the table is sound although descriptors are reused and calls fail; at the end every socket is closed but those of one failure |
| `MCSocketData` | `DataTypeOK`, `ReceivesStream`, `SendsStream`, `EndSeen`, `NeverDisconnected`, `DatagramsTold`, `AnswersReturn` | a TCP connection is a pipe each way; its end is told last, and is told; an empty datagram is no end; each comes with its sender's address, and an answer goes back there |
| `MCLifecycle` | `LifeTypeOK`, `ConfigKept`, `ReadsBack`, `KillLosesLastOnly`, `ReleasedOnce`, `OneSocket` | reads return what was stored last, across failed starts, kills and restarts; a kill costs at most the last write; all is released once on every way out; `socket_connect` leaves one socket open at most, the one it returns |
| `MCCommandLine` | `TypeOK`, `EndsAtFirst`, `LastCounts`, `HostIsFirst`, `TokenRight` | the loop over `argv` agrees with a reading of the whole line; tokens are read, and refused, as hexadecimal numbers are defined |
| `MCNumber` | `TypeOK`, `TitleShowsLast` | the title shows the last numbers and nothing of earlier ones |
| `MCFirst` (violated) | `ResetOnlyOnCut` | see the findings |
| `MCSocketLeak` (violated) | `AllClosed` | see the findings |
| `MCConfigKill` (violated) | `StoredKept` | see the findings |
| `MCEmptyPort` (violated) | `EmptyPortRefused` | see the findings |

**Bounds.**  The lap `Half` is 4 instead of 2^31, `BackGap` 1 instead of
0x100, `ResetGap` 1 instead of 0x1000 (6, 1 and 2 in `MCFirst`): small, but the two
windows are apart, a cut outside both exists, the clock wraps, and every boundary
is met from both sides; what `MCReset` checks is proved for every value of them.
`InCap` 2 lets a packet queue behind the
one that reveals a cut; `OutCap` 1 makes every second answer block.  One byte is
enough where bytes are not compared, two where they are.  One timer is enough:
timers do not interact.  Three connections and five descriptors let an accept
happen while the two others are open and leave one descriptor to leak; the
descriptors then run out.  Counters need no bound: the clock wraps, and `age`
stops at a lap.

Three bytes each way with buffers of two make sends that are taken in part and
receives that leave bytes behind, twice in a row.  Three datagrams come from two
peers per family whose ports are each other's with the bytes swapped (`Base` 4
instead of 256).  A configuration of three bytes has writes with bytes before
them, behind them and both; MOBILE_CONFIG_SIZE differs in number only.  Two
addresses are one to fail and one to go on with.  Four words are two options with
their parameters, in either order, or one and the words after it.  Two bytes of
token are an even and an odd turn twice, of all characters next to a bound of a
range.  Numbers are shorter than the array, fill it, and are longer.

**Fairness.**  In `MCLive` the thread is scheduled (weak fairness of `Program`);
poll, which on one open descriptor fails only when the system is out of memory,
does not fail in every turn for ever (strong fairness of `Polled`: each turn of the
loop enables it anew); and the emulator reads what it is sent (weak fairness of
`EmuReceive`), without which a blocking send never returns.  Nothing else is fair:
the emulator need not send, the user need not press CTRL+C.  That `socket_wait` returns without
either is its time-out.  In `MCSocketData`: TCP delivers what the peer sent, and
libmobile, which polls its connections from the main loop, keeps calling recv;
it need not send, and the peer need not end.

**Not claimed.**  `SigintEnds` starts in the main loop: while the program waits
for the emulator's first packet (main.c:539) it does not look at the flag.
`TimerExact` starts with `mobile_start`: a SYNC1 before it reaches the adapter
with a clock that is not initialised.  The runs cut the clock outside the two
windows; within them a cut cannot be told from normal running, and the program
does not: `ResetWindow` says which stamps it takes for what.

## Findings

- **The first packet has no stamp** (`MCFirst`).  bgblink.c:171-174 initialises
  the clock with the first packet of any kind; for JOYPAD, STATUS, SYNC2 and
  WANTDISCONNECT the time is then 0.  The first real stamp looks like a reset,
  and the adapter just started is restarted.  main.c:219-220 says a large
  difference "happens whenever the emulator is reset, a new game is loaded, or a
  save state is loaded".
- **A socket is lost in accept** (`MCSocketLeak`).  socket_impl.c:194 returns
  without closing the accepted socket when `socket_setblocking` fails; by
  `OnlyAcceptedLeft` this is the only way to lose one.  main.c:566
  says "Close all sockets".
- **A stored key may be lost** (`MCConfigKill`).  `impl_config_write` (main.c:47)
  returns true with the data in the buffer of stdio.  If the process is killed
  before the next access the last write is gone.  README.md:18 of the repository
  says the key in config.bin preserves the phone number across restarts.
  `KillLosesLastOnly` bounds the loss.
- **An empty DNS port is accepted** (`MCEmptyPort`).  main.c:384 tests the option's
  own name instead of its parameter, and an empty parameter passes as port 0.

## What is proved

`tlapm <module>` for each of the eight modules of proofs; together some 20 minutes,
`CommandLineProofs` seven of them.  A theorem holds for every value of the constants
that satisfies the assumptions below: every invariant and every step property that
the passing runs check, and the four refinements, is proved.

| Theorem | States | Argument |
|---|---|---|
| `TypeCorrect` | `Spec => []TypeOK` | `TypeOK` is inductive; one lemma per group of actions |
| `ClocksAgree`, `ResetsArePrompt`, `OldActionsGo` | `[]ClockAgreement`, `[]ResetPrompt`, `[]OldActionGone` | parts of `MainInv` |
| `ResetsOnlyOnCuts`, `CutsReset` | `Spec => ResetOnlyOnCut`, `Spec => CutResets`, given `ClearCuts` | from `ChainInv` |
| `WindowExact` | `Spec => ResetWindow` | from `MainInv`; the arithmetic is `WindowIs` |
| `TimersExact` | `Spec => []TimerExact`, given `ClearCuts` | from `TimerInv` |
| `ImplementsExchange` | `Spec => ExchangeSpec` | step by step, from `OneAtATime` |
| `SocketsTyped`, `NoStale`, `NonBlocking`, `ResultsAreTrue`, `OnlyAcceptedIsLeft` | `[]TypeOK`, `[]NoStaleSocket`, `[]NeverBlocks`, `[]ResultsTrue`, `[]OnlyAcceptedLeft` of `SocketImpl` | from `SocketInv` |
| `ImplementsTable` | `Spec => TableSpec` | step by step, from `SocketInv` |
| `DataTyped`, `DatagramsNeverEnd`, `DatagramsAreTold`, `AnswersGoBack` | `[]DataTypeOK`, `[]NeverDisconnected`, `[]DatagramsTold`, `[]AnswersReturn` | from `DatagramInv`; `recv_addr` and `convert_sockaddr` undo each other |
| `ImplementsReading`, `ImplementsWriting` | `DataSpec => ReceivesStream`, `DataSpec => SendsStream` | step by step, from `StreamInv` |
| `LifeTyped`, `ConfigIsKept`, `ReleasesOnce`, `OneSocketOpen` | `[]LifeTypeOK`, `[]ConfigKept`, `[]ReleasedOnce`, `[]OneSocket` | from `LifeInv` |
| `ReadsComeBack`, `KillLosesLast` | `LifeSpec => ReadsBack`, `LifeSpec => KillLosesLastOnly` | step by step, from `LifeInv` |
| `ParseHex` | what `main_parse_hex` returns | by induction over the characters |
| `LineTyped`, `FirstEnds`, `LastOptionCounts`, `HostIsNext`, `TokenIsTyped` | `[]TypeOK`, `[]EndsAtFirst`, `[]LastCounts`, `[]HostIsFirst`, `[]TokenRight` of `CommandLine` | from `LineInv`, with `ParseHex` |
| `NumberTyped`, `TitleIsLast` | `[]TypeOK`, `[]TitleShowsLast` of `PhoneNumber` | from `NumberInv` |

**Assumptions.**  The clock: every lap and every pair of gaps with
`BackGap + ResetGap < Half` (`ClockAssumption`, true of 0x100, 0x1000 and 2^31),
every capacity of the connection, every set of bytes, timers and actions, and every
set of delays below a lap (`WireAssumption`, `IdleAssumption`, `LoopAssumption`).
Sockets: any set of connections, and any number of descriptors but none
(`SocketAssumption`).  Data: any lengths and sizes; every base of ports
(`BaseAssumption`, 256 in the code), and peers that are records of a family, a host
and a port of two digits of that base (`DatagramAssumption`).  Configuration:
every size but 0, any bytes with 0 among them, which pads the file
(`ConfigAssumption`), and every number of addresses (`AddrsAssumption`).  Tokens of
every size, of any characters below 128 (`HexAssumption`), in a buffer that may hold
anything; command lines of any length.  `ArgsAssumption` asks for lines of at least
two words, as lines of one option and its token are among those the model starts
from, and for the two characters `1` and `G` that the long lines use.  Numbers and
arrays of every size (`NumberAssumption`).

**`MainInv`** is the conjunction of the three invariants and of `ClockKnown`: from
`mobile_start` on, `bgb_clock_init` is set.  It is what makes
`ClockAgreement` inductive: the callback of the main loop does not set
`bgb_clock_init`, so a first packet handled there would initialise the link's clock
and leave the adapter's uninitialised.

**`ChainInv`.**  Whether the next packet is taken for a reset depends on what the
emulator's clock did between the stamp the program has kept and the stamp in that
packet, and between the two lie all the packets that wait in the connection.
`Chain` says that they form a chain: the first one starts from the time the
program has kept, each later one from where the one before it ended, the last one
ends at the emulator's own clock, and every stamp is `Faithful` (the clock itself,
or up to `BackGap` below it, or none if the clock stood still).  Sending appends
a link (`EmuChain`), receiving removes the first (`LoopChain`), and `HeadTime`
computes what the filter and the reset test see of it.  The chain may break only
when the connection is over (`Over`).

**`ClearCuts`** is an assumption of three theorems, not of the specification: the
emulator's first packet after the handshake has a stamp, and a cut moves its clock
by more than `ResetGap` forward and by more than `BackGap` back.  Both halves are
needed.  `MCFirst` violates `ResetOnlyOnCut` without the first; a shorter cut
cannot be told from normal running.

**`WindowExact`** needs neither half.  bgb_loop's filter compares a stamp with
`timestamp_last`, bgb_loop_timestamp what the filter let through with `bgb_clock`;
as `MainInv` has the two agree, the tests make one window, from `BackGap` behind
to `ResetGap` ahead (`WindowIs`, for any two values of a uint32_t, across the
wrap).  A stamp outside it requests a restart, nothing else does, and a save
state whose clock falls inside it goes unnoticed.

**`TimerInv`.**  Clock and latches are values of the emulator's counter, and for
every timer latched less than a lap ago the difference the code computes is its
`age`.  It needs `ChainInv`, which says that the adapter's clock advances by what
the emulator's did (`LoopFollows`), so that both sides grow alike (`OlderTrue`).

**`OneAtATime`.**  The serial port has one byte under way, the connection two
queues with other packets in them.  The invariant says that there is one SYNC1 or
one SYNC2 in both together, and then only while the emulator waits for its answer;
without it a second SYNC1 in the queue would have no counterpart in
`SerialExchange`.  What the port sees is read off the queues (`Underway`), so the
lemmas say what appending and removing a packet does to that.  The port may lose a
byte only once an end is gone (`up`, here `Up`): a step that takes a SYNC1 off the
queue without an answer finds the emulator closed, or ends the program.

**`SocketInv`.**  Neither `NoStaleSocket` nor `ResultsTrue` is inductive.  Closing
one connection keeps the others intact because no two share a descriptor, and a
descriptor the system hands out is fresh because all those in the table are open:
`Entry` says both together.  `Unowned` says whose an open socket is that is in no
entry, which `OnlyAcceptedLeft` needs.  With the same invariant every step of
`SocketImpl` changes at most one connection of `ConnTable`.

**`DatagramInv`, `StreamInv`.**  For datagrams: what is in the kernel is what was
sent (`InKernel`), and on a connected socket comes from its peer, as the answer then
carries no address.  For a stream: libmobile has exactly the bytes that were taken,
the end is known only behind the last byte (`Received`), and what the peer was given
and what the kernel holds are, in this order, what was told as sent (`Delivered`).

**`LifeInv`.**  `FileInv` says for each `pc` what is in the file and what only in
the buffer: in the loop each byte of the file is the one stored last or the one it
replaced, which is both why a read after a flush is right and what a kill leaves.
`HeldInv` and `SockInv` say for each step of `main` what it holds; `PcInv` ties the
two components together, so that the file is open exactly while `main` holds it.

**`LineInv`.**  `EndsAtFirst` and the others speak of the end of the loop; `LoopInv`
says what holds before each turn: `argv` points at a `Boundary` (no option's
parameter), all words before it are used and none of them ends the program, and the
variables are what the last of each option before it says (`Kept`, `LastParam`).  The
properties read the line by `IsOption`, a function defined by recursion over the
words; that the loop finds the same options needs `OptionIffBoundary`.  The loop is
followed with what the code accepts (`Accepts`, `Stopping`), and `StopsAreEnds` goes
from there to what it should accept.

**Induction.**  The induction theorems of the library cannot be applied with these
provers.  `LeastNatural` (a set of naturals that is not empty has a least element)
is derived from those on well-founded relations, which are about sets, and each
induction is done with it: the least index at which a claim fails cannot be 0, and
the claim holds one before it.  In this way `HexLoopIs` shows that the recursive
function of `main_parse_hex` exists and what it computes, and `IsOptionIs` that
`IsOption` does.

**`NumberInv`.**  The title depends on where the strings in the arrays end;
`Holds` says that each array is the last number up to a terminator, whatever follows.

TLC finds these inductive invariants true on the constants of the runs too.

**Only model-checked.**  `HangupEnds`, `SigintEnds`, `Sync1Answered`,
`ActionProcessed` and `EndSeen` are liveness under fairness, which is beyond this
prover, as is `ENABLED`.  No module has a `RECURSIVE` operator.  The four violated
properties are refuted by TLC; `OnlyAcceptedIsLeft`, `KillLosesLast` and
`ResetsOnlyOnCuts` prove what is true in their place.

## What is not modelled

- The text of messages and of the title (`show_help`, `socket_perror`,
  `socket_straddr`), and how words become addresses and numbers
  (`mobile_inet_pton`, `strtol`).  Windows.  `socket_isconnected`, which nothing
  calls; the program in comments at the end of `bgblink.c`.
- A full disk, I/O errors of the file, and an `fopen` "r+b" that fails although the
  file exists, after which "w+b" truncates it (main.c:436).
- The codes of errors that are only printed.  When `socket` fails, `socket_connect`
  (socket.c:199-208) does not set `error` but later stores it in errno: "Could not
  connect" is then followed by an older error, or by "Success".
- The callbacks `impl_sock_*` (main.c:64-104) pass their arguments on.
- libmobile and BGB beyond how the code uses them.  What the adapter makes of a
  byte that arrives together with a reset, or before `mobile_start`, is theirs.
- Delays of a lap (1024 seconds) or more, which `impl_time_check_ms` (main.c:61)
  cannot tell (`LoopAssumption`).
- A `getsockopt` that fails on an open socket (socket_impl.c:257), and a caller of
  recv that wants a datagram without its sender (socket_impl.c:267).

## Plan

1. *Done*: clock, wire, link, main loop with its abstract serial port; the table
   of sockets with its abstract table; the theorems above.
2. *Done*: send and recv on streams and datagrams; the configuration file;
   start-up, and both composed; command line; numbers.
3. *Done*: proofs of all invariants and step properties, and of the four
   refinements.
