-------------------------- MODULE LifecycleProofs --------------------------
(***************************************************************************)
(* Proofs about Lifecycle: the configuration file and the resources of     *)
(* main, for a configuration of any size and any number of addresses.      *)
(*                                                                         *)
(* ConfigKept speaks of two points of the program.  FileInv says what the  *)
(* stream and the file hold at each of them, the moments after a kill      *)
(* included, and HeldInv what main has acquired before each of its steps.  *)
(***************************************************************************)
EXTENDS Lifecycle, TLAPS

\* What the file and the stream hold, by where the program is.  In the loop the
\* file has its full length, and each of its bytes is the one stored last or
\* the one it replaced.
FileInv ==
  /\ pc \in {"start", "exited", "killed"} =>
       pend = Empty /\ Content(disk, size) = saved
  /\ pc \in {"padded", "run"} => View = saved /\ FlushedSize = ConfigSize
  /\ pc = "run" => /\ size = ConfigSize
                   /\ \A i \in Addr : disk[i] \in {saved[i], before[i]}

\* The steps of main in the order of what it has acquired before them.
Connecting == {"getaddrinfo", "try"}
Connected == {"setsockopt", "sigaction", "bgb_init", "clock", "loop"}
All == {"config", "mobile", "adapter"}

\* What main holds is what its pointers say, until it releases it.
HeldInv ==
  /\ bad = {}
  /\ step \in {"fopen", "killed"} => set = {}
  /\ step = "malloc" => set = {"config"}
  /\ step = "mobile_new" => set = {"config", "mobile"}
  /\ step \in Connecting \cup {"return"} \cup Connected => set = All
  /\ step = "error" => set \in {{}, {"config"}, All}
  /\ held = IF step = "exit" THEN {} ELSE set

\* The socket to the emulator: none until socket_connect has found one.
SockInv ==
  /\ step \in {"fopen", "malloc", "mobile_new", "killed"} \cup Connecting =>
       bgb_sock = Main!INVALID_SOCKET /\ open = {}
  /\ step = "return" => /\ bgb_sock = Main!INVALID_SOCKET /\ open = {sock}
                        /\ sock \in Main!Fd /\ left > 0
  /\ step \in Connected => bgb_sock \in Main!Fd /\ open = {bgb_sock}
  /\ step = "error" => \/ bgb_sock = Main!INVALID_SOCKET /\ open = {}
                       \/ bgb_sock \in Main!Fd /\ open = {bgb_sock}
  /\ step = "exit" => \/ open = {}
                      \/ bgb_sock \in Main!Fd /\ status = 1
  /\ step # "exit" => status = -1

\* The file is open exactly while main holds it.
PcInv ==
  /\ pc = "start" <=> step = "fopen" \/ (step = "error" /\ set = {})
  /\ pc = "padded" => step = "malloc"
  /\ pc = "exited" <=> step = "exit"
  /\ pc = "killed" <=> step = "killed"

\* The inductive invariant.
LifeInv == LifeTypeOK /\ FileInv /\ HeldInv /\ SockInv /\ PcInv
-----------------------------------------------------------------------------
(* The stream *)

\* Writing the buffer puts what the stream shows into the file.
LEMMA FlushView ==
  ASSUME TypeOK, Flush
  PROVE  /\ disk' \in [Addr -> Byte] /\ size' \in 0 .. ConfigSize
         /\ pend' = Empty /\ pend' \in [Addr -> Byte \cup {NoByte}]
         /\ disk' = View /\ View' = View /\ size' = FlushedSize
         /\ FlushedSize' = FlushedSize
<1>1. View \in [Addr -> Byte]
  BY DEF TypeOK, View
<1>2. pend' = Empty /\ disk' = View /\ size' = FlushedSize
  BY DEF Flush, Flushed
<1>3. Empty \in [Addr -> Byte \cup {NoByte}] /\ \A i \in Addr : Empty[i] = NoByte
  BY DEF Empty
<1>4. FlushedSize \in 0 .. ConfigSize
  BY ConfigAssumption DEF FlushedSize, TypeOK
<1>5. View' = View
  BY <1>1, <1>2, <1>3 DEF View
<1>6. FlushedSize' = FlushedSize
  BY <1>2, <1>3 DEF FlushedSize
<1> QED
  BY <1>1, <1>2, <1>3, <1>4, <1>5, <1>6

\* Bytes, with the data where there is some.
Over(bytes, data) ==
  [i \in Addr |-> IF i \in DOMAIN data THEN data[i] ELSE bytes[i]]

\* A buffer that was empty shows the new data over the file, wherever the
\* stream had to write some of it.
LEMMA BufferView ==
  ASSUME NEW bytes \in [Addr -> Byte], NEW n \in 0 .. ConfigSize,
         NEW D, D \subseteq Addr, NEW data \in [D -> Byte],
         NEW k \in 0 .. ConfigSize,
         Buffer(bytes, n, Empty, data, k)
  PROVE  /\ disk' \in [Addr -> Byte] /\ size' \in 0 .. ConfigSize
         /\ pend' \in [Addr -> Byte \cup {NoByte}]
         /\ View' = Over(bytes, data)
         /\ \A i \in Addr : disk'[i] \in {View'[i], bytes[i]}
<1>1. DOMAIN data = D
  OBVIOUS
<1>2. /\ disk' = [i \in Addr |-> IF i \in D /\ i < k THEN data[i] ELSE bytes[i]]
      /\ size' = IF \E i \in D : n <= i /\ i < k THEN k ELSE n
      /\ pend' = [i \in Addr |-> IF i \in D
                                 THEN IF i < k THEN NoByte ELSE data[i]
                                 ELSE NoByte]
  BY <1>1 DEF Buffer, Empty
<1>3. Addr \subseteq Int /\ NoByte \notin Byte
  BY ConfigAssumption DEF Addr, NoByte
<1>4. disk' \in [Addr -> Byte] /\ pend' \in [Addr -> Byte \cup {NoByte}]
  BY <1>2
<1>5. size' \in 0 .. ConfigSize
  BY <1>2
<1>6. ASSUME NEW i \in Addr
      PROVE  /\ View'[i] = IF i \in D THEN data[i] ELSE bytes[i]
             /\ disk'[i] \in {View'[i], bytes[i]}
  BY <1>2, <1>3 DEF View
<1>7. View' = Over(bytes, data)
  BY <1>1, <1>6 DEF View, Over
<1> QED
  BY <1>4, <1>5, <1>6, <1>7
-----------------------------------------------------------------------------
(* Each use of the file keeps FileInv *)

\* fopen and the padding: whatever the length of the file, the stream shows it
\* followed by zeros up to ConfigSize.
LEMMA FileOpen ==
  ASSUME TypeOK, FileInv, main_open
  PROVE  TypeOK' /\ FileInv'
<1>1. PICK k \in 0 .. ConfigSize : Buffer(disk, size, Empty, Pad(size), k)
  BY DEF main_open
<1>2. /\ pc = "start" /\ pc' = "padded" /\ pos' = ConfigSize
      /\ UNCHANGED <<answer, saved, before>>
  BY DEF main_open
<1> DEFINE D == size .. (ConfigSize - 1)
<1>3. /\ size \in 0 .. ConfigSize /\ disk \in [Addr -> Byte]
      /\ D \subseteq Addr /\ Pad(size) \in [D -> Byte]
  BY ConfigAssumption DEF TypeOK, Addr, Pad
<1>4. /\ disk' \in [Addr -> Byte] /\ size' \in 0 .. ConfigSize
      /\ pend' \in [Addr -> Byte \cup {NoByte}]
      /\ View' = Over(disk, Pad(size))
  <2> HIDE DEF D
  <2> QED
    BY <1>1, <1>3, BufferView
<1>5. TypeOK'
  BY <1>2, <1>4, ConfigAssumption DEF TypeOK
<1>6. View' = saved
  <2>1. saved = [i \in Addr |-> IF i < size THEN disk[i] ELSE 0]
    BY <1>2 DEF FileInv, Content
  <2> QED
    BY <1>3, <1>4, <2>1, ConfigAssumption DEF Addr, Pad, Over
<1>7. FlushedSize' = ConfigSize
  <2>1. size' = IF \E i \in D : size <= i /\ i < k THEN k ELSE size
    BY <1>1 DEF Buffer, Pad
  <2>2. \A i \in D : i >= k => pend'[i] # NoByte
    BY <1>1, <1>3, ConfigAssumption DEF Buffer, Pad, NoByte, Addr
  <2>3. CASE size' = ConfigSize
    BY <2>3 DEF FlushedSize
  <2>4. CASE size' # ConfigSize
    <3>1. size' \in Addr /\ size' >= k /\ size' \in D
      <4>1. CASE size < k
        <5>1. size \in D
          BY <1>3, <4>1, ConfigAssumption
        <5> QED
          BY <1>3, <2>1, <2>4, <4>1, <5>1, ConfigAssumption DEF Addr
      <4>2. CASE size >= k
        BY <1>3, <2>1, <2>4, <4>2, ConfigAssumption DEF Addr
      <4> QED
        BY <1>3, <4>1, <4>2, ConfigAssumption
    <3> QED
      BY <2>2, <3>1, ConfigAssumption DEF FlushedSize, Addr
  <2> QED
    BY <2>3, <2>4
<1> QED
  BY <1>2, <1>5, <1>6, <1>7 DEF FileInv

\* An operation that only writes the buffer, and so makes the file what the
\* stream shows.
LEMMA FileFlush ==
  ASSUME TypeOK, FileInv, Flush, pc \in {"padded", "run"},
         pc' \in {"run", "exited"}, pos' \in 0 .. ConfigSize,
         answer'.ok \in BOOLEAN, UNCHANGED <<saved, before>>
  PROVE  TypeOK' /\ FileInv'
<1>1. View = saved /\ FlushedSize = ConfigSize
  BY DEF FileInv
<1>2. /\ disk' \in [Addr -> Byte] /\ size' \in 0 .. ConfigSize
      /\ pend' = Empty /\ pend' \in [Addr -> Byte \cup {NoByte}]
      /\ disk' = saved /\ View' = saved /\ size' = ConfigSize
      /\ FlushedSize' = ConfigSize
  BY <1>1, FlushView
<1>3. TypeOK'
  BY <1>2 DEF TypeOK
<1>4. Content(disk', size') = saved
  BY <1>2, ConfigAssumption DEF Content, TypeOK, Addr
<1> QED
  BY <1>2, <1>3, <1>4 DEF FileInv

\* rewind, after the padding.
LEMMA FileRewind ==
  ASSUME TypeOK, FileInv, main_rewind
  PROVE  TypeOK' /\ FileInv'
<1>1. Flush /\ pos' = 0 /\ pc = "padded" /\ pc' = "run"
      /\ UNCHANGED <<answer, saved, before>>
  BY DEF main_rewind
<1>2. pos' \in 0 .. ConfigSize /\ answer'.ok \in BOOLEAN
  BY <1>1, ConfigAssumption DEF TypeOK
<1> QED
  BY <1>1, <1>2, FileFlush

\* fclose.
LEMMA FileClose ==
  ASSUME TypeOK, FileInv, main_fclose
  PROVE  TypeOK' /\ FileInv'
<1>1. Flush /\ pc = "run" /\ pc' = "exited"
      /\ UNCHANGED <<pos, answer, saved, before>>
  BY DEF main_fclose
<1>2. pos' \in 0 .. ConfigSize /\ answer'.ok \in BOOLEAN
  BY <1>1 DEF TypeOK
<1> QED
  BY <1>1, <1>2, FileFlush

\* impl_config_read succeeds, and returns what was stored.
LEMMA ReadReturns ==
  ASSUME TypeOK, FileInv, NEW offset \in Addr,
         NEW n \in 1 .. (ConfigSize - offset), impl_config_read(offset, n)
  PROVE  /\ answer'.ok = TRUE /\ pos' = offset + n
         /\ \A i \in DOMAIN answer'.data : answer'.data[i] = saved[i]
<1>1. View = saved /\ FlushedSize = ConfigSize
  BY DEF FileInv, impl_config_read, ReadAt
<1>2. offset \in Nat /\ n \in Nat /\ offset + n <= ConfigSize
  BY ConfigAssumption DEF Addr
<1>3. /\ answer' = [ok |-> offset + n <= FlushedSize,
                    data |-> [i \in offset .. (offset + n - 1) |->
                                IF offset + (i - offset) < FlushedSize
                                THEN Flushed[offset + (i - offset)] ELSE 0]]
      /\ pos' = IF offset + n <= FlushedSize THEN offset + n ELSE FlushedSize
  BY DEF impl_config_read, ReadAt
<1>4. answer'.ok = TRUE /\ pos' = offset + n
  BY <1>1, <1>2, <1>3, Zenon
<1>5. ASSUME NEW i \in offset .. (offset + n - 1)
      PROVE  answer'.data[i] = saved[i]
  <2>1. offset + (i - offset) = i /\ i < ConfigSize
    BY <1>2, ConfigAssumption
  <2> QED
    BY <1>1, <1>3, <2>1 DEF Flushed
<1>6. DOMAIN answer'.data = offset .. (offset + n - 1)
  BY <1>3
<1> QED
  BY <1>4, <1>5, <1>6

\* impl_config_read.
LEMMA FileRead ==
  ASSUME TypeOK, FileInv, NEW offset \in Addr,
         NEW n \in 1 .. (ConfigSize - offset), impl_config_read(offset, n)
  PROVE  TypeOK' /\ FileInv'
<1>1. Flush /\ pc = "run" /\ UNCHANGED <<pc, saved, before>>
  BY DEF impl_config_read, ReadAt
<1>2. pos' \in 0 .. ConfigSize /\ answer'.ok \in BOOLEAN
  <2>1. offset + n \in 0 .. ConfigSize
    BY ConfigAssumption DEF Addr
  <2> QED
    BY <2>1, ReadReturns, Zenon
<1> QED
  BY <1>1, <1>2, FileFlush

\* impl_config_write: the file had everything stored before, and each byte of
\* the new data is in the file or in the buffer.
LEMMA FileWrite ==
  ASSUME TypeOK, FileInv, NEW offset \in Addr,
         NEW n \in 1 .. (ConfigSize - offset),
         NEW data \in [offset .. (offset + n - 1) -> Byte],
         impl_config_write(offset, n, data)
  PROVE  TypeOK' /\ FileInv'
<1> DEFINE D == offset .. (offset + n - 1)
<1>1. PICK k \in 0 .. ConfigSize :
        Buffer(Flushed, FlushedSize, Empty, data, k)
  BY DEF impl_config_write, WriteAt
<1>2. /\ pc = "run" /\ pos' = offset + n
      /\ saved' = [i \in Addr |-> IF i \in DOMAIN data THEN data[i] ELSE saved[i]]
      /\ before' = saved /\ UNCHANGED <<pc, answer>>
  BY DEF impl_config_write, WriteAt
<1>3. /\ Flushed = saved /\ FlushedSize = ConfigSize
      /\ saved \in [Addr -> Byte] /\ ConfigSize \in 0 .. ConfigSize
  BY <1>2, ConfigAssumption DEF FileInv, Flushed, TypeOK
<1>4. /\ D \subseteq Addr /\ data \in [D -> Byte] /\ DOMAIN data = D
      /\ offset + n \in 0 .. ConfigSize
  BY ConfigAssumption DEF Addr
<1>5. Buffer(saved, ConfigSize, Empty, data, k)
  BY <1>1, <1>3
<1>6. /\ disk' \in [Addr -> Byte] /\ size' \in 0 .. ConfigSize
      /\ pend' \in [Addr -> Byte \cup {NoByte}]
      /\ View' = Over(saved, data)
      /\ \A i \in Addr : disk'[i] \in {View'[i], saved[i]}
  <2> HIDE DEF D
  <2> QED
    BY <1>3, <1>4, <1>5, BufferView, Zenon
<1>7. View' = saved'
  BY <1>2, <1>6 DEF Over
<1>8. saved' \in [Addr -> Byte]
  BY <1>2, <1>3, <1>4
<1>9. size' = ConfigSize
  <2>1. size' = IF \E i \in D : ConfigSize <= i /\ i < k THEN k ELSE ConfigSize
    BY <1>4, <1>5 DEF Buffer
  <2> QED
    BY <1>4, <2>1, ConfigAssumption DEF Addr
<1>10. FlushedSize' = ConfigSize
  BY <1>9 DEF FlushedSize
<1>11. TypeOK'
  BY <1>2, <1>3, <1>4, <1>6, <1>8 DEF TypeOK
<1> QED
  BY <1>2, <1>6, <1>7, <1>9, <1>10, <1>11 DEF FileInv

\* A kill loses the buffer; the program should now find what the file has.
LEMMA FileKill ==
  ASSUME TypeOK, FileInv, Kill
  PROVE  TypeOK' /\ FileInv'
<1>1. /\ pend' = Empty /\ saved' = Content(disk, size) /\ pc' = "killed"
      /\ UNCHANGED <<disk, size, pos, answer, before>>
  BY DEF Kill
<1>2. pend' \in [Addr -> Byte \cup {NoByte}]
  BY <1>1 DEF Empty
<1>3. saved' \in [Addr -> Byte]
  BY <1>1, ConfigAssumption DEF Content, TypeOK
<1>4. TypeOK'
  BY <1>1, <1>2, <1>3 DEF TypeOK
<1>5. Content(disk', size') = saved'
  BY <1>1
<1> QED
  BY <1>1, <1>4, <1>5 DEF FileInv

\* The program starts again, or ends without having opened the file.
LEMMA FileAside ==
  ASSUME TypeOK, FileInv, pc \in {"start", "exited", "killed"},
         pc' \in {"start", "exited"},
         UNCHANGED <<disk, size, pend, pos, answer, saved, before>>
  PROVE  TypeOK' /\ FileInv'
<1>1. TypeOK'
  BY DEF TypeOK
<1>2. pend' = Empty /\ Content(disk', size') = saved'
  BY DEF FileInv
<1> QED
  BY <1>1, <1>2 DEF FileInv

\* Steps of main that do not use the file.
LEMMA FileSame ==
  ASSUME TypeOK, FileInv, UNCHANGED vars
  PROVE  TypeOK' /\ FileInv'
BY DEF vars, TypeOK, FileInv, View, FlushedSize, Content

\* Every step of the program keeps FileInv.
LEMMA FileNext ==
  ASSUME LifeInv, [LifeNext]_allVars
  PROVE  TypeOK' /\ FileInv'
<1>1. TypeOK /\ FileInv /\ PcInv
  BY DEF LifeInv, LifeTypeOK
<1>2. CASE Fopen
  BY <1>1, <1>2, FileOpen DEF Fopen
<1>3. CASE FopenFails
  BY <1>1, <1>3, FileSame DEF FopenFails
<1>4. CASE Rewind
  BY <1>1, <1>4, FileRewind DEF Rewind
<1>5. CASE MainStep
  BY <1>1, <1>5, FileSame DEF MainStep
<1>6. CASE Libmobile
  <2>1. PICK offset \in Addr : \E n \in 1 .. (ConfigSize - offset) :
          \/ impl_config_read(offset, n)
          \/ \E data \in [offset .. (offset + n - 1) -> Byte] :
               impl_config_write(offset, n, data)
    BY <1>6 DEF Libmobile
  <2>2. PICK n \in 1 .. (ConfigSize - offset) :
          \/ impl_config_read(offset, n)
          \/ \E data \in [offset .. (offset + n - 1) -> Byte] :
               impl_config_write(offset, n, data)
    BY <2>1
  <2> QED
    BY <1>1, <2>2, FileRead, FileWrite
<1>7. CASE MainEnd
  BY <1>1, <1>7, FileClose DEF MainEnd
<1>8. CASE MainError
  <2>1. CASE main_fclose
    BY <1>1, <2>1, FileClose
  <2>2. CASE /\ "config" \notin set /\ pc' = "exited"
             /\ UNCHANGED <<disk, size, pend, pos, answer, saved, before>>
    <3>1. step = "error"
      BY <1>8 DEF MainError, Main!main_error, Main!ErrorReleases
    <3>2. set = {}
      BY <2>2, <3>1 DEF LifeInv, HeldInv, All
    <3>3. pc = "start"
      BY <1>1, <3>1, <3>2 DEF PcInv
    <3> QED
      BY <1>1, <2>2, <3>3, FileAside
  <2> QED
    BY <1>8, <2>1, <2>2 DEF MainError, CloseIfOpen
<1>9. CASE Killed
  BY <1>1, <1>9, FileKill DEF Killed
<1>10. CASE Again
  BY <1>1, <1>10, FileAside DEF Again, Restart
<1>11. CASE UNCHANGED allVars
  BY <1>1, <1>11, FileSame DEF allVars
<1> QED
  BY <1>2, <1>3, <1>4, <1>5, <1>6, <1>7, <1>8, <1>9, <1>10, <1>11 DEF LifeNext
-----------------------------------------------------------------------------
(* Each step of main keeps what it has acquired in order *)

MainSafe == Main!TypeOK /\ HeldInv /\ SockInv

\* fopen, malloc and mobile_new acquire a thing or give up.
LEMMA MainAcquire ==
  ASSUME MainSafe,
         Main!main_fopen \/ Main!main_malloc
           \/ (Main!main_mobile_new /\ step' # "killed")
  PROVE  MainSafe'
<1> USE DEF MainSafe, Main!Acquire, Main!connectVars, Connecting, Connected, All
<1>1. Main!TypeOK'
  BY DEF Main!TypeOK, Main!main_fopen, Main!main_malloc, Main!main_mobile_new,
         Main!Steps
<1>2. HeldInv'
  BY DEF HeldInv, Main!main_fopen, Main!main_malloc, Main!main_mobile_new
<1>3. SockInv'
  BY DEF SockInv, Main!main_fopen, Main!main_malloc, Main!main_mobile_new
<1> QED
  BY <1>1, <1>2, <1>3

\* socket_connect resolves the host.
LEMMA MainResolve ==
  ASSUME MainSafe, Main!socket_connect
  PROVE  MainSafe'
<1> USE DEF MainSafe, Main!socket_connect, Connecting, Connected, All
<1>1. Main!TypeOK'
  BY AddrsAssumption DEF Main!TypeOK, Main!Steps
<1>2. HeldInv'
  BY DEF HeldInv
<1>3. SockInv'
  BY DEF SockInv
<1> QED
  BY <1>1, <1>2, <1>3

\* The steps of main after the connection, which succeed or fail.
LEMMA MainCalls ==
  ASSUME MainSafe,
         Main!main_setsockopt \/ Main!main_sigaction \/ Main!main_bgb_init
           \/ Main!main_clock
  PROVE  MainSafe'
<1> USE DEF MainSafe, Main!Step, Main!connectVars, Connecting, Connected, All,
            Main!main_setsockopt, Main!main_sigaction, Main!main_bgb_init,
            Main!main_clock
<1>1. Main!TypeOK'
  BY DEF Main!TypeOK, Main!Steps
<1>2. HeldInv'
  BY DEF HeldInv
<1>3. SockInv'
  BY DEF SockInv
<1> QED
  BY <1>1, <1>2, <1>3

\* One turn of socket_connect's loop: a socket that does not connect is closed.
LEMMA MainTry ==
  ASSUME MainSafe, Main!socket_connect_try \/ Main!socket_connect_nosocket
  PROVE  MainSafe'
<1> USE DEF MainSafe, Connecting, Connected, All
<1>1. /\ step = "try" /\ left \in 1 .. MaxAddrs /\ open = {}
      /\ bgb_sock = Main!INVALID_SOCKET
      /\ UNCHANGED <<set, bgb_sock, held, bad, status>>
  BY AddrsAssumption DEF Main!TypeOK, SockInv, Main!socket_connect_try,
     Main!socket_connect_nosocket, Main!Another
<1> DEFINE fd == CHOOSE f \in Main!Fd : f \notin open
                                    /\ \A g \in Main!Fd \ open : f <= g
<1>2. fd \in Main!Fd
  <2>1. 0 \in Main!Fd \ open /\ \A g \in Main!Fd \ open : 0 <= g
    BY <1>1, AddrsAssumption DEF Main!Fd
  <2> QED
    BY <2>1
<1>3. \/ sock' = fd /\ open' = {fd} /\ step' = "return" /\ left' = left
      \/ sock' \in {fd, Main!INVALID_SOCKET} /\ left' = left - 1
         /\ UNCHANGED <<step, open>>
  BY <1>1 DEF Main!socket_connect_try, Main!socket_connect_nosocket
<1> HIDE DEF fd
<1>4. Main!TypeOK'
  <2>1. left' \in 0 .. MaxAddrs
    BY <1>1, <1>3, AddrsAssumption
  <2> QED
    BY <1>1, <1>2, <1>3, <2>1 DEF Main!TypeOK, Main!Steps
<1>5. HeldInv'
  BY <1>1, <1>3 DEF HeldInv
<1>6. SockInv'
  BY <1>1, <1>2, <1>3 DEF SockInv
<1> QED
  BY <1>4, <1>5, <1>6

\* socket_connect returns the connected socket, or INVALID_SOCKET when the list
\* of addresses is exhausted.
LEMMA MainReturn ==
  ASSUME MainSafe, Main!socket_connect_return
  PROVE  MainSafe'
<1> USE DEF MainSafe, Connecting, Connected, All
<1> DEFINE result == IF left = 0 THEN Main!INVALID_SOCKET ELSE sock
<1>1. /\ step = "return" \/ (step = "try" /\ left = 0)
      /\ bgb_sock' = result
      /\ step' = IF result = Main!INVALID_SOCKET THEN "error" ELSE "setsockopt"
      /\ UNCHANGED <<set, held, bad, open, left, sock, status>>
  BY DEF Main!socket_connect_return, Main!Returns
<1>2. \/ result = Main!INVALID_SOCKET /\ open = {} /\ step' = "error"
      \/ result \in Main!Fd /\ open = {result} /\ step' = "setsockopt"
  BY <1>1, AddrsAssumption DEF SockInv, Main!Fd, Main!INVALID_SOCKET
<1> HIDE DEF result
<1>3. Main!TypeOK'
  BY <1>1, <1>2 DEF Main!TypeOK, Main!Steps
<1>4. HeldInv'
  BY <1>1, <1>2 DEF HeldInv
<1>5. SockInv'
  BY <1>1, <1>2 DEF SockInv
<1> QED
  BY <1>3, <1>4, <1>5

\* The two ends of main release what is held, and nothing else.
LEMMA MainEnds ==
  ASSUME MainSafe, Main!main_end \/ Main!main_error
  PROVE  MainSafe'
<1> USE DEF MainSafe, Connecting, Connected, All, Main!connectVars, Main!Release
<1>1. CASE Main!main_end
  <2>1. Main!TypeOK'
    BY <1>1 DEF Main!main_end, Main!TypeOK, Main!Steps
  <2>2. HeldInv'
    BY <1>1 DEF Main!main_end, HeldInv
  <2>3. SockInv'
    BY <1>1 DEF Main!main_end, SockInv
  <2> QED
    BY <2>1, <2>2, <2>3
<1>2. CASE Main!main_error
  <2> DEFINE things == (IF "mobile" \in set THEN {"adapter", "mobile"} ELSE {})
                       \cup (set \cap {"config"})
  <2>1. /\ step = "error" /\ step' = "exit" /\ status' = 1
        /\ held' = held \ things /\ bad' = bad \cup (things \ held)
        /\ UNCHANGED <<set, bgb_sock, open, left, sock>>
    BY <1>2 DEF Main!main_error, Main!ErrorReleases
  <2>2. things = set
    BY <2>1 DEF HeldInv
  <2> HIDE DEF things
  <2>3. held' = {} /\ bad' = {}
    BY <2>1, <2>2 DEF HeldInv
  <2>4. Main!TypeOK'
    BY <2>1, <2>3 DEF Main!TypeOK, Main!Steps
  <2>5. HeldInv'
    BY <2>1, <2>3 DEF HeldInv
  <2>6. SockInv'
    BY <2>1 DEF SockInv
  <2> QED
    BY <2>4, <2>5, <2>6
<1> QED
  BY <1>1, <1>2

\* A process that is gone holds nothing, and the next one begins with nothing.
LEMMA MainGone ==
  ASSUME MainSafe, NoProcess, step' \in {"killed", "fopen"}
  PROVE  MainSafe'
<1> USE DEF MainSafe, NoProcess, Connecting, Connected, All
<1>1. Main!TypeOK'
  BY AddrsAssumption DEF Main!TypeOK, Main!Steps, Main!Fd, Main!INVALID_SOCKET
<1>2. HeldInv'
  BY DEF HeldInv
<1>3. SockInv'
  BY DEF SockInv
<1> QED
  BY <1>1, <1>2, <1>3

\* Steps that leave main's variables alone.
LEMMA MainSame ==
  ASSUME MainSafe, UNCHANGED mainVars
  PROVE  MainSafe'
BY DEF mainVars, MainSafe, Main!TypeOK, HeldInv, SockInv

\* Every step of the program keeps main's part of the invariant.
LEMMA MainNext ==
  ASSUME LifeInv, [LifeNext]_allVars
  PROVE  MainSafe'
<1>1. MainSafe
  BY DEF LifeInv, LifeTypeOK, MainSafe
<1>2. CASE Fopen \/ FopenFails
  BY <1>1, <1>2, MainAcquire DEF Fopen, FopenFails
<1>3. CASE Rewind \/ Libmobile
  BY <1>1, <1>3, MainSame DEF Rewind, Libmobile
<1>4. CASE MainStep
  BY <1>1, <1>4, MainAcquire, MainResolve, MainTry, MainReturn, MainCalls
     DEF MainStep
<1>5. CASE MainEnd \/ MainError
  BY <1>1, <1>5, MainEnds DEF MainEnd, MainError
<1>6. CASE Killed \/ Again
  BY <1>1, <1>6, MainGone DEF Killed, Again
<1>7. CASE UNCHANGED allVars
  BY <1>1, <1>7, MainSame DEF allVars
<1> QED
  BY <1>2, <1>3, <1>4, <1>5, <1>6, <1>7 DEF LifeNext

\* Every step keeps the file open exactly while main holds it.
LEMMA PcNext ==
  ASSUME LifeInv, [LifeNext]_allVars
  PROVE  PcInv'
<1>1. PcInv /\ HeldInv
  BY DEF LifeInv
<1>2. CASE Fopen
  BY <1>1, <1>2 DEF Fopen, main_open, PcInv, Main!main_fopen, Main!Acquire
<1>3. CASE FopenFails
  BY <1>1, <1>3 DEF FopenFails, vars, PcInv, HeldInv, Main!main_fopen, Main!Acquire
<1>4. CASE Rewind
  BY <1>1, <1>4 DEF Rewind, main_rewind, mainVars, PcInv
<1>5. CASE MainStep
  <2>1. pc = "run" /\ pc' = "run"
    BY <1>5 DEF MainStep, vars
  <2>2. /\ step' \notin {"fopen", "exit", "killed"}
        /\ step' = "error" => set' = set /\ set # {}
    BY <1>1, <1>5, <2>1
       DEF MainStep, HeldInv, PcInv, Connecting, Connected, All,
           Main!main_malloc, Main!main_mobile_new, Main!Acquire,
           Main!socket_connect, Main!socket_connect_try,
           Main!socket_connect_nosocket, Main!Another,
           Main!socket_connect_return, Main!Returns, Main!main_setsockopt,
           Main!main_sigaction, Main!main_bgb_init, Main!main_clock, Main!Step
  <2> QED
    BY <2>1, <2>2 DEF PcInv
<1>6. CASE Libmobile
  BY <1>1, <1>6 DEF Libmobile, mainVars, PcInv, impl_config_read, ReadAt,
                    impl_config_write, WriteAt
<1>7. CASE MainEnd
  BY <1>1, <1>7 DEF MainEnd, main_fclose, PcInv, Main!main_end
<1>8. CASE MainError
  BY <1>1, <1>8 DEF MainError, CloseIfOpen, main_fclose, PcInv,
                    Main!main_error, Main!ErrorReleases
<1>9. CASE Killed
  BY <1>1, <1>9 DEF Killed, Kill, PcInv
<1>10. CASE Again
  BY <1>1, <1>10 DEF Again, Restart, PcInv
<1>11. CASE UNCHANGED allVars
  BY <1>1, <1>11 DEF allVars, vars, mainVars, PcInv
<1> QED
  BY <1>2, <1>3, <1>4, <1>5, <1>6, <1>7, <1>8, <1>9, <1>10, <1>11 DEF LifeNext
-----------------------------------------------------------------------------
(* The properties *)

\* The program starts with whatever file there is, and holds nothing.
LEMMA InvInit == LifeInit => LifeInv
<1> SUFFICES ASSUME LifeInit PROVE LifeInv
  OBVIOUS
<1>1. TypeOK
  <2>1. Empty \in [Addr -> Byte \cup {NoByte}]
    BY DEF Empty
  <2>2. saved \in [Addr -> Byte]
    BY ConfigAssumption DEF LifeInit, Init, Content
  <2> QED
    BY <2>1, <2>2, ConfigAssumption DEF LifeInit, Init, TypeOK
<1>2. FileInv /\ PcInv
  BY DEF LifeInit, Init, Main!Init, FileInv, PcInv
<1>3. Main!TypeOK
  BY AddrsAssumption DEF LifeInit, Main!Init, Main!TypeOK, Main!Steps, Main!Fd,
                         Main!INVALID_SOCKET
<1>4. HeldInv /\ SockInv
  BY DEF LifeInit, Main!Init, HeldInv, SockInv, Connecting, Connected
<1> QED
  BY <1>1, <1>2, <1>3, <1>4 DEF LifeInv, LifeTypeOK

\* Every step keeps the inductive invariant.
LEMMA InvNext == LifeInv /\ [LifeNext]_allVars => LifeInv'
BY FileNext, MainNext, PcNext DEF LifeInv, LifeTypeOK, MainSafe

\* Every reachable state satisfies the inductive invariant.
THEOREM LifeInvariant == LifeSpec => []LifeInv
BY InvInit, InvNext, PTL DEF LifeSpec

\* The variables of main and of the configuration file keep their types.
THEOREM LifeTyped == LifeSpec => []LifeTypeOK
<1>1. LifeInv => LifeTypeOK
  BY DEF LifeInv
<1> QED
  BY <1>1, LifeInvariant, PTL

\* The stream shows, and after main has returned the file holds, everything
\* that impl_config_write stored and that the file had before.
THEOREM ConfigIsKept == LifeSpec => []ConfigKept
<1>1. LifeInv => ConfigKept
  BY DEF LifeInv, FileInv, ConfigKept
<1> QED
  BY <1>1, LifeInvariant, PTL

\* However main ends, it releases what it has acquired, and releases it once.
THEOREM ReleasesOnce == LifeSpec => []ReleasedOnce
<1>1. LifeInv => ReleasedOnce
  BY DEF LifeInv, HeldInv, ReleasedOnce
<1> QED
  BY <1>1, LifeInvariant, PTL

\* socket_connect returns the one open socket, or INVALID_SOCKET with none open.
THEOREM OneSocketOpen == LifeSpec => []OneSocket
<1>1. LifeInv => OneSocket
  BY AddrsAssumption DEF LifeInv, LifeTypeOK, SockInv, OneSocket, Connecting,
     Connected, Main!TypeOK, Main!Steps, Main!Fd, Main!INVALID_SOCKET
<1> QED
  BY <1>1, LifeInvariant, PTL

\* impl_config_read succeeds and returns what was last stored.
THEOREM ReadsComeBack == LifeSpec => ReadsBack
<1>1. ASSUME LifeInv, [LifeNext]_allVars, answer' # answer
      PROVE  /\ answer'.ok
             /\ \A i \in DOMAIN answer'.data : answer'.data[i] = saved[i]
  <2>1. TypeOK /\ FileInv
    BY <1>1 DEF LifeInv, LifeTypeOK
  <2>2. Libmobile
    BY <1>1 DEF LifeNext, allVars, vars, Fopen, main_open, FopenFails, Rewind,
       main_rewind, MainStep, MainEnd, main_fclose, MainError, CloseIfOpen,
       Killed, Kill, Again, Restart
  <2>3. PICK offset \in Addr : \E n \in 1 .. (ConfigSize - offset) :
          impl_config_read(offset, n)
    BY <1>1, <2>2 DEF Libmobile, impl_config_write, WriteAt
  <2>4. PICK n \in 1 .. (ConfigSize - offset) : impl_config_read(offset, n)
    BY <2>3
  <2> QED
    BY <2>1, <2>4, ReadReturns, Zenon
<1> QED
  BY <1>1, LifeInvariant, PTL DEF LifeSpec, ReadsBack, allVars

\* A kill loses at most the last impl_config_write.
THEOREM KillLosesLast == LifeSpec => KillLosesLastOnly
<1>1. ASSUME LifeInv, [LifeNext]_allVars, pc = "run" /\ pc' = "killed"
      PROVE  /\ size' = ConfigSize
             /\ \A i \in Addr : disk'[i] \in {saved[i], before[i]}
  <2>1. UNCHANGED <<disk, size>>
    BY <1>1 DEF LifeNext, allVars, vars, Fopen, main_open, FopenFails, Rewind,
       main_rewind, MainStep, MainEnd, main_fclose, MainError, CloseIfOpen,
       Killed, Kill, Again, Restart, Libmobile, impl_config_read, ReadAt,
       impl_config_write, WriteAt
  <2> QED
    BY <1>1, <2>1 DEF LifeInv, FileInv
<1> QED
  BY <1>1, LifeInvariant, PTL DEF LifeSpec, KillLosesLastOnly, allVars
=============================================================================
