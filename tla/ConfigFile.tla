----------------------------- MODULE ConfigFile -----------------------------
(***************************************************************************)
(* main.c: the configuration file, through the stdio stream the program    *)
(* keeps it open with.                                                     *)
(*                                                                         *)
(* What is written waits in the stream's buffer until the stream is        *)
(* positioned or closed, or the buffer is full.  A process that is killed  *)
(* (SIGPIPE, the terminal closed, CTRL+C before the handler is installed)  *)
(* takes the buffer with it.  The program is then started again.           *)
(*                                                                         *)
(* libmobile reads and writes anywhere within the configuration.           *)
(***************************************************************************)
EXTENDS Integers

CONSTANTS
  ConfigSize,    \* MOBILE_CONFIG_SIZE
  Byte

ASSUME ConfigAssumption ==
  /\ ConfigSize \in Nat \ {0}
  /\ Byte \subseteq Nat /\ 0 \in Byte

Addr == 0 .. (ConfigSize - 1)
NoByte == -1

VARIABLES
  pc,        \* start, padded, run; exited or killed
  disk,      \* the file: its bytes ...
  size,      \* ... and its length, up to ConfigSize; 0 if there is none
  pend,      \* bytes in the stream's buffer
  pos,       \* the position of the stream
  answer,    \* what the last impl_config_read returned
  saved,     \* history: what the program should find in the file
  before     \* history: the same, before the last impl_config_write

vars == <<pc, disk, size, pend, pos, answer, saved, before>>

Empty == [i \in Addr |-> NoByte]

\* The bytes of the file, and those the stream shows.
Content(bytes, n) == [i \in Addr |-> IF i < n THEN bytes[i] ELSE 0]
View == [i \in Addr |-> IF pend[i] # NoByte THEN pend[i] ELSE disk[i]]

\* The types of the variables.
TypeOK ==
  /\ pc \in {"start", "padded", "run", "exited", "killed"}
  /\ disk \in [Addr -> Byte]
  /\ size \in 0 .. ConfigSize
  /\ pend \in [Addr -> Byte \cup {NoByte}]
  /\ pos \in 0 .. ConfigSize
  /\ answer.ok \in BOOLEAN
  /\ saved \in [Addr -> Byte] /\ before \in [Addr -> Byte]

\* There is no file, one from an earlier run, or a short one.
Init ==
  /\ pc = "start"
  /\ disk \in [Addr -> Byte]
  /\ size \in 0 .. ConfigSize
  /\ pend = Empty
  /\ pos = 0
  /\ answer = [ok |-> TRUE, data |-> Empty]
  /\ saved = Content(disk, size)
  /\ before = saved
-----------------------------------------------------------------------------
(* stdio *)

\* The buffer is written: when the stream is positioned or closed.  What it
\* holds beyond the end of the file is the padding, which ends at ConfigSize.
Flushed == View

\* Mutant: the padding loop runs to MOBILE_CONFIG_SIZE inclusive.
FlushedSizeOver == IF \E i \in Addr : i >= size /\ pend[i] # NoByte
                   THEN ConfigSize + 1 ELSE size

FlushedSize == IF \E i \in Addr : i >= size /\ pend[i] # NoByte
               THEN ConfigSize ELSE size

Flush == disk' = Flushed /\ size' = FlushedSize /\ pend' = Empty

\* data, a function on addresses, is buffered when the file is bytes, n long;
\* the buffer may be full, and what is below k goes to the file.
Buffer(bytes, n, buffered, data, k) ==
  /\ disk' = [i \in Addr |-> IF i \in DOMAIN data /\ i < k THEN data[i]
                             ELSE bytes[i]]
  /\ size' = IF \E i \in DOMAIN data : n <= i /\ i < k THEN k ELSE n
  /\ pend' = [i \in Addr |-> IF i \in DOMAIN data
                             THEN IF i < k THEN NoByte ELSE data[i]
                             ELSE buffered[i]]
-----------------------------------------------------------------------------
(* main *)

\* Mutant: the whole configuration is padded.
PadFromStart(n) == [i \in Addr |-> 0]

\* The zeros of the padding loop, from the end of the file.
Pad(n) == [i \in n .. (ConfigSize - 1) |-> 0]

\* The file is opened, or created empty, and padded.
main_open == \E k \in 0 .. ConfigSize :
  /\ pc = "start"
  /\ Buffer(disk, size, Empty, Pad(size), k)
  /\ pos' = ConfigSize
  /\ pc' = "padded"
  /\ UNCHANGED <<answer, saved, before>>

main_rewind ==
  /\ pc = "padded"
  /\ Flush
  /\ pos' = 0
  /\ pc' = "run"
  /\ UNCHANGED <<answer, saved, before>>

\* fclose, on each of the two ways out of main.
main_fclose ==
  /\ pc = "run"
  /\ Flush
  /\ pc' = "exited"
  /\ UNCHANGED <<pos, answer, saved, before>>

\* The process is killed.
Kill ==
  /\ pc \in {"padded", "run"}
  /\ pend' = Empty
  /\ saved' = Content(disk, size)
  /\ pc' = "killed"
  /\ UNCHANGED <<disk, size, pos, answer, before>>

\* The program is started again.
Restart ==
  /\ pc \in {"exited", "killed"}
  /\ pc' = "start"
  /\ UNCHANGED <<disk, size, pend, pos, answer, saved, before>>
-----------------------------------------------------------------------------
(* The callbacks of libmobile *)

\* fread of n bytes at the position from, for the bytes at offset.
ReadAt(from, offset, n) ==
  /\ pc = "run"
  /\ Flush
  /\ answer' = [ok |-> from + n <= FlushedSize,
                data |-> [i \in offset .. (offset + n - 1) |->
                            IF from + (i - offset) < FlushedSize
                            THEN Flushed[from + (i - offset)] ELSE 0]]
  /\ pos' = IF from + n <= FlushedSize THEN from + n ELSE FlushedSize
  /\ UNCHANGED <<pc, saved, before>>

\* Mutant: the stream is not positioned.
impl_config_read_nowhere(offset, n) == ReadAt(pos, offset, n)

impl_config_read(offset, n) == ReadAt(offset, offset, n)

\* fwrite of the n bytes of data, when the file is bytes, long bytes long.
WriteAt(bytes, long, buffered, offset, n, data) ==
  /\ pc = "run"
  /\ \E k \in 0 .. ConfigSize : Buffer(bytes, long, buffered, data, k)
  /\ pos' = offset + n
  /\ saved' = [i \in Addr |-> IF i \in DOMAIN data THEN data[i] ELSE saved[i]]
  /\ before' = saved
  /\ UNCHANGED <<pc, answer>>

\* Mutant: the stream is positioned without writing its buffer.
impl_config_write_buffered(offset, n, data) ==
  WriteAt(disk, size, pend, offset, n, data)

\* fseek, which writes the buffer, and fwrite.
impl_config_write(offset, n, data) ==
  WriteAt(Flushed, FlushedSize, Empty, offset, n, data)

Next ==
  \/ main_open \/ main_rewind \/ main_fclose \/ Kill \/ Restart
  \/ \E offset \in Addr : \E n \in 1 .. (ConfigSize - offset) :
       \/ impl_config_read(offset, n)
       \/ \E data \in [offset .. (offset + n - 1) -> Byte] :
            impl_config_write(offset, n, data)

Spec == Init /\ [][Next]_vars
-----------------------------------------------------------------------------
(* Properties *)

\* While the program runs the stream shows the configuration in full: what
\* the file held when it was opened, whatever its length and wherever an
\* earlier run was killed, and every impl_config_write since.  After main has
\* returned the file itself holds it.
ConfigKept ==
  /\ pc = "run" => View = saved /\ FlushedSize = ConfigSize
  /\ pc = "exited" => Content(disk, size) = saved

\* impl_config_read succeeds, and returns what was last written at each of
\* its offsets, by this run or by an earlier one.
ReadsBack ==
  [][answer' # answer => /\ answer'.ok
                         /\ \A i \in DOMAIN answer'.data :
                              answer'.data[i] = saved[i]]_vars

\* A process that is killed loses at most its last impl_config_write: each
\* byte of the file is the one stored last, or the one it replaced.
KillLosesLastOnly ==
  [][pc = "run" /\ pc' = "killed" =>
       /\ size' = ConfigSize
       /\ \A i \in Addr : disk'[i] \in {saved[i], before[i]}]_vars

\* src/README.md:18: the configuration is preserved across restarts.  What
\* impl_config_write has stored is in the file when the program is gone.
StoredKept ==
  [][pc = "run" /\ pc' \in {"exited", "killed"} =>
       Content(disk', size') = saved]_vars
=============================================================================
