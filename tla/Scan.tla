-------------------------------- MODULE Scan --------------------------------
(***************************************************************************)
(* The scan of the command line tool, src/src/bin/vcontrol/scan.rs: it     *)
(* reads the whole address space of a controller, chunk by chunk, into a   *)
(* cache file that a later run continues, and then reports what it read.   *)
(*                                                                         *)
(* The process may be killed at any time, or end with an error.  A byte is *)
(* recorded as where and when it was read, [addr |-> a, version |-> v], and*)
(* is Memory[v][a]: the memory of the controller changes between reads, or *)
(* another controller is connected.  The protocol either reads a chunk or  *)
(* fails.                                                                  *)
(***************************************************************************)
EXTENDS Integers, Sequences, FiniteSets, SequencesExt

CONSTANTS
  MaxAddr,         \* u16::MAX
  Chunk,           \* the length of buf
  SystemCommands,  \* the commands known: records addr and block_len
  DeviceCommands,
  Memory,          \* Memory[v][a]: the byte at address a of the memory v
  MaxVersion,      \* bounds: changes of the memory,
  MaxErrors,       \* errors of the link and the file system,
  MaxRuns          \* and runs of the tool

Addrs == 0..(MaxAddr - 1)

ASSUME ScanAssumption ==
  /\ MaxAddr \in Nat \ {0} /\ Chunk \in Nat \ {0}
  /\ MaxVersion \in Nat /\ MaxErrors \in Nat /\ MaxRuns \in Nat
  /\ Memory \in [0..MaxVersion -> [Addrs -> 0..255]]
  /\ \A c \in SystemCommands \cup DeviceCommands :
       c.addr \in Nat /\ c.block_len \in Nat \ {0} /\ c.addr + c.block_len <= MaxAddr

VARIABLES
  file,      \* scan-cache.bin
  content,   \* what the run has of it
  addr,      \* where the scan is
  table,     \* the HashMap commands: its block_len, 0 where there is none
  shown,     \* the lines of the report: records addr and len
  i,         \* where the report is
  pc,        \* where the run is, "stopped" when there is none
  version,   \* which memory the controller has
  errors, runs

vars == << file, content, addr, table, shown, i, pc, version, errors, runs >>

disk == << file, version, runs >>

Init ==
  /\ file = << >> /\ content = << >> /\ addr = 0
  /\ table = [a \in Addrs |-> 0]
  /\ shown = << >> /\ i = 0
  /\ pc = "stopped"
  /\ version = 0 /\ errors = 0 /\ runs = 0

-----------------------------------------------------------------------------
(* Scanning *)

\* Mutant: the cache file is opened with truncate.
StartTruncates ==
  /\ pc = "stopped" /\ runs < MaxRuns
  /\ runs' = runs + 1
  /\ file' = << >> /\ content' = << >>
  /\ pc' = "detect"
  /\ UNCHANGED << addr, table, shown, i, version, errors >>

\* Mutant: the cache file is not read.
StartAfresh ==
  /\ pc = "stopped" /\ runs < MaxRuns
  /\ runs' = runs + 1
  /\ content' = << >>
  /\ pc' = "detect"
  /\ UNCHANGED << file, addr, table, shown, i, version, errors >>

Start ==
  /\ pc = "stopped" /\ runs < MaxRuns
  /\ runs' = runs + 1
  /\ content' = file
  /\ pc' = "detect"
  /\ UNCHANGED << file, addr, table, shown, i, version, errors >>

\* Mutant: the scan continues at the last whole chunk.
DetectAndAlign ==
  /\ pc = "detect"
  /\ addr' = (Len(content) \div Chunk) * Chunk
  /\ pc' = "loop"
  /\ UNCHANGED << disk, content, table, shown, i, errors >>

DetectProtocol ==
  /\ pc = "detect"
  /\ addr' = Len(content)
  /\ pc' = "loop"
  /\ UNCHANGED << disk, content, table, shown, i, errors >>

\* Mutant: the last chunk is as long as the others.
full_buf_len == Chunk

buf_len == IF Chunk < MaxAddr - addr THEN Chunk ELSE MaxAddr - addr

Buf == [k \in 1..buf_len |-> [addr |-> addr + k - 1, version |-> version]]

\* Mutant: addr <= u16::MAX.
MoreToMax == addr <= MaxAddr

More == addr < MaxAddr

GetOk ==
  /\ pc = "loop" /\ More
  /\ content' = content \o Buf
  /\ pc' = "write"
  /\ UNCHANGED << disk, addr, table, shown, i, errors >>

\* buf, which content ends with.
LastRead == SubSeq(content, Len(content) - buf_len + 1, Len(content))

Flush ==
  /\ pc = "write"
  /\ file' = file \o LastRead
  /\ addr' = addr + buf_len
  /\ pc' = "loop"
  /\ UNCHANGED << content, table, shown, i, version, runs, errors >>

Failed == errors < MaxErrors /\ errors' = errors + 1

GetFails ==
  /\ pc = "loop" /\ More
  /\ Failed
  /\ pc' = "negotiate"
  /\ UNCHANGED << disk, content, addr, table, shown, i >>

Negotiate ==
  /\ pc = "negotiate"
  /\ pc' = "loop"
  /\ UNCHANGED << disk, content, addr, table, shown, i, errors >>

\* No protocol, no negotiation, no device or no write: the run is over.
Fails ==
  /\ pc \in {"detect", "negotiate", "write", "connect"}
  /\ Failed
  /\ pc' = "stopped"
  /\ \/ UNCHANGED file
     \/ pc = "write" /\ \E k \in 1..(Len(LastRead) - 1) : file' = file \o SubSeq(LastRead, 1, k)
  /\ shown' = << >> /\ i' = 0
  /\ UNCHANGED << content, addr, table, version, runs >>

\* The process is killed, while a part of the chunk is in the file.
Crash ==
  /\ pc # "stopped"
  /\ pc' = "stopped"
  /\ \/ UNCHANGED file
     \/ pc = "write" /\ \E k \in 1..Len(LastRead) : file' = file \o SubSeq(LastRead, 1, k)
  /\ shown' = << >> /\ i' = 0
  /\ UNCHANGED << content, addr, table, version, runs, errors >>

-----------------------------------------------------------------------------
(* Reporting *)

ScanEnds ==
  /\ pc = "loop" /\ ~More
  /\ pc' = "connect"
  /\ UNCHANGED << disk, content, addr, table, shown, i, errors >>

At(commands, a) == {c.block_len : c \in {d \in commands : d.addr = a}}

\* Of several commands at an address the last one inserted is kept: one of the
\* device, in the order of its map, or else one of the system.
Connect ==
  /\ pc = "connect"
  /\ table' \in {t \in [Addrs -> 0..MaxAddr] :
       \A a \in Addrs :
         t[a] \in (IF At(DeviceCommands, a) # {} THEN At(DeviceCommands, a)
                   ELSE IF At(SystemCommands, a) # {} THEN At(SystemCommands, a) ELSE {0})}
  /\ pc' = "report"
  /\ UNCHANGED << disk, content, addr, shown, i, errors >>

ByteOf(r) == Memory[r.version][r.addr]

Unset == 255

HasSetByte(bytes) == \E k \in 1..Len(bytes) : ByteOf(bytes[k]) # Unset

\* Mutant: a command is shown only if all of its bytes are set.
ShowWholeCommand ==
  /\ pc = "report" /\ i < Len(content) /\ table[i] # 0
  /\ LET bytes == SubSeq(content, i + 1, i + table[i]) IN
       shown' = IF \A k \in 1..Len(bytes) : ByteOf(bytes[k]) # Unset
                  THEN Append(shown, [addr |-> i, bytes |-> bytes]) ELSE shown
  /\ i' = i + table[i]
  /\ UNCHANGED << disk, content, addr, table, pc, errors >>

ShowCommand ==
  /\ pc = "report" /\ i < Len(content) /\ table[i] # 0
  /\ LET bytes == SubSeq(content, i + 1, i + table[i]) IN
       shown' = IF HasSetByte(bytes) THEN Append(shown, [addr |-> i, bytes |-> bytes]) ELSE shown
  /\ i' = i + table[i]
  /\ UNCHANGED << disk, content, addr, table, pc, errors >>

ShowByte ==
  /\ pc = "report" /\ i < Len(content) /\ table[i] = 0
  /\ shown' = IF ByteOf(content[i + 1]) \notin {Unset, 0}
                THEN Append(shown, [addr |-> i, bytes |-> << content[i + 1] >>]) ELSE shown
  /\ i' = i + 1
  /\ UNCHANGED << disk, content, addr, table, pc, errors >>

Finish ==
  /\ pc = "report" /\ i >= Len(content)
  /\ pc' = "stopped"
  /\ shown' = << >> /\ i' = 0
  /\ UNCHANGED << disk, content, addr, table, errors >>

-----------------------------------------------------------------------------

\* The memory of the controller changes.
Change ==
  /\ version < MaxVersion
  /\ version' = version + 1
  /\ UNCHANGED << file, content, addr, table, shown, i, pc, errors, runs >>

Step ==
  \/ DetectProtocol \/ GetOk \/ Flush \/ GetFails \/ Negotiate \/ Fails
  \/ ScanEnds \/ Connect \/ ShowCommand \/ ShowByte \/ Finish

Next == Start \/ Step \/ Crash \/ Change

Spec == Init /\ [][Next]_vars

\* The process runs on; nobody needs to start it again.
FairSpec == Spec /\ WF_vars(Step)

-----------------------------------------------------------------------------
(* What the scan promises *)

Reading == [addr : Addrs, version : 0..MaxVersion]

TypeOK ==
  /\ \A s \in {file, content} : Len(s) <= MaxAddr /\ \A k \in 1..Len(s) : s[k] \in Reading
  /\ addr \in 0..MaxAddr /\ i \in 0..MaxAddr
  /\ table \in [Addrs -> 0..MaxAddr]
  /\ pc \in {"stopped", "detect", "loop", "write", "negotiate", "connect", "report"}
  /\ version \in 0..MaxVersion /\ errors \in 0..MaxErrors /\ runs \in 0..MaxRuns

\* However often the scan was killed and continued, wherever in a chunk, the
\* byte at offset a of the file was read from address a, and no byte was read
\* before the ones in front of it.
Aligned ==
  \A k \in 1..Len(file) :
    file[k].addr = k - 1 /\ (k > 1 => file[k - 1].version <= file[k].version)

\* While it scans, a run has no byte that the file has not, except for the
\* chunk it has just read: whatever it reports, a later run reports as well.
Saved ==
  /\ pc \in {"loop", "negotiate"} => content = file /\ addr = Len(file)
  /\ pc = "write" => content = file \o LastRead
  /\ pc \in {"connect", "report"} => content = file /\ Len(file) = MaxAddr

\* No run takes anything from the file, or replaces what an earlier one read.
AppendOnly == [][IsPrefix(file, file')]_file

LineEnd(line) == line.addr + Len(line.bytes)

Covers(line, a) == line.addr <= a /\ a < LineEnd(line)

\* What belongs on one line at address a: the block of a command or a byte.
Block(a) == SubSeq(content, a + 1, a + (IF table[a] = 0 THEN 1 ELSE table[a]))

\* Each line shows a whole command or a byte that belongs to none, as it was
\* read at that address, and something of it is set.
LinesTrue ==
  \A k \in 1..Len(shown) :
    LET line == shown[k] IN
      /\ line.addr < MaxAddr /\ line.bytes = Block(line.addr)
      /\ HasSetByte(line.bytes)
      /\ table[line.addr] = 0 => ByteOf(content[line.addr + 1]) # 0

\* The lines ascend and show no byte twice.
LinesAscend ==
  \A k \in 1..Len(shown) :
    LineEnd(shown[k]) <= IF k < Len(shown) THEN shown[k + 1].addr ELSE i

\* A byte is left out only if it is not set, or 0x00 where no command begins.
BytesShown ==
  \A a \in 0..(i - 1) :
    \/ \E k \in 1..Len(shown) : Covers(shown[k], a)
    \/ ByteOf(content[a + 1]) = Unset
    \/ ByteOf(content[a + 1]) = 0 /\ table[a] = 0

\* A command is left out only if none of its bytes is set, or if it begins inside the
\* block of another that has its line or is left out for that reason.
CommandsShown ==
  \A c \in SystemCommands \cup DeviceCommands :
    \/ c.addr >= i
    \/ \E k \in 1..Len(shown) : shown[k].addr = c.addr
    \/ ~HasSetByte(Block(c.addr))
    \/ \E a \in 0..(c.addr - 1) :
         /\ c.addr < a + table[a]
         /\ (\E k \in 1..Len(shown) : shown[k].addr = a) \/ ~HasSetByte(Block(a))

\* The report says of the memory in front of i what the scan has read, in order and
\* each byte once, and what it leaves out is not set.
ReportComplete ==
  pc = "report" => LinesTrue /\ LinesAscend /\ BytesShown /\ CommandsShown

\* A run comes to an end, with its report or an error, if the link does not fail
\* for ever: the retries of one chunk do not starve the others.
RunEnds == pc = "detect" ~> pc = "stopped"

=============================================================================
