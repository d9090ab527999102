# vcontrol-rs in TLA+

`vcontrol-rs` talks to Viessmann heating controllers over an Optolink adapter: a
library that reads and writes commands, and a command line tool. This directory
holds TLA+ models of it, the TLC configurations that check them and theorems
about them that TLAPS checks. All paths below are relative to `src/`, the
repository; `src/vcontrol.rs` there is the crate's own source directory.

    tlc -workers 2 -config session_safety.cfg MCSession     # a run
    tlapm Session_proofs.tla                                # a proof module

`PROJECT.json` lists the runs, the mutants (a plausible bug for each property,
which TLC must catch), the lines each definition models, the hazards, the
findings and the theorems.

## 1. The system

| component | source | state it keeps | operations |
|---|---|---|---|
| `VControl` | `src/vcontrol.rs`, `src/protocol.rs` | `connected`, the protocol, the device | `connect` (detect protocol, read the identifiers, detect device), `get`, `set`, each of them after `renegotiate` |
| VS2 client | `src/protocol/vs2.rs` | none between calls; the place in the byte stream within one | `negotiate`, `get`, `set`, with `write_telegram`, `read_telegram`, `check_response`, `reset` |
| VS1 client | `src/protocol/vs1.rs` | the same, and the time a read takes | `negotiate`, `sync`, `get`, `set` |
| `Optolink` | `src/optolink.rs` | the port or socket, what has arrived on it | `purge`, `reinitialize`, `read_exact`, `write_all`, `flush` |
| `Command` | `src/command.rs`, `value.rs`, `conversion.rs`, `parameter.rs`, `types/` | none; constants of the data | `get`, `set`: bytes to values and back |
| `Device::detect` | `src/device/` | none | four loops over a perfect hash map |
| `scan` | `src/bin/vcontrol/scan.rs` | a cache file and what the run has of it | scan, continue, report |
| `vcontrol cat` etc. | `src/bin/vcontrol/main.rs`, `cat.rs` | none | loops of `get` |
| data generator | `codegen/` | tables in memory, files in the end | from the vendor's export to devices, commands, mappings and translations with numbers |
| build script | `build.rs` | none | from these files to the constants that are compiled |

**How they interact.** `VControl` owns an `Optolink` and passes it to the
protocol with every call, and a `Command` turns its value into one protocol
operation. Everything is one `async` call chain: there are no tasks and no
locks. The concurrency is that of *two ends of a line*: the controller sends
SYNC, answers, changes its values or its mode whenever it likes, and every
`.await` is a place where it may have done so, where the call may fail, or where
the caller may drop the future. The one thing that carries over from a call to
the next is `connected`, and the bytes that are on the line.

**What is hard.** (The hazards in `PROJECT.json`, each at its line.)

* A call that fails or is dropped half way leaves bytes on the line, and a
  request that may still be carried out. SYNC, ACK and NACK are told from data
  only by their place in the stream, and VS1 has neither address nor checksum.
* Retries: a NACK makes `write_telegram` renegotiate and repeat the telegram in
  the middle of a call, VS1 repeats whole requests, `renegotiate` opens the
  port again. Each may do something twice, and each might never end.
* The codec: widths, signs, bounds, conversions and the all-ones pattern for "no
  value" have to agree in both directions; about 5000 commands use them.
* Detection picks from a map without an order, with ranges that overlap, after
  reading an identifier whose errors are dropped.
* A text goes a long way before it is shown: cleaned, renamed, made up where it is
  missing (twice, and the second pass sees what the first did), numbered, collected
  in tables that are numbered as well, and looked up by the command or, for errors,
  the device. Value types are merged, and whatever is not used is dropped. No test
  compares the end of that way with its beginning.
* The scan is killed and continued, and its file is all that is left of it.

**What makes each part correct.** A successful call tells the truth about the
controller (`VControl` with either protocol); every call ends; what was set is
read again and what was read can be set (`Command`); the device meant for the
controller is found (`detect`); a number is shown with the vendor's text for it,
and bounds exclude no value the vendor admits (generator and build script); the
scan's file is the memory of the controller,
in order, without a gap (`scan`).

## 2. The modules

| module | models | proofs |
|---|---|---|
| `RemoteRegister` | abstract: what `get` and `set` promise | |
| `SetpointHistory` | what a caller concludes from that promise | `SetpointHistory_proofs` |
| `Vs2` | VS2 client, line, controller (external) | |
| `Session` | `VControl` over `Vs2` | `Session_proofs` |
| `SessionRefinement` | `Session` implements `RemoteRegister` | `SessionSafety_proofs`, with the promises of `Session` |
| `Vs1`, `Vs1Refinement` | `VControl` over VS1, and that it implements `RemoteRegister` | `Vs1_proofs` |
| `Calendar` | dates, switching times, error entries from and to bytes | `Command_proofs` |
| `Command` | `Command::get` and `set` on the memory of a device, over `Calendar` | `Command_proofs` |
| `UniqueMapping` | `UniqueMapping::create` | `UniqueMapping_proofs` |
| `Generator` | `main` of the generator, over `UniqueMapping` (twice) | `Release_proofs` |
| `BuildScript` | what the build script makes of the generator's files | |
| `Detect` | reading the F0 identifier and `Device::detect` | `Release_proofs` |
| `Release` | `Generator`, `BuildScript`, then `Detect` in the program built; what a value looks like there | `Release_proofs` |
| `Scan` | the scan and its report | `Scan_proofs` |
| `MC...` | constants for TLC | |

The controller and the line's other end are not in the repository. They are
modelled from what the client expects of them, and marked external in the map.

### Vs2 and Session

The line *from* the controller, `rx`, is a sequence of bytes, since bytes are what
the client confuses. The line *to* it, `tx`, is a sequence of whole messages:
how the controller parses is not ours to model. `pc` names the `.await` the
client is suspended at, and there is one action per await:

    reset -> sync -> start -> started -> done               negotiate
    write -> status -> leadin -> length -> body -> done     get, set
             status -> reset  on NACK, and from started back to write

`ReadBody` is the rest of `read_telegram` with the checksum, the ACK or NACK the
client sends, `check_response` and the comparisons of `get` and `set`, none of
which awaits a byte from the controller. `IoError` is the `?` of every await:
the bytes it had read are lost and what it was writing may or may not have been
sent. `Session` adds `stage`, where the method of `VControl` is, and `connected`;
its actions start an operation of `Vs2` and collect it in `done`. `Cancel` drops
the future. A value error in `Command` (mode, bounds, type) makes `get` and `set`
end like an I/O error before the first or after the last byte, which `IoError`
covers, so `Session` need not know about values.

Telegrams carry a call's number, `id`, and `seen` and `applied` record what the
address of a get contained and whether this set reached the memory: no guard
of the program's steps reads them.

`Latency` says whether `purge`, which discards what *has arrived*, may miss bytes
that have been sent. Without it the line is quiet at a purge (`tx = << >>`, all
of `rx` is there): the controller answers fast against the client. The strong
properties need this; `session_robust` does without.

### Vs1

An answer in VS1 is bare data. The client takes an answer with 0x05 in it for
what it is only if it came quickly, so time is state: a `Tick` is the half second
of `Vs1::get`, passes only while client and line wait, and an idle controller
sends SYNC every `Period` ticks. `Negotiate` is RESET by `renegotiate` and at the
start of every `sync`. `Vs1` starts where `Protocol::detect` has chosen VS1, with
one RESET on the line. `connected`, `renegotiate` (its second attempt after an
error included) and dropped futures are as in `Session`.

### RemoteRegister and SetpointHistory

`RemoteRegister` has the memory, the running call and `late`, the writes of failed
sets that may still be carried out. A successful get returns a content of its
register while the command ran; a successful set has taken effect; a failed set
may take effect later, but not once a later set has taken effect or a later call
has succeeded. Refinement mappings: `status` comes from `stage` (VS2) or `pc` (VS1),
`late` is the set of write requests on the line (and, in VS1, in the hands of the
controller) that are not of the running call; calls that renegotiate are
"waiting".

`SetpointHistory` adds `possible`, what a caller that alone writes a register may
expect in it: the value of the last successful set and those of sets that failed
since. `ReadYourWrites` and `SetpointHolds` are about it.

### Command and Calendar

The memory of the device is a sequence of bytes, and `get(c)` and `set(c, v)` are
single actions, since the session's interleavings are those of `Session`.
`Reads` is `parse_value`/`deserialize` of a slice, with bit fields, blocks, all data
types, the unset pattern and the bounds; `Prepared` and `Bytes` are the way back,
`Panics` the places where the code unwraps. A `Value` has a type, a number and a
sequence; a Double is an exact number of hundredths. Strings are opaque but for
terminator and UTF-8 (as ASCII), and for the date that a text given to `set` may stand
for, which the constant `Texts` says (`Parsed`; chrono does the parsing). `ValidValue` is
what the program and its callers can make: dates that exist, switching times in pairs,
numbers where the variant has one. `Calendar` has the BCD and date arithmetic, weekday
and switching times.

### Generator, BuildScript and Release

`stage` is the statement of `main` that comes next, and an action is one statement or,
where later rounds of a loop see what earlier ones did, one round of it:

    german -> english -> extend -> devices -> texts -> tables -> written -> built

In `german` and `english` the missing texts are added; in `extend` the values of the
table extensions go into event types and data point types one after the other, and
what is unsupported is dropped after the last; in `texts` and `tables` a step is a round
of `UniqueMapping::create` (`UniqueTexts`, `UniqueTables`: the same module with the two
maps). `Use` writes the files. Every `unwrap`, `unreachable!` and `panic!` that the
tables can run into is an action to the stage `panic`: tables that the generator
refuses make no program.

`UniqueMapping` goes through the values in a fixed order that is not said: the code
sorts them, and the order decides only which number a value has.

A string is its words, the index it carries and whether it begins with `@@`. That is
what the generator looks at: the index of an id is taken off the text that begins
with it, unless it is the code of an error, which has no `~` in front of it (`Unmarked`);
`@@` is taken off an id, and a text of dashes is empty. The tables that are spelled out
in the code (`TranslationFixes`, `ValueListFixes`, `CleanNames`, what is unsupported, the
known conversions) are constants, of which `MCRelease` has a few entries of each
kind. The tables of the commands are collected by name and the commands by id, as in
the code, which rests on the names being different; those of the exports are.

`BuildScript` has operators only, since the script keeps no state. `Build` in `Release`
compiles the program, or `BuildFails` if a file cannot be read or two keys of a map
are equal. `Shown` has the texts that `VControl::get` and `OutputValue` make of numbers,
with the table of the command or, for an error, of the device.

### Detect and Scan

`Detect` takes the devices of the program that was built in every order (the map's
order is that of a hash) and runs the four loops, one action each. A candidate is a
place in that order, so that the first hit of a loop is the least one, and the fallback
the last candidate without an F0 identifier or the last of all. The hardware index
is present exactly when the software index is, and its comparison is compiled out, so
it is left out.

`Scan` records a byte as the address and the version of the memory it was read
from; its value is that of `Memory`. `Crash` and failing writes leave any prefix of the
chunk in the file. The report is the table of commands (the last of several at an
address wins) and a walk over the content, with the two filters of the code: a command
has a line if any of its bytes is not 0xff, a byte that belongs to none if it is neither
0xff nor 0x00.

## 3. The runs

| run | what it shows | bounds, and why they are enough |
|---|---|---|
| `session_safety` | over VS2 without latency: `AnswerIsCurrent`, `WriteTookEffect`, `NoLateWrite`, `Quiet`, and `Session` implements `RemoteRegister` | two events of I/O error, NACK, error telegram, any disturbed byte, fallback, changed content, in three calls: a first call that fails twice (or fails, and its negotiation does), a second and a third that may be fooled. Addresses 1, 2, 5 and contents 5, 6 make SYNC, ACK, address, length and data bytes equal |
| `session_robust` | over VS2 with latency, lost messages and dropped futures: `OwnAddress` | two events, two calls after connect; only `Constant` addresses, whose content tells them apart; contents 5 and 65, SYNC and the first byte of a telegram |
| `session_liveness` | `CallReturns`, `ConnectReturns` | two events in two calls, of the kinds of `session_safety` but for changed contents, and a port that is opened again; one content, as only the end of calls matters. Any byte of the answer to a read may be disturbed; a length byte that was disturbed upwards is excepted, see below. No message is lost |
| `setpoint_history` | `ReadYourWrites`, `SetpointHolds`, `IInv` | four calls: a failed set, a set, a failed set and a get; a setpoint and another register |
| `vs1_session` | the same promises over VS1, `NothingLeft`, `CallReturns` | SYNC every four ticks, answers within one, or later in a `slow` event; two events in two calls; contents with 0x05 and 0x00 in either place |
| `vs1_sync` | *finding*: with two SYNCs for two RESETs a get returns SYNC as data | no events needed |
| `command_codec` | `RoundTrip`, `WriteBack`, `NeighboursKept` | 23 commands of each parameter type, data type and conversion; an erased memory and two with boundary values; two calls, so that each property sees its pair |
| `command_width` | *finding*: a one-byte command of parameter type int writes two bytes | the two commands of the data |
| `command_signed` | *finding*: a negative Int is not read again | the command of the data |
| `release` | texts: `TextsMeanValues`, `ErrorsMeanDevice`, `TextsKept`; files: `BordersCover`, `NothingDangling`, `PayloadFits`; detection: `UniqueMatch`, `BestEffort` | see below |
| `release_group` | *finding*: the group is not compared | two devices of the data that differ in the group only |
| `scan` | `Aligned`, `Saved`, `AppendOnly`, `ReportComplete`, `RunEnds` | five addresses in chunks of two (a last chunk that is short), three runs with two errors and any crashes, commands that overlap or share an address, and three memories in which they have all, some or none of their bytes set and a byte of no command is unset, 0x00 or something else |

`CHECK_DEADLOCK FALSE`: these systems may stop, since the caller makes a bounded
number of calls, and the controller need not say anything. `setpoint_history` does
check for it.

The exports of `release` vary one part of the vendor's tables each, with the rest as in
a base of four devices (one of them unsupported, one with nothing but its error memory)
and six event types. `TextExports`: two values of a list, with every kind of id (with a
label, with `@@`, without a label, renamed before or after the lookup, in the list of
fixes, an event status, none) times every kind of description (none, a German text, one
that names a label, one that is unknown, dashes, an id that exists or does not); two
values are what it takes for one to see what was added for the other. `BorderExports`:
two number types with borders on either, both or no side, inside and outside of each
other. `ExtExports`: any two of the extensions, in this order, since the last counts
and some are refused. `OddExports`: tables the generator panics on, each next to one
like it that it takes. `WithDevices(Family, ...)`: six devices of the data, five of them
ranges of one family, controllers at every boundary of a range, F0 known, unset or
unreadable, and every order of the map.

In `MCCommand`, `Fault` (data type Error) is writable although the commands of that
type in the data are not, to exercise `error_to_bytes`.

### Properties worth a comment

* `AnswerIsCurrent`: a *sequence* of actions is needed to violate it, a call that
  fails in the middle of a telegram and another whose request is answered by the
  rest of it. Clearing `connected` on every error and purging before RESET are
  what prevents it; the mutants drop each.
* `NoLateWrite` (and `late = {}` in `Succeed` and `Apply`): a set that failed after its
  telegram was sent is carried out in the negotiation of the next call or not at
  all. Callers depend on it when they set a new value after an error.
* `Quiet`: after a success, only SYNC is on the line, so that `renegotiate` may skip
  the negotiation. `connect` drops an error of reading `DEVICE_ID_F0` without
  clearing `connected`: `Quiet` excepts that, and `AnswerIsCurrent` shows that what
  it leaves cannot be taken for another answer as the run has it, since it has
  the address of F0.
* `CallReturns`, `ConnectReturns` (VS2): "or waits for ever" (`Hangs`), when a length byte
  of an answer was disturbed upwards: `read_telegram` then reads more bytes than
  a controller in VS2 mode will send, and `read_exact` has no time limit. One that has
  fallen back does send, SYNC by SYNC, and the call ends.
* `CallReturns` (VS1): "or the connection is closed", because `sync` treats a failing
  read as a wrong byte and then loops for ever.
* `TextsMeanValues`: `Meanings` is read off the vendor's tables and knows nothing of
  passes, numbers or tables. It admits the text of the description also where the
  value's own label has one: the second pass looks for the id as it is written in the
  value type, `translation_fixes` has renamed the label by then, so the text is taken
  for missing and the description's is used (a hazard, not a finding: no comment or
  test says which of the two it should be). The numbers that are shown with a text are
  to be those that the vendor lists for the event type, no fewer and no more.
* `ErrorsMeanDevice`: a device with error texts of its own shows only those; a code
  that is in the general table and not in its own has no text, and showing it panics
  (a hazard).
* `PayloadFits`: `MAX_PAYLOAD_LEN` is the largest block of the devices' commands, and the
  system commands are not counted. They fit exactly if for each system command some
  device has one that asks for as much (`SystemCommandsFit`, proved to be the condition):
  every export has larger commands than those of 8 or 9 bytes.
* `BestEffort`, `UniqueMatch`: about the map that the build script made, so that what it
  loses of an identifier (finding 4) is part of the run.
* `WriteBack`: what `get` returned can be given to `set`, which succeeds and changes
  nothing (for dates and switching times, nothing that is read). It is false
  for commands that `set` cannot write back; `Invertible` says which those are not.

* `ReportComplete`: what is printed is true and in order (`LinesTrue`, `LinesAscend`), and
  what is not printed is only what the two filters leave out or what is hidden inside
  the block of another command (`BytesShown`, `CommandsShown`). It is not that every
  byte is shown: a 0x00 of no command and an unset byte are not.

### Fairness

* Weak fairness of the client's and the methods' steps: the runtime polls a
  future that is ready, and a future that waits for a byte is not enabled.
* Weak fairness of the controller's reaction to what has reached it and of its
  SYNC while it is idle: the protocols rest on both, and without them `read_exact`
  has nothing to return. There is no timeout in the code; a controller that stays
  silent *does* hang the call, because it never got the request (a hazard without a
  property) or because the client waits for more than the answer (`Hangs`). `MaxRx`
  bounds the SYNCs that wait on the line, except for a client in the middle of a body,
  who gets as many as the body is long.
* None for errors, crashes, changes, lost messages, dropped futures or new calls.
* `Scan`: weak fairness of the process's next step; nobody needs to start it again,
  and a crash is never required.

## 4. The proofs

**Type correctness of the session** (`Session_proofs!TypeCorrect`: `Spec => []TypeOK`),
for every set of addresses, contents and events and every number of calls, from
the assumptions `AddrAssumption`, `BlockLenAssumption`, `ValAssumption`, `Vs2Assumption`
and `SessionAssumption`. `TypeOK` is inductive. It is made of `ClientOK`, `LineOK`,
`ControllerOK` and `MethodOK`, and the proof has one lemma per action. It says more
than that numbers are numbers: that the checksum and the lengths of all telegrams
are bytes, that a request on the line has the id of a call that was made and
data exactly if it is a write, and that a negotiation is never at an await of a
telegram (`pc \in {"write", "status"} => op.kind # "negotiate"`, the part that is
needed to make it inductive: a flushed request is that of a get or set).

**What a session tells its caller** (`SessionSafety_proofs`): `AnswerIsCurrent`,
`WriteTookEffect`, `NoLateWrite`, `Quiet` and `ImplementsRegister`, for every set of
addresses, contents and events and every number of calls. None of them is inductive:
what makes an answer current is where the bytes of the *earlier* calls are when it is
read. `LineInv` says that for each await of the client: from `sync` on only SYNC comes,
and only RESETs are under way (`AtSync`); after START the controller has it, or the
line begins with the answer to it and holds SYNC behind it (`AtStarted`); when a telegram
is about to be written the line is quiet but for the last ACK (`AtWrite`); then the request
is the last message on its way, or the line is what the controller made of *it*
(`AtStatus` ... `AtBody`, with `Answers`: if the length is that of an answer, the whole
answer is there, and if its checksum and header are accepted its data is truthful, whatever
a disturbance did to it); after a success the line is quiet again (`AtEnd`), and stays so
until the next call if `connected` (`AtReady`). A failed call needs no such clause, since
it clears `connected` and the next one purges. `AtReady` is why it may go without a
negotiation, and where the mutant that keeps `connected` after an error breaks the proof.

Two conditions are needed. `Orderly`: no latency, no dropped futures; otherwise these five
are false, and TLC has the counterexamples. `F0Answered`: `connect` did not
fail to read `DEVICE_ID_F0`. It drops that error without clearing `connected`, and bytes
of the identifier are then in front of the answer to the next call; for the contents that
the runs have, no tail of it is a telegram for another address, but the theorem is about
*every* set of contents, which has one that is. Every other read may fail at any place.

**An answer of another address is never taken** (`AnswersAreOwn`: `OwnAddress`), whatever is
slow, lost, disturbed, refused or dropped: `Orderly` is not needed here, so that the client
may have any part of any number of answers in front of it. The invariant
(`OwnInv`) is about the bytes it has taken in this telegram followed by those on the line:
wherever an answer to a get seems to begin in them (`41 len 01 01`), a whole one begins, and
if its checksum is right it carries a content of the address it names. The steps that take
bytes keep this because they only drop or move them; the controller's answers because none of
the telegrams it may send has such a beginning *inside* (`NoFalseAnswer`, the condition of the
theorem, on addresses and contents). The condition is sufficient, not necessary; `MCSession`
asserts it for the constants of the runs. Without it the property is false: a content
`41 05 01 01 ...` is another address's answer to a client that has lost its place.

**The session implements the register** (`SessionImplementsRegister`), from the same
conditions. In addition to `LineInv` it takes `RefInv`: one request at most is on the line
(`Single`), a request at the client's own await is its own (`OwnTelegram`), and the
outcome is still open while the operation runs (`OutcomeInv`). There is one lemma for each
action of `RemoteRegister` and one for each action of `Session` that says which it is:
the controller's answer is `Apply` of the running set or of one in `late`, the last await
is `Succeed` or `Fail`, everything else that touches no memory is a stutter.

**VS1** (`Vs1_proofs`): `TypeCorrect` without conditions; `AnswersAreCurrent`,
`WritesTakeEffect`, `SuccessLeavesNothing` and `Vs1ImplementsRegister` for controllers whose
SYNCs are at least a tick apart (`Spaced`; run `vs1_sync` is what happens without), and
whatever fails, is slow, lost, closed or dropped. An answer has nothing to tell it by, so the
invariant counts time: when the request is written, no SYNC is due before a tick has passed
(`Still`), and each SYNC takes a tick, so that a line of SYNCs is never longer than the
time that was waited (`AtRead`: `Len(rx) <= elapsed`), which is what `get` tests before it
repeats. A set is told by 0x00, which is no SYNC, and only one request is in the
controller's hands (`Single`). The refinement needs that a request belongs to an earlier
call until the running one has written its own (`OwnRequest`).

**The caller's view** (`SetpointHistory_proofs`): `Spec => []IInv`, and from it
`[]ReadYourWrites` and `[]SetpointHolds`, for every set of registers and any number of
calls, from `RegisterAssumption` and `SetpointAssumption`. The two properties are
about the moment after a call and are not inductive. The strengthening says what
holds in between: what is in a setpoint, or is on its way there in `late`, is
`possible` (`ContentsPossible`); so is what a running get has seen (`RunningGet`) and
what a called set will write (`CalledSet`); a running set that has taken effect
stays in effect, because nothing is late (`Applied`); and after a success nothing
is late (`Settled`). `Applied` is where the proof uses the promise that no earlier
write follows: the mutant `ApplyEarly` breaks it.

**Commands** (`Command_proofs`), for every set of commands that `CommandAssumption` admits
(any lengths, places, bits, blocks, bounds, parameter, data type and conversion), every
memory, every set of inputs and any number of calls:

* `TypeCorrect` (`[]TypeOK`): what `set` writes are bytes, whatever it was given, and a get
  returns a value that the program can have, or fails. The parts are the range of
  `Number` and `Bits`, of what BCD digits may be read as, and the pairs of switching times,
  of which `from_bytes` drops one that has lost its other half.
* `SetIsReadBack` (`RoundTrip` whenever the command is `Faithful`) and `FaithfulRoundTrip`
  (`[]RoundTrip`, if all that are read and written are). The invariant is `JustWritten`:
  after a success, the memory holds the bytes of the prepared value at the command's
  address. `ReadBack` then follows for each kind of value: the number in bytes of either
  order (`DateRoundTrip`, `DateTimeRoundTrip`, `TimeRoundTrip` for dates and times), and
  that conversion and bounds let it pass.
* `SetLeavesNeighbours` and `NeighboursAreKept` (`NeighboursKept`, for commands that `Fits`).
* `GetIsSetBack` (what `WriteBack` asks of a step, whenever the command of the last call is
  `Restorable`) and `InvertibleWriteBack` (`WriteBack` as it is checked, if all commands that
  are read and written are `Invertible` and have no date in them). The invariant is
  `JustRead`: after a get, the output is what the memory reads as. The proof is the way
  back: the number of some bytes, encoded in as many, is those bytes (`NumberEncoded`,
  `SignedEncoded`), a conversion is undone (`ConversionUndone`), and a text that was cut at its
  first zero is written as what is read as the same text (`TextRestored`).

`Invertible` is `Faithful`, and a type that `set` takes; a conversion that is an offset or a
factor of a Double without a rest (a result in hundredths that was cut cannot be
multiplied back); and a sign in the parameter of a Double of four bytes, which is read as an
`i32` and cast to the parameter type. A date can be read that cannot be written, of
a year beyond four digits or a pair of switching times of which one is missing
(`Representable`), so that commands with dates are `Restorable` by what was read. `MCCommand`
asserts `Invertible` of its commands.

`Faithful` and `Fits` are conditions on a command, found by proving: each of their conjuncts
is a way the code loses a value. They hold of 1891 of the 2622 commands of the data that are
read and written, and of 2113 of the 2643 that are written. The others: a parameter type of
two bytes for a command of one (490, finding 2), or of two for one of four (7); a signed Int
or Byte (114, finding 3); bits of a byte, which `set` overwrites as a whole (67); a value that
is not at the beginning of the bytes that are read, where `set` writes nevertheless (45); a
date or error whose length is not that of its bytes (24); blocks (10); an Int with a
conversion that only `set` applies (7). `RoundTrip` speaks further of values that are
`Representable`: an `as` cast loses the others. `MCCommand` asserts that its commands that
are read and written are faithful, so that `command_codec` is an instance of the theorems;
`command_width` and `command_signed` are what happens to others.

**Numbers** (`UniqueMapping_proofs`): `UniqueMapping::create` is faithful
(`UniqueMappingFaithful`) and gives different values different numbers
(`UniqueMappingDistinct`), for any set of maps. The generator rests on it twice, and
`Generator` runs the very actions of `UniqueMapping`. The inductive invariant
(`Invariance`) says that the numbers given out so far are below `id`, that a value is numbered
exactly if it is no longer in `reversed`, and then with all of its keys, and that each
number leads back to its value. The number that a longest key already has in
`id_map`, which the code looks for, is never found: the keys of a value are visited once.

**The generator** (`Release_proofs`), for every export and every table in the code:
no text is written over (`GeneratorKeepsTexts`: `TextsKept`), because a text is added only
for an id without one (`AddedKeeps`) and the English texts are empty until all labels
are read (`EnglishLater`); and what is written is closed under its references
(`FilesAreClosed`: `NothingDangling`), which follows from the one step that writes
(`UseIsClosed`) and the steps of the build and the detection, which leave the files alone.
`BordersAreWide` (`[]BordersCover`) rests on `ExportAssumption`: the value types are a table
of records whose borders are numbers, the ids of devices are numbers. The fold over the
value types of an event type is a recursive function, which is shown to exist (`LoopExists`)
and, by induction over the value types, to be single only if all of them are, and then to
admit what each of them admits (`SoFar`). The invariant `BordersInv` carries this through
the table extensions, both filters and the conversion to commands: the texts of value
types are replaced, their borders never; and the devices that are kept link only to event
types that are.

`BufferSuffices` (`[](PayloadFits <=> (stage = "built" => SystemCommandsFit))`): the buffer that
the build script sizes by the commands of the devices takes every command exactly if no
system command asks for more than all of those. `LengthsInv` says that block lengths are
numbers from the export to the program, that those of the program are those of the files,
and `LongestCommand` that the fold over them yields their maximum.

`ErrorsAreRight` (`[]ErrorsMeanDevice`) follows the text of an error from the export to the
program. It rests on `ErrorLabelAssumption`: an error label is not renamed, is neither
the id nor the description of a value, and no event type is named like a group of errors,
whose table would replace theirs (`all_mappings`). `ErrorsInv` says, stage by stage: the
texts that the two passes add or find for values are no errors, or the vendor's own
(`ValuesInv`, `AddedNoError`); the cleaned translations have all of the vendor's errors
and no others (`TextsInv`: of the labels that are fixed to the same id the *last* counts, so
that it matters that none but itself is fixed to an error); the numbers of texts and
of tables lead back to them (`NumbersInv`, by the lemmas of `UniqueMapping_proofs`, which are
instantiated); and what is used of the tables has each device's codes (`UsedErrors`). That a
device has the table of its own name exactly if the vendor has labels for it is
`DeviceGroup`.

`ValuesAreRight` (`[](OrderlyTexts => TextsMeanValues)`) does the same for the values of
commands, on top of `BordersInv` and `ErrorsInv`. `MeaningsInv` says, stage by stage: a
value type has the vendor's number and either its own label or an id that its description
leads to (`IdsInv`, `AddMeans`); the texts that are known are those of labels with the
same fixed id, or made up for values with that id (`KnownInv`: an id has one meaning,
though several values may ask for it); the list of an event type has the numbers of its
value types, each with the id of a value type of this number (`ListsInv`); tables are made
only of ids that have a text (`TextsThere`), the generator panics otherwise; and
`UsedLists` takes the numbers of texts and of tables back to them, with the lemmas of
`UniqueMapping_proofs`. The loop over the value types of an event type is treated as for
the borders: by induction over them, whatever list there is holds what the value types up
to here put into it (`ListsSoFar`, `MergedLists`).

`OrderlyTexts` was found by proving and by trying: of 36000 tables made at random some
violate `TextsMeanValues`, and none that is orderly. Its conditions: event types have
different names once they are cleaned, or one has the list of another; what has a number
is a list, since the numbers of others are dropped; a fixed id has a text, which the fixes
take for granted; and a description that the second pass follows leads neither to a label
that `translation_fixes` renames, so that what was found is gone, nor to the id of a value
without a text, for which one has been made up before. All exports of the run `release`
are orderly, which TLC has evaluated on each of their states; the run checks
`TextsMeanValues` itself, without the condition.

**Detection** (`Release_proofs`): `TypeCorrect`, and, for every order of the map,
`DetectionIsBest` (`BestEffort`) and `UniqueDeviceIsFound` (`UniqueMatch`). The invariant
`DetectInv` says what the loops before the running one have ruled out (`LoopInv`): in the
second, that no candidate has the F0 identifier; in the third, that none has it in its
range; and so on; and that the identifier is the controller's or absent (`ReadInv`).
The theorems are about maps with `OrderlyRanges`: of the devices of one id all or none
have an index, F0 identifiers are with indices they are read for, and of the devices for
one index all or none have one. A later loop that prefers another kind of candidate would
otherwise find a device that an earlier one passed by. `ProperController` says that the
controller's numbers are a byte and two bytes. Both have been evaluated with TLC at the end
of every behaviour of the run `release` and hold, so the run's exports are instances of the
theorem. Of the 189 devices of the data two ids are not orderly: 16, whose groups are
compared no more (finding 4), and 186, where `V333MW2` has no index next to
`V333MW2_2` with 2 to 15: a controller with another index gets the one that is last in
the map.

**The scan** (`Scan_proofs`): `[]TypeOK`, `[]Aligned`, `[]Saved`, `AppendOnly` and
`[]ReportComplete`, for every
address space, every chunk (longer than the address space, or not a divisor of it),
every set of commands, and any number of errors, crashes and runs, from
`ScanAssumption`. The invariant says of the file *and* of what the run has that they are
readings of the addresses from 0 in the order of time (`InOrder`), and, while a chunk has
been read and not written, that this chunk begins where the file ends (`Position`): a torn
write (`TornWrite`) leaves a beginning of what the run has, whose length is where the
next run goes on. That no command reaches beyond the last address (`TableFits`) keeps the
report within its types. For the report (`ReportInv`) `ReportComplete` is inductive once it
is known that every command is in the table and that nothing is shown outside of the
report. A step prints the block at the next address (`BlockShown`) or leaves it out
(`BlockLeftOut`): the lines before it stay as they are, since the content does not change,
and what the block hides begins inside of it. Where commands share an address any of them
may be in the table.

**Only model-checked:** liveness (`CallReturns`, `ConnectReturns`, `RunEnds`); and
`TextsMeanValues` for texts that are not `OrderlyTexts`.
Liveness under fairness is out of the prover's reach, as is
what a recursive operator, a fold or `SelectSeq` computes for every input. A recursive
*function* can be unfolded (`Command_proofs` does it for the bits of a number and for the
text without zeros, by induction with `LeastNumber`).

## 5. Findings

1. `vs1_sync`: every get writes RESET although `renegotiate` or `detect` has just
   done so. A controller that answers each with SYNC sends two; the second arrives
   after the purge and is taken for the answer, because it came quickly. With
   SYNCs a tick apart (`Spaced`, run `vs1_session`) it cannot happen.
2. `command_width`: `set` encodes by the parameter type and ignores the command's
   length, and overwrites the next address.
3. `command_signed`: `parse_value` does not extend the sign of an Int.
4. `release_group`: detection compares the low byte of the identifier, and the build
   script loses the group besides.

## 6. Limits of the models

* With latency a VS2 negotiation may take an old SYNC and an old ACK for its own,
  and a set may take an earlier acknowledgement and return before it is carried
  out: of the properties only `OwnAddress` is stated there.
* Not modelled in VS2: payloads that do not fit the telegram buffer (`FIXME` in
  `vs2.rs`) and blocks above 255 bytes, which panic; a length byte below 5 is an
  error in the model and may be a panic in the code.
* Disturbed are the answers to reads only: of an answer to a write no byte changes, it
  can be refused or delayed. `session_liveness` loses no message, since the call for whose
  request there is no answer waits for ever.
* Which of the two protocols `Protocol::detect` chooses is not stated: an error in the
  negotiation of VS2 makes it VS1.
* In the codec: rounding of `f64` (a product like 0.29 * 100 is truncated to 28);
  how chrono parses the text of a date; values outside the parameter's range
  (stored as something else, silently); texts and arrays of another length than the
  command's, which `get` and `set` do not compare: `NotLonger` keeps the longer ones out of
  `NeighboursKept`, `Representable` the shorter ones out of `RoundTrip`. 49 writable commands have a conversion
  that `set` panics on, and six combine Int and Div10 or Mul10, which only one
  direction applies: the MC module leaves them out, the hazards list them.
* Detection among devices of which only some have an index (id 186 of the data) is in no
  run; see section 4.
* `Optolink`'s two device types, argument parsing, output, `serde` forms, error
  texts and the lookups in the constant maps have no model: they change no state.
* In the generator and the build script: the layout of the vendor's XML and of the
  archive it comes in, how names and texts are spelled (white space, prefixes other
  than those of the tables), fields that only pass through to the output, and the
  printing of Rust source. Texts that are equal after cleaning are equal in the model.
  The generator's panics for a command without a `parameter`, an address without its
  `0x` and the like have no action: the tables in the model have these fields in the
  form that the code expects.
* `BordersCover` is about number types. The borders of `Ecotronic_Party`, which are
  the temperature in the name of the value type, are not covered by it. System commands
  have no list of values (the generator leaves it empty), so that `NothingDangling` holds
  of them trivially.
* The codes that a controller may report as errors are in no table, so that nothing is said
  about a code that has no text (`value.rs:164` unwraps it).

## 7. The plan

Done so far: all of section 2 and section 4. What is left: the asymmetry of Int and Div10
as a run of `Command`, and block counts.
