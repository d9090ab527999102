------------------------------ MODULE Command ------------------------------
(***************************************************************************)
(* Command::get and Command::set of src/src/command.rs with the            *)
(* conversions of src/src/value.rs, on the memory of a controller.         *)
(*                                                                         *)
(* A command reads block_len bytes at addr and takes byte_len of them,     *)
(* from byte_pos on, for its value; it writes the bytes of its parameter   *)
(* type at addr.  Several commands may share an address, or the bytes of   *)
(* one may be next to those of another.                                    *)
(*                                                                         *)
(* The number of a Double counts hundredths; the conversions of the        *)
(* commands modelled are exact in them.  A String is the sequence of its   *)
(* bytes, or of the numbers it is made of.  The protocol is left out: it   *)
(* either fails or does what it is asked to, see module Session.           *)
(***************************************************************************)
EXTENDS Calendar, SequencesExt

CONSTANTS
  Commands,   \* the commands of a device: a set of records
  Inputs,     \* the values a caller may set
  Texts,      \* the dates and date-times that texts stand for: a function
  Contents,   \* what the memory may contain at first: sequences of bytes
  MaxCalls    \* bound: how many calls are made

Parameters ==
  {"byte", "s_byte", "int", "int_high_byte_first", "s_int", "s_int_high_byte_first", "int4",
   "int4_high_byte_first", "s_int4", "s_int4_high_byte_first", "array", "string",
   "string_nt", "string_cr"}

DataTypes ==
  {"DeviceId", "DeviceIdF0", "Date", "DateTime", "Error", "CircuitTimes", "ErrorIndex",
   "String", "ByteArray", "Byte", "Int", "Double"}

\* Lengths, places and the count of blocks, 0 for None, and a bound or << >>.
IsCommand(c) ==
  /\ c.data_type \in DataTypes /\ c.parameter \in Parameters
  /\ c.addr \in Nat \ {0}
  /\ {c.block_len, c.byte_len, c.byte_pos, c.bit_pos, c.bit_len, c.block_count} \subseteq Nat
  /\ c.conversion.num \in Nat \ {0} /\ c.conversion.den \in Nat \ {0}
  /\ \A bound \in {c.lower, c.upper} : bound \in Seq(Int) /\ Len(bound) < 2

\* A value is [t |-> its variant, n |-> a number, b |-> a sequence].
Value(t, n, b) == [t |-> t, n |-> n, b |-> b]

\* The values that the program and its callers can make.
IsDateTime(b) ==
  b \in Seq(Nat) /\ Len(b) = 6 /\ IsDate(b) /\ IsTime(<< b[4], b[5], b[6] >>)

ValidValue(v) ==
  /\ v = Value(v.t, v.n, v.b)
  /\ v.t \in {"Int", "Double"} => v.n \in Int /\ v.b = << >>
  /\ v.t \notin {"Int", "Double"} => v.n = 0
  /\ v.t \in {"ByteArray", "String"} => v.b \in Seq(Byte)
  /\ v.t = "Date" => v.b \in Seq(Nat) /\ Len(v.b) = 3 /\ IsDate(v.b)
  /\ v.t = "DateTime" => IsDateTime(v.b)
  /\ v.t = "Error" =>
       \/ v.b = << 0 >>
       \/ v.b \in Seq(Nat) /\ Len(v.b) = 7 /\ v.b[1] \in Byte /\ IsDateTime(Tail(v.b))
  /\ v.t = "CircuitTimes" =>
       /\ v.b \in Seq({None} \cup Minutes) /\ Len(v.b) = 56
       /\ \A i \in 1..28 : v.b[2 * i - 1] = None <=> v.b[2 * i] = None

\* A memory that reaches as far as the blocks and the bytes of the commands.
IsMemory(m) ==
  /\ m \in Seq(Byte)
  /\ \A c \in Commands :
       c.addr + c.block_len <= Len(m) + 1 /\ c.addr + c.byte_pos + c.byte_len <= Len(m) + 1

ASSUME CommandAssumption ==
  /\ Commands # {} /\ \A c \in Commands : IsCommand(c)
  /\ \A m \in Contents : IsMemory(m)
  /\ \A v \in Inputs : ValidValue(v)
  /\ \A b \in DOMAIN Texts : Texts[b].t \in {"Date", "DateTime"} /\ ValidValue(Texts[b])
  /\ MaxCalls \in Nat

VARIABLES
  mem,     \* the memory: a sequence, addr is an index
  called,  \* the command of the last call
  input,   \* what was set, if the last call was a set
  output,  \* what the last call returned: a value, or its error
  calls    \* how many calls have been made

vars == << mem, called, input, output, calls >>

Empty == Value("Empty", 0, << >>)
Ok == Value("Ok", 0, << >>)
Err == Value("Err", 0, << >>)
Panic == Value("Panic", 0, << >>)

Scale == 100
BitWeight == << 128, 64, 32, 16, 8, 4, 2, 1 >>

-----------------------------------------------------------------------------
(* Parameters and conversions *)

\* The bytes the parameter type has, whether it is signed and its byte order.
\* "array" and the string parameters have no numeric type.
Width(p) ==
  IF p \in {"byte", "s_byte"} THEN 1
  ELSE IF p \in {"int", "s_int", "int_high_byte_first", "s_int_high_byte_first"} THEN 2
  ELSE IF p \in {"array", "string", "string_nt", "string_cr"} THEN 0 ELSE 4
HighByteFirst(p) ==
  p \in {"int_high_byte_first", "s_int_high_byte_first", "int4_high_byte_first",
         "s_int4_high_byte_first"}
Signed(p) ==
  p \in {"s_byte", "s_int", "s_int4", "s_int_high_byte_first", "s_int4_high_byte_first"}

\* What the digits of a number in bytes weigh, the lowest first.
Weight == << 1, 256, 65536, 16777216 >>

\* The number n as a signed one of a byte or two.
AsSigned(n, w) ==
  LET range == Weight[w + 1]
      m == n % range
  IN  IF m >= range \div 2 THEN m - range ELSE m

\* The greatest signed number of a parameter type, the least number, and the
\* numbers that are too great.
Top(p) == IF Width(p) = 1 THEN 127 ELSE IF Width(p) = 2 THEN 32767 ELSE 2147483647
Least(p) == IF Signed(p) THEN -Top(p) - 1 ELSE 0
Exceeds(n, p) == IF Signed(p) THEN n > Top(p) ELSE n \div 2 > Top(p)

\* Rust's `n as uN` and `n as iN` of a float: it is truncated towards zero and
\* saturates.
Truncated(n) == IF n >= 0 THEN n \div Scale ELSE -((-n) \div Scale)
Saturated(n, p) ==
  IF n < Least(p) THEN Least(p)
  ELSE IF ~Exceeds(n, p) THEN n
  ELSE IF Signed(p) THEN Top(p) ELSE 2 * Top(p) + 1

\* The digit of n at place k.
Digit(n, k) == (n \div Weight[k]) % 256

\* Mutant: every number is cast to four bytes before it is encoded.
EncodeWide(n, p) == [k \in 1..4 |-> Digit(n, IF HighByteFirst(p) THEN 5 - k ELSE k)]

\* Mutant: the last byte is not cut to eight bits.
EncodeUncut(n, p) ==
  LET w == Width(p)
  IN  [k \in 1..w |-> n \div Weight[IF HighByteFirst(p) THEN w + 1 - k ELSE k]]

\* Mutant: to_le_bytes for the high-byte-first types as well.
EncodeLittle(n, p) == [k \in 1..Width(p) |-> Digit(n, k)]

\* The bytes of n, to_le_bytes or to_be_bytes; an integer wraps.
Encode(n, p) ==
  LET w == Width(p)
  IN  [k \in 1..w |-> Digit(n, IF HighByteFirst(p) THEN w + 1 - k ELSE k)]

\* The characters but '0'.
WithoutZeros(bytes) ==
  LET kept[i \in 0..Len(bytes)] ==
        IF i = 0 THEN << >>
        ELSE IF bytes[i] = 48 THEN kept[i - 1] ELSE Append(kept[i - 1], bytes[i])
  IN  kept[Len(bytes)]

\* A conversion is [kind, num, den]: "scale" (DivN, MulN) and "seconds"
\* (SecToN) multiply a Double by num/den, "offset" is MulOffset with offset 0,
\* which multiplies an Int too when its factor is whole, "ascii", "version" and
\* "rotate" are for a ByteArray, "other" is never applied.  convert leaves a
\* value as it is when it cannot be applied, as parse_value does with the error.
convert(v, conv) ==
  IF v.t = "Double" /\ conv.kind \in {"scale", "offset", "seconds"}
    THEN [v EXCEPT !.n = (@ * conv.num) \div conv.den]
  ELSE IF v.t = "Int" /\ conv.kind = "offset" /\ conv.den = 1 THEN [v EXCEPT !.n = @ * conv.num]
  ELSE IF v.t # "ByteArray" THEN v
  ELSE IF conv.kind = "ascii" THEN Value("String", 0, WithoutZeros(v.b))
  ELSE IF conv.kind = "version" THEN Value("String", 0, v.b)
  ELSE IF conv.kind = "rotate" THEN [v EXCEPT !.b = Reverse(@)]
  ELSE v

\* Mutant: convert_back applies MulOffset as convert does.
convert_again(v, conv) ==
  IF v.t \notin {"Int", "Double"} \/ conv.kind \notin {"scale", "offset"} THEN Err
  ELSE LET d == IF v.t = "Int" THEN v.n * Scale ELSE v.n
       IN  Value("Double", (IF conv.kind = "offset" THEN d * conv.num
                                                   ELSE (d * conv.den) \div conv.num), << >>)

\* convert_back turns every number into a Double, and fails otherwise.
convert_back(v, conv) ==
  IF v.t \notin {"Int", "Double"} \/ conv.kind \notin {"scale", "offset"} THEN Err
  ELSE LET d == IF v.t = "Int" THEN v.n * Scale ELSE v.n
       IN  Value("Double", (d * conv.den) \div conv.num, << >>)

\* Bounds count hundredths; << >> when the command has none.
Hundredths(v) == IF v.t = "Int" THEN v.n * Scale ELSE v.n
TooLow(c, v) == v.t \in {"Int", "Double"} /\ c.lower # << >> /\ Hundredths(v) < c.lower[1]
TooHigh(c, v) == v.t \in {"Int", "Double"} /\ c.upper # << >> /\ Hundredths(v) > c.upper[1]

-----------------------------------------------------------------------------
(* Reading *)

\* The all-ones pattern is no value, unless the type is signed or bounds tell.
IsUnset(c, bytes) ==
  /\ c.parameter \notin {"s_int", "s_int_high_byte_first", "s_int4", "s_int4_high_byte_first"}
  /\ c.lower = << >> /\ c.upper = << >>
  /\ \A i \in 1..Len(bytes) : bytes[i] = 255

\* bit_len bits from bit_pos on, counted from the high bit of the block: the
\* index of one outside the bytes taken panics.
HasBits(c, bytes) ==
  c.bit_pos >= 8 * c.byte_pos /\ c.bit_pos + c.bit_len <= 8 * (c.byte_pos + Len(bytes))
Bits(c, bytes) ==
  LET first == c.bit_pos - 8 * c.byte_pos
      n[i \in 0..c.bit_len] ==
        IF i = 0 THEN 0
        ELSE LET pos == first + i - 1
             IN  2 * n[i - 1] + ((bytes[(pos \div 8) + 1] \div BitWeight[(pos % 8) + 1]) % 2)
  IN  n[c.bit_len]

\* The i32 of four bytes, or of as many as there are.
Number(c, bytes) ==
  LET k == IF Len(bytes) < 4 THEN Len(bytes) ELSE 4
      digit(i) == IF i > k THEN 0
                  ELSE bytes[IF HighByteFirst(c.parameter) THEN k + 1 - i ELSE Len(bytes) - k + i]
  IN  digit(1) + digit(2) * Weight[2] + digit(3) * Weight[3] + AsSigned(digit(4), 1) * Weight[4]

\* The cast to the data type: an Int is never extended by its sign, a Double
\* is, for one and two bytes.  Any other parameter is unreachable!.
Number2Value(c, n) ==
  IF Width(c.parameter) = 0 \/ (c.data_type = "Byte" /\ Width(c.parameter) # 1) THEN Panic
  ELSE CASE c.data_type = "Byte" -> Value("Int", n % 256, << >>)
         [] c.data_type = "Int" -> Value("Int", n, << >>)
         [] c.data_type = "Double" ->
              Value("Double", Scale * (IF Signed(c.parameter) /\ Width(c.parameter) < 4
                                         THEN AsSigned(n, Width(c.parameter)) ELSE n), << >>)

Numeric(c, bytes) ==
  IF c.bit_len = 0 THEN Number2Value(c, Number(c, bytes))
  ELSE IF HasBits(c, bytes) THEN Number2Value(c, Bits(c, bytes))
  ELSE Panic

FixedLength ==
  [DeviceId |-> 8, DeviceIdF0 |-> 2, Date |-> 8, DateTime |-> 8, Error |-> 9, CircuitTimes |-> 56]

\* device_id.rs: the fields of DeviceId, the last of them a u16, and DeviceIdF0.
device_id_from_bytes(bytes) ==
  << bytes[1], bytes[2], bytes[3], bytes[4], bytes[5], bytes[6], bytes[7] * 256 + bytes[8] >>
device_id_f0_from_bytes(bytes) == << bytes[1] * 256 + bytes[2] >>

Structured(c, bytes) ==
  LET parsed == CASE c.data_type = "DeviceId" -> device_id_from_bytes(bytes)
                  [] c.data_type = "DeviceIdF0" -> device_id_f0_from_bytes(bytes)
                  [] c.data_type = "Date" -> date_from_bytes(bytes)
                  [] c.data_type = "DateTime" -> date_time_from_bytes(bytes)
                  [] c.data_type = "Error" -> error_from_bytes(bytes)
                  [] c.data_type = "CircuitTimes" -> circuit_times_from_bytes(bytes)
  IN  IF Len(bytes) # FixedLength[c.data_type] THEN Err
      ELSE IF c.data_type = "CircuitTimes" /\ \E i \in 1..Len(bytes) : ~IsTimeByte(bytes[i])
        THEN Panic
      ELSE IF parsed = << >> THEN Err ELSE Value(c.data_type, 0, parsed)

\* The bytes up to the first 0x00.
Terminated(bytes) ==
  LET zeros == {i \in 1..Len(bytes) : bytes[i] = 0}
  IN  IF zeros = {} THEN bytes
      ELSE SubSeq(bytes, 1, (CHOOSE i \in zeros : \A k \in zeros : i <= k) - 1)

\* The strings modelled are ASCII, or no UTF-8.
IsUtf8(bytes) == \A i \in 1..Len(bytes) : bytes[i] < 128

Unconverted(c, bytes) ==
  CASE c.data_type \in DOMAIN FixedLength -> Structured(c, bytes)
    [] c.data_type = "ErrorIndex" ->
         IF Len(bytes) = 10 THEN Value("ByteArray", 0, Terminated(bytes)) ELSE Err
    [] c.data_type = "String" ->
         IF IsUtf8(Terminated(bytes)) THEN Value("String", 0, Terminated(bytes)) ELSE Err
    [] c.data_type = "ByteArray" -> Value("ByteArray", 0, bytes)
    [] c.data_type \in {"Byte", "Int", "Double"} -> Numeric(c, bytes)

parse_value(c, bytes) ==
  IF IsUnset(c, bytes) THEN Empty
  ELSE LET v == convert(Unconverted(c, bytes), c.conversion)
       IN  IF TooLow(c, v) \/ TooHigh(c, v) THEN Empty ELSE v

\* The values of block_count equal parts, unless one fails or is not there.
deserialize(c, bytes) ==
  IF c.block_count = 0 THEN parse_value(c, bytes)
  ELSE LET len == c.block_len \div c.block_count
           values == [i \in 1..c.block_count |->
                        IF i * len > Len(bytes) THEN Panic
                        ELSE parse_value(c, SubSeq(bytes, (i - 1) * len + 1, i * len))]
           failed == {i \in 1..c.block_count : values[i] \in {Err, Panic}}
       IN  IF failed = {} THEN Value("Array", 0, values)
           ELSE values[CHOOSE i \in failed : \A k \in failed : i <= k]

\* The bytes of command c in memory m, and what a get of it returns.
Slice(c, m) == SubSeq(m, c.addr + c.byte_pos, c.addr + c.byte_pos + c.byte_len - 1)
Reads(c, m) ==
  IF c.byte_pos + c.byte_len > c.block_len THEN Panic ELSE deserialize(c, Slice(c, m))

-----------------------------------------------------------------------------
(* Writing *)

\* The date that a text stands for, if the command is one of a date.
Parsed(c, v) ==
  IF v.t = "String" /\ v.b \in DOMAIN Texts /\ Texts[v.b].t = c.data_type THEN Texts[v.b] ELSE v

\* The value Command::set encodes, once the input is converted back, a whole
\* Double is made the Int and a text the date that the data type asks for.
Prepared(c, v) ==
  LET back == IF c.conversion.kind = "none" THEN v ELSE convert_back(v, c.conversion)
  IN  IF c.data_type = "Int" /\ back.t = "Double" /\ back.n % Scale = 0
        THEN Value("Int", back.n \div Scale, << >>) ELSE Parsed(c, back)

\* Is the prepared value v of a type that set takes for command c?
Matches(c, v) ==
  \/ c.data_type \in {"Int", "Byte"} /\ v.t = "Int"
  \/ /\ c.data_type = v.t
     /\ v.t \in {"Double", "Date", "DateTime", "Error", "CircuitTimes", "ByteArray", "String"}

\* The bytes set writes for it.
Bytes(c, v) ==
  CASE v.t = "Int" -> Encode(v.n, c.parameter)
    [] v.t = "Double" -> Encode(Saturated(Truncated(v.n), c.parameter), c.parameter)
    [] v.t = "Date" -> date_to_bytes(v.b)
    [] v.t = "DateTime" -> date_time_to_bytes(v.b)
    [] v.t = "Error" -> error_to_bytes(v.b)
    [] v.t = "CircuitTimes" -> circuit_times_to_bytes(v.b)
    [] v.t \in {"ByteArray", "String"} -> v.b

\* unwrap of convert_back, unreachable! for a number without a numeric type
\* and, in a build that checks for it, the overflow of dec_to_bcd.
Panics(c, v) ==
  LET raw == Prepared(c, v)
  IN  \/ c.conversion.kind # "none" /\ raw = Err
      \/ /\ Matches(c, raw)
         /\ \/ raw.t \in {"Int", "Double"} /\ Width(c.parameter) = 0
            \/ raw.t \in {"Date", "DateTime"} /\ ~Encodable(raw.b)
            \/ raw.t = "Error" /\ Len(raw.b) > 1 /\ ~Encodable(Tail(raw.b))

\* Memory m after bytes are written at a.
Written(m, a, bytes) ==
  [i \in 1..Len(m) |-> IF i \in a..(a + Len(bytes) - 1) THEN bytes[i - a + 1] ELSE m[i]]

-----------------------------------------------------------------------------
(* The calls *)

Init ==
  /\ mem \in Contents
  /\ called = CHOOSE c \in Commands : TRUE
  /\ input = Empty /\ output = Empty
  /\ calls = 0

Called(c) == calls < MaxCalls /\ calls' = calls + 1 /\ called' = c

get(c) ==
  /\ Called(c)
  /\ input' = Empty
  /\ output' = IF c.mode \in {"read", "read_write"} THEN Reads(c, mem) ELSE Err
  /\ UNCHANGED mem

Accepted(c, v) == c.mode \in {"write", "read_write"} /\ ~TooLow(c, v) /\ ~TooHigh(c, v)

\* The mode or the bounds forbid it.
Reject(c, v) ==
  /\ ~Accepted(c, v)
  /\ output' = Err
  /\ UNCHANGED mem

WritePanics(c, v) ==
  /\ Accepted(c, v) /\ Panics(c, v)
  /\ output' = Panic
  /\ UNCHANGED mem

Mismatch(c, v) ==
  /\ Accepted(c, v) /\ ~Panics(c, v) /\ ~Matches(c, Prepared(c, v))
  /\ output' = Err
  /\ UNCHANGED mem

Write(c, v) ==
  /\ Accepted(c, v) /\ ~Panics(c, v) /\ Matches(c, Prepared(c, v))
  /\ mem' = Written(mem, c.addr, Bytes(c, Prepared(c, v)))
  /\ output' = Ok

set(c, v) ==
  /\ Called(c)
  /\ input' = v
  /\ Reject(c, v) \/ WritePanics(c, v) \/ Mismatch(c, v) \/ Write(c, v)

IsValue(v) == v.t \notin {"Empty", "Ok", "Err", "Panic"}

\* A caller may set what the last get returned.
Next ==
  \E c \in Commands :
    \/ get(c)
    \/ \E v \in Inputs \cup {output} : IsValue(v) /\ set(c, v)

Spec == Init /\ [][Next]_vars

-----------------------------------------------------------------------------
(* What a caller may expect *)

\* The memory is bytes as long as the commands reach, and input and output
\* are values.
TypeOK ==
  /\ IsMemory(mem)
  /\ called \in Commands
  /\ ValidValue(input) /\ input.t \notin {"Ok", "Err", "Panic"}
  /\ ValidValue(output)
  /\ calls \in 0..MaxCalls

\* The values command c has a representation for: a number that is converted
\* back without a rest to a whole one in the range of its parameter, and of the
\* i32 it is read with; times of day in steps of ten minutes; a year of four
\* digits; a text of all its bytes; and not the pattern that means no value.
Representable(c, v) ==
  LET raw == Prepared(c, v)
      n == IF raw.t = "Double" THEN Truncated(raw.n) ELSE raw.n
  IN  /\ v.t \in {"Int", "Double"} =>
           /\ c.conversion.kind # "none" => (Hundredths(v) * c.conversion.den) % c.conversion.num = 0
           /\ raw.t = "Double" => raw.n % Scale = 0
           /\ n = Saturated(n, c.parameter) /\ n <= Top("s_int4")
      /\ v.t = "CircuitTimes" => \A i \in 1..Len(v.b) : v.b[i] = None \/ v.b[i] % 10 = 0
      /\ v.t \in {"Date", "DateTime"} => v.b[1] < 10000
      /\ v.t = "Error" /\ Len(v.b) > 1 => v.b[2] < 10000
      /\ v.t \in {"ByteArray", "String"} => Len(v.b) = c.byte_len
      /\ v.t = "String" => \A i \in 1..Len(v.b) : v.b[i] \in 1..127
      /\ ~IsUnset(c, Bytes(c, raw))

SameValue(v, w) ==
  \/ v = w
  \/ {v.t, w.t} = {"Int", "Double"} /\ Hundredths(v) = Hundredths(w)

JustSet == output = Ok

\* What a set wrote is what a get returns next, the date for a text of one.
RoundTrip ==
  LET v == Parsed(called, input)
  IN  JustSet /\ called.mode = "read_write" /\ Representable(called, v) =>
        SameValue(Reads(called, mem), v)

\* The values that are compared by what they read as.
Dated == {"Date", "DateTime", "Error", "CircuitTimes"}

\* Setting what a get returned succeeds and leaves the memory as it is, so that
\* a caller may read, adjust and write back: what a get returns is within the
\* bounds and of the type that set asks for, and nothing is lost on the way to a
\* value and back.  Dates and switching times are compared by what they read
\* as: the controller may hold a wrong weekday, or half of a time span.
WritesBack ==
  called' = called /\ input' = output /\ IsValue(output) /\ input = Empty
      /\ called.mode = "read_write" =>
    /\ output' = Ok
    /\ IF called.data_type \in Dated
         THEN Reads(called, mem') = Reads(called, mem) ELSE mem' = mem

\* Every set of what a get returned does so.
WriteBack == [][WritesBack]_vars

\* The bytes of the value of command c.
Cells(c) == (c.addr + c.byte_pos)..(c.addr + c.byte_pos + c.byte_len - 1)

\* What is set is no text or array that has more bytes than its command.
NotLonger(c, v) == v.t \in {"ByteArray", "String"} => Len(v.b) <= c.byte_len

\* A set of a value that has no more bytes than its command changes no command
\* whose bytes are others; nothing keeps a longer text or array out of them.
LeavesNeighbours ==
  mem' # mem /\ NotLonger(called', Parsed(called', input')) =>
    \A d \in Commands : Cells(d) \cap Cells(called') = {} => Slice(d, mem') = Slice(d, mem)

\* No set writes into the bytes of another command.
NeighboursKept == [][LeavesNeighbours]_vars

-----------------------------------------------------------------------------
(* The commands for which these can be promised *)

\* The commands whose bytes are read as they were written: they are all the
\* bytes the command takes, and a number has the width of its parameter type,
\* a sign only if it is read with one, and a conversion that get applies.
Faithful(c) ==
  /\ c.byte_pos = 0 /\ c.byte_len <= c.block_len /\ c.bit_len = 0 /\ c.block_count = 0
  /\ c.data_type \in {"Int", "Byte", "Double"} => Width(c.parameter) = c.byte_len
  /\ c.data_type = "Byte" => Width(c.parameter) = 1
  /\ c.data_type \in {"Int", "Byte"} /\ Signed(c.parameter) =>
       c.data_type = "Int" /\ Width(c.parameter) = 4
  /\ c.data_type = "Int" /\ c.conversion.kind # "none" =>
       c.conversion.kind = "offset" /\ c.conversion.den = 1
  /\ c.data_type \in {"Date", "DateTime", "Error", "CircuitTimes"} =>
       c.byte_len = FixedLength[c.data_type]

\* The commands of which a set takes all that a get returns: the type is one of
\* those it takes, and the conversion can be undone, in hundredths without a
\* rest.  A Double is read of four bytes as an i32, and cast to the parameter
\* type when it is written: that has a sign then.
Invertible(c) ==
  /\ Faithful(c)
  /\ c.data_type \in Dated \cup {"Int", "Byte", "Double", "ByteArray", "String"}
  /\ c.conversion.kind # "none" =>
       \/ c.data_type = "Int"
       \/ /\ c.data_type = "Double" /\ c.conversion.kind \in {"scale", "offset"}
          /\ (Scale * c.conversion.num) % c.conversion.den = 0
  /\ c.data_type = "Double" /\ Width(c.parameter) = 4 => Signed(c.parameter)

\* What was read of such a command can be set again; a date of more than four
\* digits cannot, nor switching times of which the controller holds halves only.
Restorable ==
  Invertible(called) /\ (called.data_type \in Dated => Representable(called, output))

\* What set writes for command c starts where its value does, and is no longer.
Fits(c) ==
  /\ c.byte_pos = 0
  /\ c.data_type \in {"Int", "Byte", "Double"} => Width(c.parameter) <= c.byte_len
  /\ c.data_type \in {"Date", "DateTime", "Error", "CircuitTimes"} =>
       FixedLength[c.data_type] <= c.byte_len

=============================================================================
