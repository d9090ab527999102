----------------------------- MODULE MCCommand -----------------------------
(* Command for TLC: a device of commands of each kind of parameter, data   *)
(* type and conversion, those that set panics on left out, on a memory     *)
(* that holds boundary values.                                             *)
EXTENDS Command

None_ == [kind |-> "none", num |-> 1, den |-> 1]
Conv(kind, num, den) == [kind |-> kind, num |-> num, den |-> den]

Cmd(mode, type, parameter, addr, len, conv, lower, upper) ==
  [mode |-> mode, data_type |-> type, parameter |-> parameter, addr |-> addr,
   block_len |-> len, byte_len |-> len, byte_pos |-> 0, bit_pos |-> 0, bit_len |-> 0,
   block_count |-> 0, conversion |-> conv, lower |-> lower, upper |-> upper]

RW == "read_write"

Temperature == Cmd(RW, "Double", "s_int", 1, 2, Conv("scale", 1, 10), << -6000 >>, << 6000 >>)
Mode == Cmd(RW, "Int", "byte", 3, 1, None_, << 0 >>, << 300 >>)
Hours == Cmd(RW, "Int", "int", 4, 2, None_, << >>, << >>)
Level == Cmd(RW, "Double", "byte", 6, 1, Conv("scale", 10, 1), << >>, << >>)
Factor == Cmd(RW, "Double", "byte", 7, 1, Conv("offset", 3, 1), << >>, << 60000 >>)
Pair == Cmd("read", "ByteArray", "byte", 8, 2, None_, << >>, << >>)
Flags == [Cmd("read", "Int", "byte", 8, 2, None_, << >>, << >>)
            EXCEPT !.byte_pos = 1, !.byte_len = 1, !.bit_pos = 10, !.bit_len = 3]
Counter == Cmd(RW, "Int", "int4_high_byte_first", 10, 4, None_, << >>, << >>)
Offset == Cmd(RW, "Double", "s_byte", 14, 1, None_, << >>, << >>)
Day == Cmd(RW, "Date", "array", 15, 8, None_, << >>, << >>)
Clock == Cmd(RW, "DateTime", "array", 23, 8, None_, << >>, << >>)
Fault == Cmd(RW, "Error", "array", 31, 9, None_, << >>, << >>)
Times == Cmd(RW, "CircuitTimes", "array", 40, 56, None_, << >>, << >>)
Switch == Cmd("write", "Byte", "byte", 96, 1, None_, << >>, << >>)
Reversed == [Pair EXCEPT !.conversion.kind = "rotate"]
Version == [Pair EXCEPT !.conversion.kind = "version"]
DeviceIdent == Cmd("read", "DeviceId", "byte", 97, 8, None_, << >>, << >>)
DeviceIdentF0 == Cmd("read", "DeviceIdF0", "byte", 105, 2, None_, << >>, << >>)
Faults == Cmd("read", "ErrorIndex", "array", 107, 10, None_, << >>, << >>)
Name == Cmd("read", "String", "array", 117, 4, None_, << >>, << >>)
Serial == Cmd("read", "ByteArray", "array", 117, 4, Conv("ascii", 1, 1), << >>, << >>)
Label == Cmd(RW, "String", "array", 119, 2, None_, << >>, << >>)
History == [Cmd("read", "Double", "s_int", 121, 8, Conv("scale", 1, 10), << -5000 >>, << >>)
              EXCEPT !.block_count = 4]
Runtime == Cmd("read", "Double", "int", 129, 2, Conv("seconds", 1, 60), << >>, << >>)

\* Commands of the data whose layout does not fit: bits outside of the bytes
\* taken, more bytes than the block has, and blocks of which few are taken.
Outside == [Cmd("read", "Int", "byte", 1, 3, None_, << >>, << >>)
              EXCEPT !.byte_pos = 2, !.byte_len = 1, !.bit_pos = 4, !.bit_len = 4]
Overlong == [Cmd("read", "ByteArray", "byte", 8, 2, None_, << >>, << >>) EXCEPT !.byte_len = 16]
Blocks == [Cmd("read", "Int", "byte", 40, 48, None_, << >>, << >>)
             EXCEPT !.byte_len = 1, !.block_count = 8]

MCCommands ==
  {Temperature, Mode, Hours, Level, Factor, Pair, Flags, Counter, Offset, Day, Clock,
   Fault, Times, Switch, Reversed, Version, DeviceIdent, DeviceIdentF0, Faults, Name,
   Serial, History, Runtime, Label, Outside, Overlong, Blocks}

\* Every command of these that set writes is one that RoundTrip, WriteBack and
\* NeighboursKept can be promised for.
ASSUME MCLayouts ==
  \A c \in MCCommands : /\ c.mode = "read_write" => Invertible(c)
                        /\ c.mode \in {"write", "read_write"} => Fits(c)

Repeat(b, n) == [i \in 1..n |-> b]

\* An empty memory, and two that a controller may hold.
Erased == Repeat(255, 130)
Summer ==
  << 200, 0, 2, 16, 39, 12, 7, 165, 90, 0, 1, 0, 255, 100 >>
    \o << 32, 36, 2, 41, 3, 0, 0, 0 >>
    \o << 32, 37, 18, 23, 2, 35, 49, 20 >>
    \o << 172, 32, 24, 18, 35, 7, 23, 73, 49 >>
    \o << 48, 176, 255, 255, 192, 255 >> \o Repeat(255, 48) \o << 0, 192 >> \o << 1 >>
    \o << 32, 203, 1, 200, 2, 3, 1, 4 >> \o << 1, 9 >> \o << 23, 7, 9, 0, 5, 0, 0, 0, 0, 0 >>
    \o << 65, 48, 66, 0 >> \o << 5, 0, 251, 255, 0, 0, 0, 128 >> \o << 16, 14 >>
Winter ==
  << 253, 255, 0, 255, 127, 0, 255, 1, 128, 255, 255, 255, 254, 128 >>
    \o << 25, 153, 18, 49, 4, 0, 0, 0 >>
    \o << 32, 0, 2, 48, 0, 0, 0, 0 >>
    \o Repeat(0, 9)
    \o << 0, 197 >> \o Repeat(255, 54) \o << 0 >>
    \o Repeat(0, 24) \o << 250, 65 >> \o Repeat(0, 10)

MCContents == {Erased, Summer, Winter}

Num(t, n) == Value(t, n, << >>)

\* Texts of a date, of a year that has no bytes, and of a date-time; the model
\* needs no more of them than that they differ.
LeapDay == << 50, 57 >>
FarYear == << 43 >>
NewYear == << 49 >>
MCTexts ==
  [b \in {LeapDay, FarYear, NewYear} |->
     CASE b = LeapDay -> Value("Date", 0, << 2024, 2, 29 >>)
       [] b = FarYear -> Value("Date", 0, << 16000, 1, 1 >>)
       [] b = NewYear -> Value("DateTime", 0, << 2027, 1, 1, 0, 0, 0 >>)]

MCInputs ==
  {Num("Int", n) : n \in {-3, 0, 3, 128, 255, 60000}}
    \cup {Num("Double", n) : n \in {-300, -30, 2050, 2055, 25000, 12700}}
    \cup {Value("String", 0, << 65, 66 >>), Value("String", 0, << 65 >>),
          Value("Error", 0, << 73 >> \o << 2024, 2, 29, 23, 59, 58 >>), Value("Error", 0, << 0 >>),
          Value("CircuitTimes", 0, Repeat(None, 56))}
    \cup {Value("Date", 0, << 2024, 2, 29 >>), Value("DateTime", 0, << 1999, 12, 31, 23, 59, 58 >>),
          Value("CircuitTimes", 0, << 360, 1320, 465, 480 >> \o Repeat(None, 52)),
          Value("CircuitTimes", 0, << 360, 1440, None, None >> \o Repeat(None, 52))}
    \cup {Value("String", 0, b) : b \in DOMAIN MCTexts}

-----------------------------------------------------------------------------
(* Commands of the device data that the runs about single findings use *)

\* Ecotronic_Offset_Witterung: a signed Int.
MCSigned == {Cmd(RW, "Int", "s_int", 1, 2, None_, << -1000 >>, << 1000 >>)}

\* WPR_Anlagenkonfig_Anlagenschema, one byte of parameter type int, and the
\* command at the address after it, WPR_Anlagenkonfig_Sprache.
MCNarrow ==
  {[Cmd(RW, "Int", "int", 1, 1, None_, << >>, << >>) EXCEPT !.byte_len = 1],
   Cmd(RW, "Int", "byte", 2, 1, None_, << >>, << >>)}
MCFew == {Num("Int", n) : n \in {-3, 2, 5}}
MCSmall == {<< 4, 2, 0 >>, << 255, 255, 255 >>}

=============================================================================
