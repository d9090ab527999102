------------------------------ MODULE Calendar ------------------------------
(***************************************************************************)
(* Dates, times and switching times as the controllers store them:         *)
(* src/src/types/date_time.rs, circuit_time.rs and error.rs.               *)
(*                                                                         *)
(* A date is << year, month, day >>, a date-time adds hour, minute and     *)
(* second, a time of day is its number of minutes.  u8 arithmetic panics   *)
(* when it overflows, in a build that checks for overflow: dec_to_bcd is   *)
(* defined by its value where it does not, and Encodable says where.       *)
(***************************************************************************)
EXTENDS Integers, Sequences

Byte == 0..255

\* A number no date, time or byte has: a conversion that fails.
None == -1

-----------------------------------------------------------------------------
(* date_time.rs *)

bcd_to_dec(byte) == (byte \div 16) * 10 + (byte % 16)
dec_to_bcd(dec) == (dec \div 10) * 16 + (dec % 10)

\* The calendar of the chrono crate, for the years a u16 holds.
IsLeap(year) == year % 4 = 0 /\ (year % 100 # 0 \/ year % 400 = 0)

DaysIn(year, month) ==
  IF month = 2 THEN (IF IsLeap(year) THEN 29 ELSE 28)
  ELSE IF month \in {4, 6, 9, 11} THEN 30 ELSE 31

IsDate(date) ==
  /\ date[1] \in 0..(256 * 256 - 1)
  /\ date[2] \in 1..12
  /\ date[3] \in 1..DaysIn(date[1], date[2])

IsTime(time) == time[1] \in 0..23 /\ time[2] \in 0..59 /\ time[3] \in 0..59

\* num_days_from_monday of chrono, by counting days since a 1 March, which was a
\* Wednesday; weekdays repeat after 400 years.
Weekday(date) ==
  LET late == date[2] >= 3
      year == date[1] + (IF late THEN 400 ELSE 399)
      month == IF late THEN date[2] - 3 ELSE date[2] + 9
      days == 365 * year + year \div 4 - year \div 100 + year \div 400
                + (153 * month + 2) \div 5 + date[3] - 1
  IN  (days + 2) % 7

DateOf(bytes) ==
  << bcd_to_dec(bytes[1]) * 100 + bcd_to_dec(bytes[2]), bcd_to_dec(bytes[3]),
     bcd_to_dec(bytes[4]) >>

TimeOf(bytes) == << bcd_to_dec(bytes[6]), bcd_to_dec(bytes[7]), bcd_to_dec(bytes[8]) >>

\* Date::from_bytes and DateTime::from_bytes: << >> is the error.
date_from_bytes(bytes) == IF IsDate(DateOf(bytes)) THEN DateOf(bytes) ELSE << >>

date_time_from_bytes(bytes) ==
  LET d == DateOf(bytes)
      t == TimeOf(bytes)
  IN  IF IsDate(d) /\ IsTime(t) THEN << d[1], d[2], d[3], t[1], t[2], t[3] >> ELSE << >>

Century(date) == (date[1] \div 100) % 256

\* Is no dec_to_bcd of to_bytes beyond a u8?
Encodable(date) == Century(date) < 160

DateBytes(date, hour, minute, second) ==
  << dec_to_bcd(Century(date)), dec_to_bcd(date[1] % 100), dec_to_bcd(date[2]),
     dec_to_bcd(date[3]), Weekday(date), hour, minute, second >>

\* Date::to_bytes and DateTime::to_bytes.
date_to_bytes(date) == DateBytes(date, 0, 0, 0)

date_time_to_bytes(dt) ==
  DateBytes(dt, dec_to_bcd(dt[4]), dec_to_bcd(dt[5]), dec_to_bcd(dt[6]))

-----------------------------------------------------------------------------
(* error.rs: an error index and a time, << >> when there is none *)

error_from_bytes(bytes) ==
  LET time == date_time_from_bytes(SubSeq(bytes, 2, 9))
  IN  IF time = << >> /\ bytes[1] # 0 THEN << >> ELSE << bytes[1] >> \o time

error_to_bytes(error) ==
  << error[1] >> \o (IF Len(error) = 1 THEN << 0, 0, 0, 0, 0, 0, 0, 0 >>
                                        ELSE date_time_to_bytes(Tail(error)))

-----------------------------------------------------------------------------
(* circuit_time.rs *)

Unused == 255

\* The minutes of the times that a byte can stand for.
Minutes == 0..(24 * 60 + 59)

\* The assertions of Time::from_byte: it panics on any other byte.
IsTimeByte(byte) == byte = Unused \/ (byte \div 8 <= 24 /\ byte % 8 < 6)

time_from_byte(byte) ==
  IF byte = Unused THEN None ELSE (byte \div 8) * 60 + (byte % 8) * 10

time_to_byte(time) == (time \div 60) * 8 + (time % 60) \div 10

\* CircuitTimes::from_bytes: the 56 bytes are 28 time spans, four a day; one
\* whose start or end is unused is none.  The spans follow one another here.
circuit_times_from_bytes(bytes) ==
  [i \in 1..Len(bytes) |->
     LET other == IF i % 2 = 1 THEN i + 1 ELSE i - 1
     IN  IF Unused \in {bytes[i], bytes[other]} THEN None ELSE time_from_byte(bytes[i])]

circuit_times_to_bytes(times) ==
  [i \in 1..Len(times) |-> IF times[i] = None THEN Unused ELSE time_to_byte(times[i])]

=============================================================================
