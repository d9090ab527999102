--------------------------- MODULE Command_proofs ---------------------------
(***************************************************************************)
(* What Command promises, for every set of commands, every value and every *)
(* memory: TypeCorrect; that what set writes get returns (SetIsReadBack),  *)
(* from the round trips of dates, times and numbers; that a set leaves the *)
(* bytes of other commands alone (NeighboursAreKept); and that what get    *)
(* returned can be set again and loses nothing (GetIsSetBack).             *)
(***************************************************************************)
EXTENDS Command, WellFoundedInduction, SequenceTheorems, TLAPS

-----------------------------------------------------------------------------
(* Dates and times: what a command writes for one reads as what it was *)

FourDigits == 0..9999

\* The tens digit of a number below a hundred.
LEMMA Tens == \A d \in Nat : d < 100 => d \div 10 \in 0..9
  OBVIOUS

\* The ones digit.
LEMMA Ones == \A d \in Nat : d % 10 \in 0..9
  OBVIOUS

\* A number is its tens and its ones.
LEMMA TensOnes == \A d \in Nat : d = 10 * (d \div 10) + (d % 10)
  OBVIOUS

\* The high digit of a BCD byte.
LEMMA HighDigit == \A t \in 0..9, o \in 0..9 : (16 * t + o) \div 16 = t
  OBVIOUS

\* The low digit of a BCD byte.
LEMMA LowDigit == \A t \in 0..9, o \in 0..9 : (16 * t + o) % 16 = o
  OBVIOUS

\* A number of two digits survives being written in BCD, which fits a byte.
LEMMA Bcd ==
  ASSUME NEW dec \in 0..99
  PROVE  dec_to_bcd(dec) \in Byte /\ bcd_to_dec(dec_to_bcd(dec)) = dec
<1> DEFINE tens == dec \div 10
           ones == dec % 10
<1>1. dec \in Nat /\ dec < 100
  OBVIOUS
<1>2. tens \in 0..9 /\ ones \in 0..9 /\ dec = 10 * tens + ones
  BY <1>1, Tens, Ones, TensOnes
<1>3. dec_to_bcd(dec) = tens * 16 + ones
  BY DEF dec_to_bcd
<1> HIDE DEF tens, ones
<1>4. dec_to_bcd(dec) = 16 * tens + ones
  BY <1>2, <1>3
<1>5. dec_to_bcd(dec) \div 16 = tens /\ dec_to_bcd(dec) % 16 = ones
  BY <1>2, <1>4, HighDigit, LowDigit
<1> QED
  BY <1>2, <1>4, <1>5 DEF bcd_to_dec, Byte

\* The century of a year of four digits has two.
LEMMA Centuries == \A y \in Nat : y < 10000 => y \div 100 \in 0..99
  OBVIOUS

\* So has the year within the century.
LEMMA Years == \A y \in Nat : y % 100 \in 0..99
  OBVIOUS

\* A year is its century and the year within it.
LEMMA CenturiesYears == \A y \in Nat : y = 100 * (y \div 100) + (y % 100)
  OBVIOUS

\* The century of such a year is not cut by the cast to u8.
LEMMA NoWrap == \A c \in 0..99 : c % 256 = c
  OBVIOUS

\* The same for a year of four digits in two bytes.
LEMMA Year ==
  ASSUME NEW year \in FourDigits
  PROVE  bcd_to_dec(dec_to_bcd((year \div 100) % 256)) * 100
           + bcd_to_dec(dec_to_bcd(year % 100)) = year
<1> DEFINE c == year \div 100
           y == year % 100
<1>1. year \in Nat /\ year < 10000
  BY DEF FourDigits
<1>2. c \in 0..99 /\ y \in 0..99 /\ year = 100 * c + y
  BY <1>1, Centuries, Years, CenturiesYears
<1> HIDE DEF c, y
<1>3. bcd_to_dec(dec_to_bcd(c % 256)) = c /\ bcd_to_dec(dec_to_bcd(y)) = y
  BY <1>2, Bcd, NoWrap
<1>4. bcd_to_dec(dec_to_bcd(c % 256)) * 100 + bcd_to_dec(dec_to_bcd(y)) = year
  BY <1>2, <1>3
<1> QED
  BY <1>4 DEF c, y

\* The bytes of a date, one by one.
LEMMA BytesOfDate ==
  ASSUME NEW date, NEW hour, NEW minute, NEW second
  PROVE  LET bytes == DateBytes(date, hour, minute, second) IN
           /\ bytes[1] = dec_to_bcd((date[1] \div 100) % 256)
           /\ bytes[2] = dec_to_bcd(date[1] % 100)
           /\ bytes[3] = dec_to_bcd(date[2])
           /\ bytes[4] = dec_to_bcd(date[3])
           /\ bytes[6] = hour /\ bytes[7] = minute /\ bytes[8] = second
           /\ Len(bytes) = 8
  BY DEF DateBytes, Century

\* A month has 28 to 31 days.
LEMMA LengthOfMonth == \A year, month : DaysIn(year, month) \in {28, 29, 30, 31}
  BY DEF DaysIn

\* Month and day of a date have two digits.
LEMMA MonthAndDay == \A date : IsDate(date) => date[2] \in 1..31 /\ date[3] \in 1..31
<1> SUFFICES ASSUME NEW date, IsDate(date) PROVE date[2] \in 1..31 /\ date[3] \in 1..31
  OBVIOUS
<1>1. date[2] \in 1..12 /\ date[3] \in 1..DaysIn(date[1], date[2])
  BY DEF IsDate
<1>2. DaysIn(date[1], date[2]) \in {28, 29, 30, 31}
  BY LengthOfMonth
<1> QED
  BY <1>1, <1>2

\* The components of a triple.
LEMMA Triple ==
  ASSUME NEW x, NEW y, NEW z
  PROVE  << x, y, z >>[1] = x /\ << x, y, z >>[2] = y /\ << x, y, z >>[3] = z
  OBVIOUS

\* The digits of a date come back.
LEMMA DateDigits ==
  ASSUME NEW date, date[1] \in FourDigits, date[2] \in Nat, date[3] \in Nat, IsDate(date),
         NEW hour, NEW minute, NEW second
  PROVE  DateOf(DateBytes(date, hour, minute, second)) = << date[1], date[2], date[3] >>
<1> DEFINE bytes == DateBytes(date, hour, minute, second)
<1>1. date[2] \in 0..99 /\ date[3] \in 0..99
  <2>1. date[2] \in 1..31 /\ date[3] \in 1..31
    BY MonthAndDay
  <2> QED BY <2>1
<1>2. /\ bytes[1] = dec_to_bcd((date[1] \div 100) % 256) /\ bytes[2] = dec_to_bcd(date[1] % 100)
      /\ bytes[3] = dec_to_bcd(date[2]) /\ bytes[4] = dec_to_bcd(date[3])
  BY BytesOfDate
<1> HIDE DEF bytes
<1>3. bcd_to_dec(bytes[1]) * 100 + bcd_to_dec(bytes[2]) = date[1]
  <2>1. bcd_to_dec(dec_to_bcd((date[1] \div 100) % 256)) * 100
          + bcd_to_dec(dec_to_bcd(date[1] % 100)) = date[1]
    BY Year
  <2> QED BY <1>2, <2>1
<1>4. bcd_to_dec(bytes[3]) = date[2] /\ bcd_to_dec(bytes[4]) = date[3]
  BY <1>1, <1>2, Bcd
<1>5. DateOf(bytes) = << date[1], date[2], date[3] >>
  BY <1>3, <1>4 DEF DateOf
<1> QED BY <1>5 DEF bytes

\* The calendar looks at the first three components only.
LEMMA FirstThree == \A date : IsDate(date) => IsDate(<< date[1], date[2], date[3] >>)
  BY Triple DEF IsDate

\* Date::from_bytes undoes Date::to_bytes, for every date with a year of four digits.
THEOREM DateRoundTrip ==
  ASSUME NEW date, date[1] \in FourDigits, date[2] \in Nat, date[3] \in Nat, IsDate(date)
  PROVE  date_from_bytes(date_to_bytes(date)) = << date[1], date[2], date[3] >>
<1> DEFINE bytes == date_to_bytes(date)
<1>1. DateOf(bytes) = << date[1], date[2], date[3] >>
  BY DateDigits DEF date_to_bytes
<1> HIDE DEF bytes
<1>2. date_from_bytes(bytes) = << date[1], date[2], date[3] >>
  BY <1>1, FirstThree DEF date_from_bytes
<1> QED BY <1>2 DEF bytes

\* DateTime::from_bytes undoes DateTime::to_bytes, for every date-time that
\* DateTime::new accepts with a year of four digits.
THEOREM DateTimeRoundTrip ==
  ASSUME NEW dt, dt[1] \in FourDigits, dt[2] \in Nat, dt[3] \in Nat,
         IsDate(dt), IsTime(<< dt[4], dt[5], dt[6] >>)
  PROVE  date_time_from_bytes(date_time_to_bytes(dt))
           = << dt[1], dt[2], dt[3], dt[4], dt[5], dt[6] >>
<1> DEFINE bytes == date_time_to_bytes(dt)
<1>1. dt[4] \in 0..99 /\ dt[5] \in 0..99 /\ dt[6] \in 0..99
  BY Triple DEF IsTime
<1>2. DateOf(bytes) = << dt[1], dt[2], dt[3] >>
  BY DateDigits DEF date_time_to_bytes
<1>3. /\ bytes[6] = dec_to_bcd(dt[4]) /\ bytes[7] = dec_to_bcd(dt[5])
      /\ bytes[8] = dec_to_bcd(dt[6])
  BY BytesOfDate DEF date_time_to_bytes
<1> HIDE DEF bytes
<1>4. /\ bcd_to_dec(bytes[6]) = dt[4] /\ bcd_to_dec(bytes[7]) = dt[5]
      /\ bcd_to_dec(bytes[8]) = dt[6]
  BY <1>1, <1>3, Bcd
<1>5. TimeOf(bytes) = << dt[4], dt[5], dt[6] >>
  BY <1>4 DEF TimeOf
<1>6. date_time_from_bytes(bytes) = << dt[1], dt[2], dt[3], dt[4], dt[5], dt[6] >>
  BY <1>2, <1>5, FirstThree, Triple DEF date_time_from_bytes
<1> QED BY <1>6 DEF bytes

\* The hours of a time in steps of ten minutes.
LEMMA Hours == \A h \in 0..24, m \in 0..5 : (h * 60 + m * 10) \div 60 = h
  OBVIOUS

\* Its minutes.
LEMMA MinutesPart == \A h \in 0..24, m \in 0..5 : (h * 60 + m * 10) % 60 = m * 10
  OBVIOUS

\* Its minutes in tens.
LEMMA TensOfMinutes == \A m \in 0..5 : (m * 10) \div 10 = m
  OBVIOUS

\* The hours in a byte: `byte >> 3`.
LEMMA HighBits == \A h \in 0..24, m \in 0..5 : (h * 8 + m) \div 8 = h
  OBVIOUS

\* The tens of minutes in a byte: `byte & 0b111`.
LEMMA LowBits == \A h \in 0..24, m \in 0..5 : (h * 8 + m) % 8 = m
  OBVIOUS

\* Time::from_byte undoes Time::to_byte, for every multiple of ten minutes that
\* Time::from_str accepts; the byte passes the assertions and is not 0xff.
THEOREM TimeRoundTrip ==
  ASSUME NEW h \in 0..24, NEW m \in 0..5
  PROVE  /\ IsTimeByte(time_to_byte(h * 60 + m * 10))
         /\ time_to_byte(h * 60 + m * 10) \in Byte \ {Unused}
         /\ time_from_byte(time_to_byte(h * 60 + m * 10)) = h * 60 + m * 10
<1>1. time_to_byte(h * 60 + m * 10) = h * 8 + m
  BY Hours, MinutesPart, TensOfMinutes DEF time_to_byte
<1>2. (h * 8 + m) \div 8 = h /\ (h * 8 + m) % 8 = m
  BY HighBits, LowBits
<1>3. h * 8 + m \in 0..197
  OBVIOUS
<1>4. time_from_byte(h * 8 + m) = h * 60 + m * 10
  BY <1>2, <1>3 DEF time_from_byte, Unused
<1>5. IsTimeByte(h * 8 + m)
  BY <1>2 DEF IsTimeByte
<1>6. h * 8 + m \in Byte \ {Unused}
  BY <1>3 DEF Byte, Unused
<1> QED
  BY <1>1, <1>4, <1>5, <1>6

\* A multiple of ten minutes is hours and tens of minutes.
LEMMA TimeParts ==
  ASSUME NEW t \in Minutes, t % 10 = 0
  PROVE  \E h \in 0..24, m \in 0..5 : t = h * 60 + m * 10
<1> DEFINE h == t \div 60
           r == t % 60
           m == r \div 10
<1>1. t \in Nat /\ t < 1500
  BY DEF Minutes
<1>2. h \in Int /\ r \in Int /\ t = h * 60 + r /\ 0 <= r /\ r < 60
  BY <1>1
<1>3. 0 <= h /\ h <= 24
  <2> HIDE DEF h, r
  <2> QED BY <1>1, <1>2
<1>4. r % 10 = 0
  <2> HIDE DEF h, r
  <2> QED BY <1>1, <1>2
<1>5. m \in Int /\ r = m * 10
  <2> HIDE DEF h, r
  <2> QED BY <1>2, <1>4
<1>6. 0 <= m /\ m <= 5
  <2> HIDE DEF h, r, m
  <2> QED BY <1>2, <1>5
<1> HIDE DEF h, r, m
<1> QED BY <1>2, <1>3, <1>5, <1>6

\* The first and the second of the two times of a span.
LEMMA OddPlace == \A i \in 1..56 : i % 2 = 1 => (i + 1) \div 2 \in 1..28 /\ i = 2 * ((i + 1) \div 2) - 1
  OBVIOUS

\* The second.
LEMMA EvenPlace == \A i \in 1..56 : i % 2 # 1 => i \div 2 \in 1..28 /\ i = 2 * (i \div 2)
  OBVIOUS

\* Switching times in steps of ten minutes come back, if both ends of a time
\* span are there or none.
LEMMA SpansBack ==
  ASSUME NEW times \in Seq({None} \cup Minutes), Len(times) = 56,
         \A i \in 1..28 : times[2 * i - 1] = None <=> times[2 * i] = None,
         \A i \in 1..56 : times[i] = None \/ times[i] % 10 = 0
  PROVE  /\ circuit_times_from_bytes(circuit_times_to_bytes(times)) = times
         /\ Len(circuit_times_to_bytes(times)) = 56
         /\ \A i \in 1..56 : IsTimeByte(circuit_times_to_bytes(times)[i])
<1> DEFINE bytes == circuit_times_to_bytes(times)
           other(i) == IF i % 2 = 1 THEN i + 1 ELSE i - 1
<1>1. bytes = [i \in 1..56 |-> IF times[i] = None THEN Unused ELSE time_to_byte(times[i])]
  BY DEF circuit_times_to_bytes
<1>2. Len(bytes) = 56
        /\ \A i \in 1..56 : bytes[i] = IF times[i] = None THEN Unused ELSE time_to_byte(times[i])
  BY <1>1
<1>3. ASSUME NEW i \in 1..56
      PROVE  /\ IsTimeByte(bytes[i]) /\ (bytes[i] = Unused <=> times[i] = None)
             /\ times[i] # None => time_from_byte(bytes[i]) = times[i]
  <2>1. CASE times[i] = None
    <3> HIDE DEF bytes
    <3> QED BY <1>2, <2>1 DEF IsTimeByte
  <2>2. CASE times[i] # None
    <3>1. times[i] \in Minutes
      <4>1. times[i] \in {None} \cup Minutes
        BY ElementOfSeq
      <4> QED BY <2>2, <4>1
    <3>0. times[i] % 10 = 0
      BY <2>2
    <3>2. PICK h \in 0..24, m \in 0..5 : times[i] = h * 60 + m * 10
      BY <3>0, <3>1, TimeParts
    <3>3. /\ IsTimeByte(time_to_byte(h * 60 + m * 10))
          /\ time_to_byte(h * 60 + m * 10) \in Byte \ {Unused}
          /\ time_from_byte(time_to_byte(h * 60 + m * 10)) = h * 60 + m * 10
      BY TimeRoundTrip
    <3> HIDE DEF bytes
    <3> QED BY <1>2, <2>2, <3>2, <3>3, Zenon
  <2> QED BY <2>1, <2>2
<1> HIDE DEF bytes
<1>4. ASSUME NEW i \in 1..56
      PROVE  other(i) \in 1..56 /\ (times[other(i)] = None <=> times[i] = None)
  <2>1. CASE i % 2 = 1
    <3> DEFINE k == (i + 1) \div 2
    <3>1. k \in 1..28 /\ i = 2 * k - 1
      BY <2>1, OddPlace
    <3>2. other(i) = 2 * k /\ other(i) \in 1..56
      BY <2>1, <3>1
    <3> HIDE DEF k, other
    <3> QED BY <3>1, <3>2
  <2>2. CASE i % 2 # 1
    <3> DEFINE k == i \div 2
    <3>1. k \in 1..28 /\ i = 2 * k
      BY <2>2, EvenPlace
    <3>2. other(i) = 2 * k - 1 /\ other(i) \in 1..56
      BY <2>2, <3>1
    <3> HIDE DEF k, other
    <3> QED BY <3>1, <3>2
  <2> QED BY <2>1, <2>2
<1>5. circuit_times_from_bytes(bytes)
        = [i \in 1..56 |-> IF Unused \in {bytes[i], bytes[other(i)]} THEN None
                             ELSE time_from_byte(bytes[i])]
  BY <1>2 DEF circuit_times_from_bytes
<1> HIDE DEF other
<1>6. ASSUME NEW i \in 1..56
      PROVE  (IF Unused \in {bytes[i], bytes[other(i)]} THEN None ELSE time_from_byte(bytes[i]))
               = times[i]
  BY <1>3, <1>4
<1>7. times = [i \in 1..56 |-> times[i]]
  OBVIOUS
<1>8. circuit_times_from_bytes(bytes) = times
  BY <1>5, <1>6, <1>7
<1> QED BY <1>2, <1>3, <1>8 DEF bytes

-----------------------------------------------------------------------------
(* Numbers one after the other *)

\* Every set of numbers that is not empty has a least one.
LEMMA LeastNumber ==
  ASSUME NEW T \in SUBSET Nat, T # {}
  PROVE  \E n \in T : \A m \in T : n <= m
<1> DEFINE R == OpToRel(<, Nat)
<1>1. IsWellFoundedOn(R, Nat)
  BY NatLessThanWellFounded
<1>2. \A x, y \in Nat : x < y => << x, y >> \in R
  BY DEF OpToRel
<1> HIDE DEF R
<1>3. PICK n \in T : \A y \in T : << y, n >> \notin R
  BY <1>1, WFMin
<1>4. \A m \in T : ~(m < n)
  BY <1>2, <1>3
<1>5. \A m \in T : n <= m
  BY <1>4
<1> QED BY <1>5

\* Induction, for sets.
LEMMA Induction ==
  ASSUME NEW S, 0 \in S, \A n \in Nat : n \in S => n + 1 \in S
  PROVE  Nat \subseteq S
<1> SUFFICES ASSUME Nat \ S # {} PROVE FALSE
  OBVIOUS
<1>1. PICK n \in Nat \ S : \A m \in Nat \ S : n <= m
  BY LeastNumber
<1>2. n # 0 /\ n - 1 \in Nat /\ ~(n <= n - 1)
  BY <1>1
<1>3. n - 1 \in S
  BY <1>1, <1>2
<1>4. (n - 1) + 1 \in S
  BY <1>2, <1>3
<1> QED BY <1>1, <1>4

\* The function f goes from base on by step.
Follows(f, N, base, step) == f[0] = base /\ \A i \in 1..N : f[i] = step[<< i, f[i - 1] >>]

\* A function on 0..N that goes from each value to the next exists.
LEMMA Recursion ==
  ASSUME NEW N \in Nat, NEW S, NEW base \in S, NEW step \in [(1..N) \X S -> S]
  PROVE  \E f \in [0..N -> S] : Follows(f, N, base, step)
<1> DEFINE Good(f, n) == f[0] = base /\ \A i \in 1..n : f[i] = step[<< i, f[i - 1] >>]
           T == {n \in Nat : n <= N => \E f \in [0..n -> S] : Good(f, n)}
<1>1. 0 \in T
  <2> DEFINE f == [i \in 0..0 |-> base]
  <2>1. f \in [0..0 -> S] /\ Good(f, 0)
    OBVIOUS
  <2> QED BY <2>1
<1>2. ASSUME NEW n \in Nat, n \in T
      PROVE  n + 1 \in T
  <2> SUFFICES ASSUME n + 1 <= N
               PROVE  \E f \in [0..(n + 1) -> S] : Good(f, n + 1)
    OBVIOUS
  <2>1. PICK g \in [0..n -> S] : Good(g, n)
    BY <1>2
  <2> DEFINE f == [i \in 0..(n + 1) |-> IF i = n + 1 THEN step[<< n + 1, g[n] >>] ELSE g[i]]
  <2>2. g[n] \in S /\ n + 1 \in 1..N
    BY <2>1
  <2>3. step[<< n + 1, g[n] >>] \in S
    BY <2>2
  <2>4. f \in [0..(n + 1) -> S] /\ f[0] = base
    BY <2>1, <2>3
  <2>5. ASSUME NEW i \in 1..(n + 1)
        PROVE  f[i] = step[<< i, f[i - 1] >>]
    <3>1. CASE i = n + 1
      <4>1. f[i - 1] = g[n] /\ f[i] = step[<< n + 1, g[n] >>]
        BY <3>1
      <4> HIDE DEF f
      <4> QED BY <4>1, <3>1
    <3>2. CASE i # n + 1
      <4>1. i \in 1..n /\ f[i] = g[i] /\ f[i - 1] = g[i - 1]
        BY <3>2
      <4>2. g[i] = step[<< i, g[i - 1] >>]
        BY <2>1, <4>1
      <4> HIDE DEF f
      <4> QED BY <4>1, <4>2
    <3> QED BY <3>1, <3>2
  <2> HIDE DEF f
  <2> QED BY <2>4, <2>5
<1>3. N \in T
  <2> HIDE DEF T
  <2> QED BY <1>1, <1>2, Induction
<1> QED BY <1>3 DEF Follows

-----------------------------------------------------------------------------
(* Numbers in bytes *)

\* The weights of the digits.
LEMMA Weights == Weight[1] = 1 /\ Weight[2] = 256 /\ Weight[3] = 65536 /\ Weight[4] = 16777216
  BY DEF Weight

\* The widths of the parameter types.
LEMMA Widths == \A p : Width(p) \in {0, 1, 2, 4}
  BY DEF Width

\* A number is its quotient and its rest.
LEMMA LowDigitOf == \A n \in Int : n = (n \div 256) * 256 + (n % 256) /\ n % 256 \in 0..255
  OBVIOUS

\* The lower two bytes of a number are a number of two bytes.
LEMMA LowWordOf == \A n \in Int : n % 65536 \in Int /\ 0 <= n % 65536 /\ n % 65536 < 65536
  OBVIOUS

\* A digit is a byte.
LEMMA DigitIsByte == ASSUME NEW n \in Int, NEW k \in 1..4 PROVE Digit(n, k) \in Byte
<1>1. Weight[k] \in {1, 256, 65536, 16777216}
  BY Weights
<1>2. n \div Weight[k] \in Int
  BY <1>1
<1> QED BY <1>2, LowDigitOf DEF Digit, Byte

\* The bytes of a number, as many as its type has.
LEMMA EncodedBytes ==
  ASSUME NEW n \in Int, NEW p
  PROVE  /\ Encode(n, p) \in Seq(Byte) /\ Len(Encode(n, p)) = Width(p)
         /\ \A k \in 1..Width(p) :
              Encode(n, p)[k] = Digit(n, IF HighByteFirst(p) THEN Width(p) + 1 - k ELSE k)
<1> DEFINE w == Width(p)
           place(k) == IF HighByteFirst(p) THEN w + 1 - k ELSE k
           e == [k \in 1..w |-> Digit(n, place(k))]
<1>1. w \in Nat /\ w <= 4
  BY Widths
<1>2. \A k \in 1..w : place(k) \in 1..4
  <2> HIDE DEF w
  <2> QED BY <1>1
<1>3. \A k \in 1..w : Digit(n, place(k)) \in Byte
  BY <1>2, DigitIsByte
<1>4. e \in Seq(Byte) /\ Len(e) = w /\ \A k \in 1..w : e[k] = Digit(n, place(k))
  <2> HIDE DEF w, place
  <2> QED BY <1>1, <1>3
<1>5. Encode(n, p) = e
  BY DEF Encode
<1> HIDE DEF e
<1> QED BY <1>4, <1>5

\* The rest of a number of which the quotient is known.
LEMMA RestOfWord ==
  ASSUME NEW q \in Int, NEW r \in Int, 0 <= r, r < 65536
  PROVE  (q * 65536 + r) % 65536 = r
<1> DEFINE m == q * 65536 + r
           k == m \div 65536
           s == m % 65536
<1>1. m \in Int /\ k \in Int /\ s \in Int
  OBVIOUS
<1>2. m = k * 65536 + s /\ 0 <= s /\ s < 65536
  <2> HIDE DEF m
  <2> QED BY <1>1
<1>3. m = q * 65536 + r
  OBVIOUS
<1>4. k = q
  <2> HIDE DEF m, k, s
  <2> QED BY <1>1, <1>2, <1>3
<1>5. s = r
  <2> HIDE DEF m, k, s
  <2> QED BY <1>1, <1>2, <1>3, <1>4
<1> QED BY <1>5

\* Two digits make the number but for the multiples of its range.
LEMMA TwoDigits ==
  ASSUME NEW n \in Int
  PROVE  (n % 256) + ((n \div 256) % 256) * 256 = n % 65536
<1> DEFINE a == n \div 256
           b == a \div 256
           w == n % 256
           x == a % 256
           r == w + x * 256
<1>1. n = a * 256 + w /\ a = b * 256 + x /\ w \in 0..255 /\ x \in 0..255 /\ a \in Int /\ b \in Int
  BY LowDigitOf
<1>2. n = b * 65536 + r /\ r \in Int /\ 0 <= r /\ r < 65536
  <2> HIDE DEF a, b, w, x
  <2> QED BY <1>1
<1>3. (b * 65536 + r) % 65536 = r
  <2> HIDE DEF b, r
  <2> QED BY <1>1, <1>2, RestOfWord
<1> HIDE DEF b, r
<1> QED BY <1>2, <1>3

\* Dividing twice.
LEMMA DivideTwice ==
  \A n \in Int : (n \div 256) \div 256 = n \div 65536 /\ (n \div 65536) \div 256 = n \div 16777216
  OBVIOUS

\* Four digits, the last of them whole, make the number.
LEMMA FourDigits_ ==
  ASSUME NEW n \in Int
  PROVE  (n % 256) + ((n \div 256) % 256) * 256 + ((n \div 65536) % 256) * 65536
           + (n \div 16777216) * 16777216 = n
<1> DEFINE a == n \div 256
           b == n \div 65536
           w == n % 256
           x == a % 256
           y == b % 256
           z == n \div 16777216
<1>1. a \in Int /\ b \in Int /\ a \div 256 = b /\ b \div 256 = z
  BY DivideTwice
<1>2. n = a * 256 + w /\ a = b * 256 + x /\ b = z * 256 + y
  BY <1>1, LowDigitOf
<1>3. w \in Int /\ x \in Int /\ y \in Int /\ z \in Int
  BY <1>1
<1>4. w + x * 256 + y * 65536 + z * 16777216 = n
  <2> HIDE DEF a, b, w, x, y, z
  <2> QED BY <1>1, <1>2, <1>3
<1> QED BY <1>4

\* Signed numbers of one byte.
LEMMA SignedByte == \A m \in -128..127 : m % 256 = IF m < 0 THEN m + 256 ELSE m
  OBVIOUS

\* Numbers of two bytes, and negative ones.
LEMMA PositiveWord == ASSUME NEW m \in Int, 0 <= m, m < 65536 PROVE m % 65536 = m
<1>1. (0 * 65536 + m) % 65536 = m
  BY RestOfWord
<1> QED BY <1>1

\* Negative numbers of two bytes.
LEMMA NegativeWord == ASSUME NEW m \in Int, -65536 <= m, m < 0 PROVE m % 65536 = m + 65536
<1>1. m \in Int /\ m + 65536 \in Int /\ 0 <= m + 65536 /\ m + 65536 < 65536
  OBVIOUS
<1>2. ((-1) * 65536 + (m + 65536)) % 65536 = m + 65536
  BY <1>1, RestOfWord
<1>3. (-1) * 65536 + (m + 65536) = m
  BY <1>1
<1> QED BY <1>2, <1>3

\* The highest byte of an i32.
LEMMA HighestByte ==
  \A n \in Int : -2147483648 <= n /\ n <= 2147483647 => n \div 16777216 \in -128..127
  OBVIOUS

\* The sign of a byte comes back.
LEMMA SignOfByte == \A m \in -128..127 : AsSigned(m % 256, 1) = m
<1> SUFFICES ASSUME NEW m \in -128..127 PROVE AsSigned(m % 256, 1) = m
  OBVIOUS
<1>1. m % 256 \in 0..255
  BY LowDigitOf
<1>2. \A d \in 0..255 : d % 256 = d
  OBVIOUS
<1>3. (m % 256) % 256 = m % 256
  BY <1>1, <1>2
<1>4. 256 \div 2 = 128
  OBVIOUS
<1>5. AsSigned(m % 256, 1) = IF m % 256 >= 128 THEN (m % 256) - 256 ELSE m % 256
  BY <1>3, <1>4, Weights DEF AsSigned
<1> QED BY <1>5, SignedByte

\* The sign of a word comes back.
LEMMA SignOfWord ==
  ASSUME NEW m \in Int, -32768 <= m, m < 32768
  PROVE  AsSigned(m % 65536, 2) = m
<1> DEFINE d == m % 65536
<1>1. d = IF m < 0 THEN m + 65536 ELSE m
  <2>1. CASE m < 0
    <3>1. -65536 <= m
      OBVIOUS
    <3> QED BY <2>1, <3>1, NegativeWord
  <2>2. CASE ~(m < 0)
    <3>1. 0 <= m /\ m < 65536
      BY <2>2
    <3> QED BY <2>2, <3>1, PositiveWord
  <2> QED BY <2>1, <2>2
<1>2. d \in Int /\ 0 <= d /\ d < 65536
  <2> HIDE DEF d
  <2> QED BY <1>1
<1>3. d % 65536 = d
  <2> HIDE DEF d
  <2> QED BY <1>2, PositiveWord
<1>4. 65536 \div 2 = 32768
  OBVIOUS
<1>5. AsSigned(d, 2) = IF d >= 32768 THEN d - 65536 ELSE d
  <2>1. Weight[2 + 1] = 65536
    BY Weights
  <2> HIDE DEF d
  <2> QED BY <1>3, <1>4, <2>1 DEF AsSigned
<1>6. AsSigned(d, 2) = m
  <2> HIDE DEF d
  <2> QED BY <1>1, <1>5
<1> QED BY <1>6

\* The range of a parameter type, within that of an i32.
InRange(n, p) ==
  /\ n \in Int /\ n <= 2147483647
  /\ Signed(p) => -Top(p) - 1 <= n /\ n <= Top(p)
  /\ ~Signed(p) => 0 <= n /\ n <= 2 * Top(p) + 1

\* It is the numbers that a cast leaves as they are.
LEMMA RangeOfType ==
  ASSUME NEW n \in Int, NEW p, n = Saturated(n, p), n <= Top("s_int4")
  PROVE  InRange(n, p)
<1>1. Top(p) \in {127, 32767, 2147483647} /\ Top("s_int4") = 2147483647
  BY DEF Top, Width
<1>2. Top(p) \in Nat /\ n <= 2147483647
  BY <1>1
<1>3. CASE Signed(p)
  <2>1. -Top(p) - 1 <= n /\ n <= Top(p)
    BY <1>2, <1>3 DEF Saturated, Least, Exceeds
  <2> QED BY <1>2, <1>3, <2>1 DEF InRange
<1>4. CASE ~Signed(p)
  <2>1. (0 <= n /\ ~(n \div 2 > Top(p))) \/ n = 2 * Top(p) + 1
    BY <1>2, <1>4 DEF Saturated, Least, Exceeds
  <2>2. 0 <= n /\ n <= 2 * Top(p) + 1
    BY <1>2, <2>1
  <2> QED BY <1>2, <1>4, <2>2 DEF InRange
<1> QED BY <1>3, <1>4

\* What parse_value makes of the bytes of n.
LEMMA DigitsBack ==
  ASSUME NEW c, NEW n \in Int, Width(c.parameter) # 0
  PROVE  Number(c, Encode(n, c.parameter)) =
           LET w == Width(c.parameter)
               digit(i) == IF i > w THEN 0 ELSE Digit(n, i)
           IN  digit(1) + digit(2) * Weight[2] + digit(3) * Weight[3]
                 + AsSigned(digit(4), 1) * Weight[4]
<1> DEFINE w == Width(c.parameter)
           bytes == Encode(n, c.parameter)
           high == HighByteFirst(c.parameter)
           k == IF Len(bytes) < 4 THEN Len(bytes) ELSE 4
           digit(i) == IF i > k THEN 0 ELSE bytes[IF high THEN k + 1 - i ELSE Len(bytes) - k + i]
           place(j) == IF high THEN w + 1 - j ELSE j
<1>1. w \in {1, 2, 4}
  BY Widths
<1>2. Len(bytes) = w /\ \A j \in 1..w : bytes[j] = Digit(n, place(j))
  BY EncodedBytes
<1>3. k = w
  <2> HIDE DEF w, bytes
  <2> QED BY <1>1, <1>2
<1>4. ASSUME NEW i \in 1..4
      PROVE  digit(i) = IF i > w THEN 0 ELSE Digit(n, i)
  <2>1. CASE i <= w
    <3> DEFINE j == IF high THEN k + 1 - i ELSE Len(bytes) - k + i
    <3>1. j \in 1..w /\ place(j) = i
      <4> HIDE DEF w, bytes, k, high
      <4> QED BY <1>1, <1>2, <1>3, <2>1
    <3>2. bytes[j] = Digit(n, i)
      <4> HIDE DEF w, bytes, j, high
      <4> QED BY <1>2, <3>1
    <3>3. ~(i > k)
      <4> HIDE DEF w, k
      <4> QED BY <1>1, <1>3, <2>1
    <3> HIDE DEF w, bytes, k, high
    <3> QED BY <1>1, <2>1, <3>2, <3>3
  <2>2. CASE ~(i <= w)
    <3>1. i > w
      <4> HIDE DEF w
      <4> QED BY <1>1, <2>2
    <3>2. i > k
      <4> HIDE DEF w, k
      <4> QED BY <1>3, <3>1
    <3> HIDE DEF w, bytes, k, high
    <3> QED BY <3>1, <3>2
  <2> QED BY <2>1, <2>2
<1>5. Number(c, bytes) = digit(1) + digit(2) * Weight[2] + digit(3) * Weight[3]
                           + AsSigned(digit(4), 1) * Weight[4]
  BY DEF Number
<1> HIDE DEF digit, w, bytes
<1>6. /\ digit(1) = IF 1 > w THEN 0 ELSE Digit(n, 1)
      /\ digit(2) = IF 2 > w THEN 0 ELSE Digit(n, 2)
      /\ digit(3) = IF 3 > w THEN 0 ELSE Digit(n, 3)
      /\ digit(4) = IF 4 > w THEN 0 ELSE Digit(n, 4)
  BY <1>4
<1>7. Number(c, bytes) =
        LET d(i) == IF i > w THEN 0 ELSE Digit(n, i)
        IN  d(1) + d(2) * Weight[2] + d(3) * Weight[3] + AsSigned(d(4), 1) * Weight[4]
  BY <1>5, <1>6
<1> QED BY <1>7 DEF w, bytes

\* No digit has no sign.
LEMMA NoSign == AsSigned(0, 1) = 0
<1>1. 0 % 256 = 0 /\ 256 \div 2 = 128
  OBVIOUS
<1> QED BY <1>1, Weights DEF AsSigned

\* It is the number, or what is left of it in a byte or two.
LEMMA NumberBack ==
  ASSUME NEW c, NEW n, Width(c.parameter) # 0, InRange(n, c.parameter)
  PROVE  Number(c, Encode(n, c.parameter)) =
           IF Width(c.parameter) = 1 THEN n % 256
           ELSE IF Width(c.parameter) = 2 THEN n % 65536 ELSE n
<1> DEFINE w == Width(c.parameter)
           num == Number(c, Encode(n, c.parameter))
<1>1. n \in Int
  BY DEF InRange
<1>2. n \div 1 = n
  BY <1>1
<1>3. /\ Digit(n, 1) = n % 256 /\ Digit(n, 2) = (n \div 256) % 256
      /\ Digit(n, 3) = (n \div 65536) % 256 /\ Digit(n, 4) = (n \div 16777216) % 256
  BY <1>2, Weights DEF Digit
<1>4. CASE w = 1
  <2>1. num = Digit(n, 1) + 0 * Weight[2] + 0 * Weight[3] + AsSigned(0, 1) * Weight[4]
    BY <1>1, <1>4, DigitsBack
  <2>2. Digit(n, 1) \in Int
    BY <1>1, <1>3
  <2>3. num = Digit(n, 1)
    BY <2>1, <2>2, NoSign, Weights
  <2> QED BY <1>3, <1>4, <2>3
<1>5. CASE w = 2
  <2>1. num = Digit(n, 1) + Digit(n, 2) * Weight[2] + 0 * Weight[3] + AsSigned(0, 1) * Weight[4]
    BY <1>1, <1>5, DigitsBack
  <2>2. Digit(n, 1) \in Int /\ Digit(n, 2) \in Int
    BY <1>1, <1>3
  <2>3. num = Digit(n, 1) + Digit(n, 2) * 256
    BY <2>1, <2>2, NoSign, Weights
  <2>4. num = n % 65536
    BY <1>1, <1>3, <2>3, TwoDigits
  <2> QED BY <1>5, <2>4
<1>6. CASE w = 4
  <2>1. num = Digit(n, 1) + Digit(n, 2) * Weight[2] + Digit(n, 3) * Weight[3]
                + AsSigned(Digit(n, 4), 1) * Weight[4]
    BY <1>1, <1>6, DigitsBack
  <2>2. Top(c.parameter) = 2147483647
    BY <1>6 DEF Top
  <2>3. -2147483648 <= n /\ n <= 2147483647
    BY <2>2 DEF InRange
  <2>4. n \div 16777216 \in -128..127
    BY <1>1, <2>3, HighestByte
  <2>5. AsSigned(Digit(n, 4), 1) = n \div 16777216
    <3> DEFINE z == n \div 16777216
    <3>1. AsSigned(z % 256, 1) = z
      <4>1. z \in -128..127
        BY <2>4
      <4> HIDE DEF z
      <4> QED BY <4>1, SignOfByte
    <3> HIDE DEF z
    <3>2. Digit(n, 4) = z % 256
      BY <1>3 DEF z
    <3>3. AsSigned(Digit(n, 4), 1) = z
      BY <3>1, <3>2
    <3> QED BY <3>3 DEF z
  <2>6. num = (n % 256) + ((n \div 256) % 256) * 256 + ((n \div 65536) % 256) * 65536
                + (n \div 16777216) * 16777216
    BY <1>3, <2>1, <2>5, Weights
  <2>7. num = n
    BY <1>1, <2>6, FourDigits_
  <2> QED BY <1>6, <2>7
<1> QED BY <1>4, <1>5, <1>6, Widths

-----------------------------------------------------------------------------
(* Numbers that are read again *)

\* An unsigned number of a byte or two is what is left of it.
LEMMA UnsignedBack ==
  ASSUME NEW n, NEW p, InRange(n, p), ~Signed(p)
  PROVE  /\ Width(p) = 1 => n % 256 = n /\ (n % 256) % 256 = n
         /\ Width(p) = 2 => n % 65536 = n
<1>1. n \in Int /\ 0 <= n /\ n <= 2 * Top(p) + 1
  BY DEF InRange
<1>2. CASE Width(p) = 1
  <2>1. 0 <= n /\ n < 256
    BY <1>1, <1>2 DEF Top
  <2>2. n % 256 = n
    BY <1>1, <2>1
  <2> QED BY <1>2, <2>2
<1>3. CASE Width(p) = 2
  <2>1. 0 <= n /\ n < 65536
    BY <1>1, <1>3 DEF Top
  <2> QED BY <1>1, <1>3, <2>1, PositiveWord
<1> QED BY <1>2, <1>3

\* A signed one is, with the sign.
LEMMA SignedBack ==
  ASSUME NEW n, NEW p, InRange(n, p), Signed(p)
  PROVE  /\ Width(p) = 1 => AsSigned(n % 256, 1) = n
         /\ Width(p) = 2 => AsSigned(n % 65536, 2) = n
<1>1. n \in Int /\ -Top(p) - 1 <= n /\ n <= Top(p)
  BY DEF InRange
<1>2. CASE Width(p) = 1
  <2>1. -128 <= n /\ n <= 127
    BY <1>1, <1>2 DEF Top
  <2>2. n \in -128..127
    BY <1>1, <2>1
  <2>3. AsSigned(n % 256, 1) = n
    BY <2>2, SignOfByte
  <2> QED BY <1>2, <2>3
<1>3. CASE Width(p) = 2
  <2>1. -32768 <= n /\ n < 32768
    BY <1>1, <1>3, SMT DEF Top
  <2>2. AsSigned(n % 65536, 2) = n
    BY <1>1, <2>1, SignOfWord, SMT
  <2> QED BY <1>3, <2>2
<1> QED BY <1>2, <1>3

\* The number that is read of the bytes of n is n, in hundredths for a Double.
LEMMA NumericBack ==
  ASSUME NEW c, Faithful(c), c.data_type \in {"Int", "Byte", "Double"}, Width(c.parameter) # 0,
         NEW n, InRange(n, c.parameter)
  PROVE  Numeric(c, Encode(n, c.parameter)) =
           IF c.data_type = "Double" THEN Value("Double", Scale * n, << >>)
                                     ELSE Value("Int", n, << >>)
<1> DEFINE w == Width(c.parameter)
           num == Number(c, Encode(n, c.parameter))
<1>1. Numeric(c, Encode(n, c.parameter)) = Number2Value(c, num)
  BY DEF Numeric, Faithful
<1>2. num = IF w = 1 THEN n % 256 ELSE IF w = 2 THEN n % 65536 ELSE n
  BY NumberBack
<1>3. w \in {1, 2, 4}
  BY Widths
<1> HIDE DEF w, num
<1>4. CASE c.data_type = "Byte"
  <2>1. w = 1 /\ ~Signed(c.parameter)
    BY <1>4 DEF Faithful, w
  <2>2. num % 256 = n
    BY <1>2, <2>1, UnsignedBack DEF w
  <2>3. Number2Value(c, num) = Value("Int", num % 256, << >>)
    BY <1>4, <2>1 DEF Number2Value, w
  <2> QED BY <1>1, <1>4, <2>2, <2>3
<1>5. CASE c.data_type = "Int"
  <2>1. ~Signed(c.parameter) \/ w = 4
    BY <1>5 DEF Faithful, w
  <2>2. num = n
    BY <1>2, <1>3, <2>1, UnsignedBack DEF w
  <2>3. Number2Value(c, num) = Value("Int", num, << >>)
    BY <1>3, <1>5 DEF Number2Value, w
  <2> QED BY <1>1, <1>5, <2>2, <2>3
<1>6. CASE c.data_type = "Double"
  <2>1. (IF Signed(c.parameter) /\ w < 4 THEN AsSigned(num, w) ELSE num) = n
    BY <1>2, <1>3, UnsignedBack, SignedBack DEF w
  <2>2. Number2Value(c, num) =
          Value("Double", Scale * (IF Signed(c.parameter) /\ w < 4 THEN AsSigned(num, w) ELSE num),
                << >>)
    BY <1>3, <1>6 DEF Number2Value, w
  <2> QED BY <1>1, <1>6, <2>1, <2>2
<1> QED BY <1>4, <1>5, <1>6

\* Division without a rest.
LEMMA Exact == ASSUME NEW a \in Int, NEW m \in Nat \ {0}, a % m = 0 PROVE (a \div m) * m = a
  OBVIOUS

\* Division of a multiple.
LEMMA Multiple == ASSUME NEW a \in Int, NEW m \in Nat \ {0} PROVE (a * m) \div m = a
  OBVIOUS

\* Whole numbers are not cut.
LEMMA Whole ==
  ASSUME NEW n \in Int, n % Scale = 0
  PROVE  /\ Scale * Truncated(n) = n /\ Scale * (n \div Scale) = n
         /\ Truncated(n) \in Int /\ n \div Scale \in Int
  BY DEF Truncated, Scale

\* The constants' types.
LEMMA CommandType ==
  ASSUME NEW c \in Commands
  PROVE  /\ c.data_type \in DataTypes /\ c.parameter \in Parameters
         /\ c.addr \in Nat /\ c.addr > 0
         /\ c.block_len \in Nat /\ c.byte_len \in Nat /\ c.byte_pos \in Nat /\ c.bit_pos \in Nat
         /\ c.bit_len \in Nat /\ c.block_count \in Nat
         /\ c.conversion.num \in Nat \ {0} /\ c.conversion.den \in Nat \ {0}
         /\ c.lower \in Seq(Int) /\ c.upper \in Seq(Int)
<1>1. IsCommand(c)
  BY CommandAssumption
<1> QED BY <1>1 DEF IsCommand

\* The fields of a value.
LEMMA Fields ==
  \A t, n, b : Value(t, n, b).t = t /\ Value(t, n, b).n = n /\ Value(t, n, b).b = b
  BY DEF Value

\* A value of another number is that of the number.
LEMMA OtherNumber == \A t, n, b, m : [Value(t, n, b) EXCEPT !.n = m] = Value(t, m, b)
  BY DEF Value

\* What is no text is not parsed.
LEMMA NoText == \A c, v : v.t # "String" => Parsed(c, v) = v
  BY DEF Parsed

\* The type of what a number is converted back to.
LEMMA ConvertedBackType ==
  ASSUME NEW v, NEW conv
  PROVE  convert_back(v, conv) = Err \/ convert_back(v, conv).t = "Double"
  BY Fields DEF convert_back

\* A number is not parsed before it is encoded.
LEMMA PreparedFirst ==
  ASSUME NEW c, NEW v, v.t \in {"Int", "Double"}
  PROVE  LET first == IF c.conversion.kind = "none" THEN v ELSE convert_back(v, c.conversion)
         IN  Prepared(c, v) = IF c.data_type = "Int" /\ first.t = "Double" /\ first.n % Scale = 0
                                THEN Value("Int", first.n \div Scale, << >>) ELSE first
<1> DEFINE first == IF c.conversion.kind = "none" THEN v ELSE convert_back(v, c.conversion)
<1>1. Err.t = "Err"
  BY Fields DEF Err
<1>2. first.t # "String"
  BY <1>1, ConvertedBackType
<1>3. Parsed(c, first) = first
  BY <1>2, NoText
<1> QED BY <1>3 DEF Prepared

\* What set makes of a number before it is encoded: n hundredths of a Double, or an Int.
LEMMA PreparedNumber ==
  ASSUME NEW c \in Commands, NEW v, ValidValue(v), v.t \in {"Int", "Double"},
         c.conversion.kind # "none" => Prepared(c, v) # Err,
         Matches(c, Prepared(c, v)), Representable(c, v)
  PROVE  LET raw == Prepared(c, v)
             d == Hundredths(v)
             back == IF c.conversion.kind = "none" THEN d
                     ELSE (d * c.conversion.den) \div c.conversion.num
         IN  /\ d \in Int /\ back \in Int
             /\ c.conversion.kind # "none" =>
                  /\ c.conversion.kind \in {"scale", "offset"}
                  /\ back * c.conversion.num = d * c.conversion.den
             /\ \/ /\ c.data_type = "Double" /\ raw = Value("Double", back, << >>)
                   /\ back % Scale = 0
                   /\ c.conversion.kind = "none" => v.t = "Double"
                \/ /\ c.data_type \in {"Int", "Byte"} /\ raw = Value("Int", raw.n, << >>)
                   /\ raw.n \in Int /\ Scale * raw.n = back
                   /\ c.data_type = "Byte" => c.conversion.kind = "none"
<1> DEFINE raw == Prepared(c, v)
           d == Hundredths(v)
           conv == c.conversion
           back == IF conv.kind = "none" THEN d ELSE (d * conv.den) \div conv.num
           first == IF conv.kind = "none" THEN v ELSE convert_back(v, conv)
<1>1. v = Value(v.t, v.n, << >>) /\ v.n \in Int
  BY DEF ValidValue
<1>2. conv.num \in Nat \ {0} /\ conv.den \in Nat \ {0}
  BY CommandType
<1>3. d \in Int /\ (v.t = "Int" => d = v.n * Scale) /\ (v.t = "Double" => d = v.n)
  BY <1>1 DEF Hundredths, Scale
<1>4. d * conv.den \in Int
  BY <1>2, <1>3
<1>5. back \in Int
  BY <1>2, <1>3, <1>4
<1>6. raw = IF c.data_type = "Int" /\ first.t = "Double" /\ first.n % Scale = 0
              THEN Value("Int", first.n \div Scale, << >>) ELSE first
  BY PreparedFirst
<1>7. /\ conv.kind # "none" => (d * conv.den) % conv.num = 0
      /\ raw.t = "Double" => raw.n % Scale = 0
  BY DEF Representable
<1>8. Matches(c, raw)
  OBVIOUS
<1>9. conv.kind # "none" => raw # Err
  OBVIOUS
<1>10. \/ c.data_type = "Double" /\ raw.t = "Double"
       \/ c.data_type \in {"Int", "Byte"} /\ raw.t = "Int"
  <2>1. CASE conv.kind = "none"
    <3>1. first.t \in {"Int", "Double"}
      BY <2>1
    <3>2. raw.t \in {"Int", "Double"}
      BY <1>6, <3>1, Fields
    <3> HIDE DEF raw
    <3> QED BY <1>8, <3>2 DEF Matches
  <2>2. CASE conv.kind # "none"
    <3>1. first \in {Err, Value("Double", (d * conv.den) \div conv.num, << >>)}
      BY <2>2 DEF convert_back, Hundredths
    <3>2. first.t \in {"Err", "Double"}
      BY <3>1, Fields DEF Err
    <3>3. raw.t \in {"Err", "Int", "Double"}
      BY <1>6, <3>2, Fields
    <3> HIDE DEF raw
    <3> QED BY <1>8, <3>3 DEF Matches
  <2> QED BY <2>1, <2>2
<1>11. CASE conv.kind = "none"
  <2>1. first = v /\ back = d
    BY <1>11
  <2>2. CASE c.data_type = "Double"
    <3>1. raw = v
      BY <1>6, <2>1, <2>2
    <3>2. v.t = "Double" /\ v.n % Scale = 0
      BY <1>7, <1>10, <2>2, <3>1
    <3>3. raw = Value("Double", back, << >>)
      BY <1>1, <1>3, <2>1, <3>1, <3>2
    <3>4. back % Scale = 0
      BY <1>3, <2>1, <3>2
    <3> HIDE DEF raw, back, d, first
    <3> QED BY <1>3, <1>5, <1>11, <2>2, <3>2, <3>3, <3>4 DEF raw, back, d
  <2>3. CASE c.data_type \in {"Int", "Byte"}
    <3>1. raw.t = "Int"
      BY <1>10, <2>3
    <3>2. CASE v.t = "Int"
      <4>1. raw = v
        BY <1>6, <2>1, <3>2
      <4>2. raw = Value("Int", raw.n, << >>) /\ raw.n \in Int
        BY <1>1, <3>2, <4>1
      <4>3. Scale * raw.n = back
        BY <1>1, <1>3, <2>1, <3>2, <4>1 DEF Scale
      <4> HIDE DEF raw, back, d, first
      <4> QED BY <1>3, <1>5, <1>11, <2>3, <4>2, <4>3 DEF raw, back, d
    <3>3. CASE v.t = "Double"
      <4>1. c.data_type = "Int" /\ v.n % Scale = 0 /\ raw = Value("Int", v.n \div Scale, << >>)
        BY <1>6, <2>1, <3>1, <3>3, <2>3
      <4>2. raw.n = v.n \div Scale
        BY <4>1, Fields
      <4>3. Scale * raw.n = back /\ raw.n \in Int
        BY <1>1, <1>3, <2>1, <3>3, <4>1, <4>2, Whole
      <4>4. raw = Value("Int", raw.n, << >>)
        BY <4>1, <4>2
      <4> HIDE DEF raw, back, d, first
      <4> QED BY <1>3, <1>5, <1>11, <2>3, <4>3, <4>4 DEF raw, back, d
    <3> QED BY <3>2, <3>3
  <2> QED BY <1>10, <2>2, <2>3
<1>12. CASE conv.kind # "none"
  <2>1. \/ first = Err
        \/ conv.kind \in {"scale", "offset"} /\ first = Value("Double", back, << >>)
    BY <1>12 DEF convert_back, Hundredths
  <2>2. first # Err
    <3>1. Err.t # "Double"
      BY Fields DEF Err
    <3> QED BY <1>6, <1>9, <1>12, <3>1
  <2>3. conv.kind \in {"scale", "offset"} /\ first = Value("Double", back, << >>)
    BY <2>1, <2>2
  <2>4. first.t = "Double" /\ first.n = back
    BY <2>3, Fields
  <2>5. back * conv.num = d * conv.den
    BY <1>2, <1>4, <1>7, <1>12, Exact
  <2>6. CASE c.data_type = "Double"
    <3>1. raw = first
      BY <1>6, <2>6
    <3>2. back % Scale = 0
      BY <1>7, <2>4, <3>1
    <3> HIDE DEF raw, back, d, first
    <3> QED BY <1>3, <1>5, <1>12, <2>3, <2>5, <2>6, <3>1, <3>2 DEF raw, back, d
  <2>7. CASE c.data_type \in {"Int", "Byte"}
    <3>1. raw.t = "Int"
      BY <1>10, <2>7
    <3>2. c.data_type = "Int" /\ back % Scale = 0 /\ raw = Value("Int", back \div Scale, << >>)
      BY <1>6, <2>4, <2>7, <3>1
    <3>3. raw.n = back \div Scale
      BY <3>2, Fields
    <3>4. Scale * raw.n = back /\ raw.n \in Int
      BY <1>5, <3>2, <3>3, Whole
    <3>5. raw = Value("Int", raw.n, << >>)
      BY <3>2, <3>3
    <3> HIDE DEF raw, back, d, first
    <3> QED BY <1>3, <1>5, <1>12, <2>3, <2>5, <2>7, <3>2, <3>4, <3>5 DEF raw, back, d
  <2> QED BY <1>10, <2>6, <2>7
<1> QED BY <1>11, <1>12

\* A number that is converted back is the number.
LEMMA ConvertedBack ==
  ASSUME NEW c \in Commands, Faithful(c), NEW d \in Int, NEW back \in Int,
         c.conversion.kind = "none" => back = d,
         c.conversion.kind # "none" =>
           /\ c.conversion.kind \in {"scale", "offset"}
           /\ back * c.conversion.num = d * c.conversion.den
  PROVE  /\ convert(Value("Double", back, << >>), c.conversion) = Value("Double", d, << >>)
         /\ \A n \in Int :
              Scale * n = back /\ c.data_type \in {"Int", "Byte"}
                /\ (c.data_type = "Byte" => c.conversion.kind = "none") =>
                  \E m \in Int :
                    /\ convert(Value("Int", n, << >>), c.conversion) = Value("Int", m, << >>)
                    /\ Scale * m = d
<1> DEFINE conv == c.conversion
           D == Value("Double", back, << >>)
           num == conv.num
           den == conv.den
<1>1. num \in Nat \ {0} /\ den \in Nat \ {0}
  BY CommandType
<1>2. D.t = "Double" /\ D.n = back
  BY Fields
<1>3. convert(D, conv) = Value("Double", d, << >>)
  <2>1. CASE conv.kind = "none"
    <3>1. convert(D, conv) = D
      <4> HIDE DEF D
      <4> QED BY <1>2, <2>1 DEF convert
    <3> QED BY <2>1, <3>1
  <2>2. CASE conv.kind # "none"
    <3>1. convert(D, conv) = [D EXCEPT !.n = (back * num) \div den]
      <4> HIDE DEF D
      <4> QED BY <1>2, <2>2 DEF convert
    <3>2. [D EXCEPT !.n = (back * num) \div den] = Value("Double", (back * num) \div den, << >>)
      BY OtherNumber
    <3>3. back * num = d * den
      BY <2>2
    <3>4. (d * den) \div den = d
      <4> HIDE DEF den
      <4> QED BY <1>1, Multiple
    <3> HIDE DEF D, num, den
    <3> QED BY <3>1, <3>2, <3>3, <3>4
  <2> HIDE DEF D
  <2> QED BY <2>1, <2>2
<1>4. ASSUME NEW n \in Int, Scale * n = back, c.data_type \in {"Int", "Byte"},
             c.data_type = "Byte" => c.conversion.kind = "none"
      PROVE  \E m \in Int :
               convert(Value("Int", n, << >>), conv) = Value("Int", m, << >>) /\ Scale * m = d
  <2> DEFINE I == Value("Int", n, << >>)
  <2>1. I.t = "Int" /\ I.n = n
    BY Fields
  <2>2. CASE conv.kind = "none"
    <3>1. convert(I, conv) = I
      <4> HIDE DEF I
      <4> QED BY <2>1, <2>2 DEF convert
    <3> QED BY <1>4, <2>2, <3>1
  <2>3. CASE conv.kind # "none"
    <3>1. conv.kind = "offset" /\ den = 1
      BY <1>4, <2>3 DEF Faithful
    <3>2. convert(I, conv) = [I EXCEPT !.n = n * num]
      <4> HIDE DEF I
      <4> QED BY <2>1, <3>1 DEF convert
    <3>3. [I EXCEPT !.n = n * num] = Value("Int", n * num, << >>)
      BY OtherNumber
    <3>4. back * num = d
      BY <2>3, <3>1
    <3>5. n * num \in Int /\ Scale * (n * num) = d
      <4> HIDE DEF num
      <4> QED BY <1>1, <1>4, <3>4, SMT DEF Scale
    <3> HIDE DEF I, num
    <3> QED BY <3>2, <3>3, <3>5 DEF I
  <2> QED BY <2>2, <2>3
<1> QED BY <1>3, <1>4

\* Numbers are the same if their hundredths are.
LEMMA SameNumber ==
  ASSUME NEW v, ValidValue(v), v.t \in {"Int", "Double"}, NEW w, NEW n \in Int,
         w = Value("Int", n, << >>) \/ w = Value("Double", n, << >>), Hundredths(v) = Hundredths(w)
  PROVE  SameValue(w, v)
<1>1. v = Value(v.t, v.n, << >>) /\ v.n \in Int
  BY DEF ValidValue
<1>2. w.t \in {"Int", "Double"} /\ w = Value(w.t, n, << >>) /\ w.n = n
  BY Fields
<1>3. CASE v.t # w.t
  <2>1. {w.t, v.t} = {"Int", "Double"}
    BY <1>2, <1>3
  <2> QED BY <2>1 DEF SameValue
<1>4. CASE v.t = w.t
  <2>1. v.n = n
    <3>1. CASE v.t = "Int"
      BY <1>1, <1>2, <1>4, <3>1 DEF Hundredths, Scale
    <3>2. CASE v.t # "Int"
      BY <1>1, <1>2, <1>4, <3>2 DEF Hundredths
    <3> QED BY <3>1, <3>2
  <2>2. v = w
    BY <1>1, <1>2, <1>4, <2>1
  <2> QED BY <2>2 DEF SameValue
<1> QED BY <1>3, <1>4

\* The hundredths of a number.
LEMMA HundredthsOf ==
  \A n \in Int : /\ Hundredths(Value("Double", n, << >>)) = n
                 /\ Hundredths(Value("Int", n, << >>)) = Scale * n
<1> TAKE n \in Int
<1>1. Hundredths(Value("Double", n, << >>)) = n
  BY Fields DEF Hundredths
<1>2. Hundredths(Value("Int", n, << >>)) = n * Scale
  BY Fields DEF Hundredths
<1>3. n * Scale = Scale * n
  BY DEF Scale
<1> QED BY <1>1, <1>2, <1>3

\* The bounds look at the hundredths only.
LEMMA SameBounds ==
  ASSUME NEW c, NEW v, NEW w, v.t \in {"Int", "Double"}, w.t \in {"Int", "Double"},
         Hundredths(v) = Hundredths(w)
  PROVE  (TooLow(c, v) <=> TooLow(c, w)) /\ (TooHigh(c, v) <=> TooHigh(c, w))
  BY DEF TooLow, TooHigh

\* Number types are not of a fixed length.
LEMMA NumberUnconverted ==
  ASSUME NEW c, NEW bytes, c.data_type \in {"Int", "Byte", "Double"}
  PROVE  Unconverted(c, bytes) = Numeric(c, bytes)
<1>1. c.data_type \notin DOMAIN FixedLength
  BY DEF FixedLength
<1> QED BY <1>1 DEF Unconverted

\* The number of a command is whole before it is encoded.
LEMMA PreparedType ==
  ASSUME NEW c \in Commands, NEW v, ValidValue(v), v.t \in {"Int", "Double"},
         c.conversion.kind # "none" => Prepared(c, v) # Err
  PROVE  Prepared(c, v).t \in {"Int", "Double"} /\ Prepared(c, v).n \in Int
<1> DEFINE conv == c.conversion
           raw == Prepared(c, v)
           d == Hundredths(v)
           q == (d * conv.den) \div conv.num
           first == IF conv.kind = "none" THEN v ELSE convert_back(v, conv)
<1>1. v.n \in Int /\ d \in Int
  BY DEF ValidValue, Hundredths, Scale
<1>2. q \in Int
  <2>1. conv.num \in Nat \ {0} /\ conv.den \in Nat \ {0}
    BY CommandType
  <2> HIDE DEF d
  <2> QED BY <1>1, <2>1
<1>3. raw = IF c.data_type = "Int" /\ first.t = "Double" /\ first.n % Scale = 0
              THEN Value("Int", first.n \div Scale, << >>) ELSE first
  BY PreparedFirst
<1>4. first.t \in {"Int", "Double"} /\ first.n \in Int
  <2>1. CASE conv.kind = "none"
    <3>1. first = v
      BY <2>1
    <3> HIDE DEF first
    <3> QED BY <1>1, <3>1
  <2>2. CASE conv.kind # "none"
    <3>1. first = Err \/ first = Value("Double", q, << >>)
      BY <2>2 DEF convert_back, Hundredths
    <3>2. Err.t = "Err"
      BY Fields DEF Err
    <3>3. first # Err
      <4> HIDE DEF first
      <4> QED BY <1>3, <2>2, <3>2
    <3>4. first = Value("Double", q, << >>)
      BY <3>1, <3>3
    <3> HIDE DEF first, q
    <3> QED BY <1>2, <3>4, Fields
  <2> QED BY <2>1, <2>2
<1> HIDE DEF first
<1>5. first.n \div Scale \in Int
  BY <1>4, SMT DEF Scale
<1> HIDE DEF raw
<1>6. raw.t \in {"Int", "Double"} /\ raw.n \in Int
  BY <1>3, <1>4, <1>5, Fields
<1> QED BY <1>6 DEF raw

\* A number that was set is read.
LEMMA NumbersBack ==
  ASSUME NEW c \in Commands, Faithful(c), NEW v, ValidValue(v), v.t \in {"Int", "Double"},
         Accepted(c, v), ~Panics(c, v), Matches(c, Prepared(c, v)), Representable(c, v)
  PROVE  SameValue(parse_value(c, Bytes(c, Prepared(c, v))), v)
<1> DEFINE raw == Prepared(c, v)
           d == Hundredths(v)
           conv == c.conversion
           back == IF conv.kind = "none" THEN d ELSE (d * conv.den) \div conv.num
           bytes == Bytes(c, raw)
<1>1. Width(c.parameter) # 0 /\ (conv.kind # "none" => raw # Err)
  <2>1. conv.kind # "none" => raw # Err
    BY DEF Panics
  <2>2. raw.t \in {"Int", "Double"}
    BY <2>1, PreparedType
  <2>3. Matches(c, raw)
    OBVIOUS
  <2> QED BY <2>1, <2>2, <2>3 DEF Panics
<1>2. /\ d \in Int /\ back \in Int
      /\ conv.kind # "none" =>
           conv.kind \in {"scale", "offset"} /\ back * conv.num = d * conv.den
      /\ \/ /\ c.data_type = "Double" /\ raw = Value("Double", back, << >>)
            /\ back % Scale = 0
         \/ /\ c.data_type \in {"Int", "Byte"} /\ raw = Value("Int", raw.n, << >>)
            /\ raw.n \in Int /\ Scale * raw.n = back
            /\ c.data_type = "Byte" => conv.kind = "none"
  BY <1>1, PreparedNumber
<1>3. conv.kind = "none" => back = d
  OBVIOUS
<1>4. LET n == IF raw.t = "Double" THEN Truncated(raw.n) ELSE raw.n
      IN  n = Saturated(n, c.parameter) /\ n <= Top("s_int4")
  BY DEF Representable
<1>5. ~IsUnset(c, bytes)
  BY DEF Representable
<1>6. ~TooLow(c, v) /\ ~TooHigh(c, v)
  BY DEF Accepted
<1> HIDE DEF raw, d, back
<1>7. PICK m \in Int :
        \/ convert(Unconverted(c, bytes), conv) = Value("Double", m, << >>) /\ m = d
        \/ convert(Unconverted(c, bytes), conv) = Value("Int", m, << >>) /\ Scale * m = d
  <2>1. CASE c.data_type = "Double"
    <3> DEFINE n == Truncated(back)
    <3>1. raw = Value("Double", back, << >>) /\ back % Scale = 0
      BY <1>2, <2>1
    <3>2. raw.t = "Double" /\ raw.n = back
      BY <3>1, Fields
    <3>3. n \in Int /\ Scale * n = back
      BY <1>2, <3>1, Whole
    <3>4. n = Saturated(n, c.parameter) /\ n <= Top("s_int4")
      BY <1>4, <3>2
    <3>5. InRange(n, c.parameter)
      <4> HIDE DEF n
      <4> QED BY <3>3, <3>4, RangeOfType
    <3>6. bytes = Encode(n, c.parameter)
      <4>1. bytes = Encode(Saturated(Truncated(raw.n), c.parameter), c.parameter)
        BY <3>2 DEF Bytes
      <4> QED BY <3>2, <3>4, <4>1
    <3> HIDE DEF n, bytes
    <3>7. Unconverted(c, bytes) = Value("Double", back, << >>)
      BY <1>1, <2>1, <3>3, <3>5, <3>6, NumericBack, NumberUnconverted
    <3>8. convert(Unconverted(c, bytes), conv) = Value("Double", d, << >>)
      BY <1>2, <1>3, <3>7, ConvertedBack
    <3> QED BY <1>2, <3>8
  <2>2. CASE c.data_type # "Double"
    <3>1. /\ c.data_type \in {"Int", "Byte"} /\ raw = Value("Int", raw.n, << >>)
          /\ raw.n \in Int /\ Scale * raw.n = back
          /\ c.data_type = "Byte" => conv.kind = "none"
      BY <1>2, <2>2
    <3>2. raw.t = "Int"
      BY <3>1, Fields
    <3>3. InRange(raw.n, c.parameter)
      BY <1>4, <3>1, <3>2, RangeOfType
    <3>4. bytes = Encode(raw.n, c.parameter)
      BY <3>2 DEF Bytes
    <3> HIDE DEF bytes
    <3>5. Unconverted(c, bytes) = Value("Int", raw.n, << >>)
      BY <1>1, <2>2, <3>1, <3>3, <3>4, NumericBack, NumberUnconverted
    <3>6. \A n \in Int :
            Scale * n = back /\ c.data_type \in {"Int", "Byte"}
              /\ (c.data_type = "Byte" => c.conversion.kind = "none") =>
                \E m \in Int :
                  /\ convert(Value("Int", n, << >>), c.conversion) = Value("Int", m, << >>)
                  /\ Scale * m = d
      BY <1>2, <1>3, ConvertedBack
    <3>7. \E m \in Int : convert(Value("Int", raw.n, << >>), conv) = Value("Int", m, << >>)
                           /\ Scale * m = d
      BY <3>1, <3>6
    <3> QED BY <3>5, <3>7
  <2> QED BY <2>1, <2>2
<1> DEFINE w == convert(Unconverted(c, bytes), conv)
<1> HIDE DEF bytes, w
<1>8. w.t \in {"Int", "Double"} /\ Hundredths(w) = d
  BY <1>7, HundredthsOf, Fields DEF w
<1>9. ~TooLow(c, w) /\ ~TooHigh(c, w)
  BY <1>6, <1>8, SameBounds DEF d
<1>10. parse_value(c, bytes) = w
  BY <1>5, <1>9 DEF parse_value, w
<1>11. SameValue(w, v)
  BY <1>7, <1>8, SameNumber DEF d, w
<1> QED BY <1>10, <1>11 DEF bytes, raw

-----------------------------------------------------------------------------
(* Values that are not numbers *)

\* A sequence of three.
LEMMA ThreeOf ==
  ASSUME NEW S, NEW s \in Seq(S), Len(s) = 3
  PROVE  s = << s[1], s[2], s[3] >> /\ s[1] \in S /\ s[2] \in S /\ s[3] \in S
<1>0. \A k \in 1..3 : s[k] \in S
  BY ElementOfSeq
<1>1. s[1] \in S /\ s[2] \in S /\ s[3] \in S
  BY <1>0
<1>2. << s[1], s[2], s[3] >> \in Seq(S)
  BY <1>1
<1>3. \A k \in 1..3 : s[k] = << s[1], s[2], s[3] >>[k]
  OBVIOUS
<1> QED BY <1>1, <1>2, <1>3, SeqEqual

\* A sequence of six.
LEMMA SixOf ==
  ASSUME NEW S, NEW s \in Seq(S), Len(s) = 6
  PROVE  /\ s = << s[1], s[2], s[3], s[4], s[5], s[6] >>
         /\ s[1] \in S /\ s[2] \in S /\ s[3] \in S /\ s[4] \in S /\ s[5] \in S /\ s[6] \in S
<1>1. s[1] \in S /\ s[2] \in S /\ s[3] \in S /\ s[4] \in S /\ s[5] \in S /\ s[6] \in S
  <2>1. \A k \in 1..6 : s[k] \in S
    BY ElementOfSeq
  <2> QED BY <2>1
<1> DEFINE six == << s[1], s[2], s[3], s[4], s[5], s[6] >>
<1>2. six \in Seq(S) /\ Len(six) = 6
  BY <1>1
<1>3. \A k \in 1..6 : s[k] = six[k]
  OBVIOUS
<1> HIDE DEF six
<1>4. s = six
  BY <1>2, <1>3, SeqEqual
<1> QED BY <1>1, <1>4 DEF six

\* What follows a first element.
LEMMA AfterFirst ==
  ASSUME NEW S, NEW x \in S, NEW s \in Seq(S)
  PROVE  /\ << x >> \o s \in Seq(S) /\ Len(<< x >> \o s) = Len(s) + 1
         /\ (<< x >> \o s)[1] = x
         /\ Len(s) = 8 => Len(<< x >> \o s) = 9 /\ SubSeq(<< x >> \o s, 2, 9) = s
<1> DEFINE a == << x >> \o s
<1>1. << x >> \in Seq(S) /\ Len(<< x >>) = 1 /\ << x >>[1] = x
  OBVIOUS
<1>2. a \in Seq(S) /\ Len(a) = Len(s) + 1
  BY <1>1, ConcatProperties
<1>3. \A k \in 1..Len(a) : a[k] = IF k <= 1 THEN << x >>[k] ELSE s[k - 1]
  BY <1>1, ConcatProperties
<1>4. 1 \in 1..Len(a)
  BY <1>2
<1>5. a[1] = x
  BY <1>1, <1>3, <1>4
<1> HIDE DEF a
<1>6. ASSUME Len(s) = 8
      PROVE  Len(a) = 9 /\ SubSeq(a, 2, 9) = s
  <2> DEFINE b == SubSeq(a, 2, 9)
  <2>1. Len(a) = 9
    BY <1>2, <1>6
  <2>2. b \in Seq(S) /\ Len(b) = 8 /\ \A k \in 1..8 : b[k] = a[k + 1]
    <3>1. \A k \in 1..Len(a) : a[k] \in S
      BY <1>2, ElementOfSeq
    <3>2. \A k \in 2..9 : a[k] \in S
      BY <2>1, <3>1
    <3>3. /\ b \in Seq(S) /\ Len(b) = IF 2 <= 9 THEN 9 - 2 + 1 ELSE 0
          /\ \A k \in 1..(9 - 2 + 1) : b[k] = a[2 + k - 1]
      BY <3>2, SubSeqProperties
    <3> HIDE DEF b
    <3>4. 9 - 2 + 1 = 8 /\ 2 <= 9 /\ \A k \in 1..8 : 2 + k - 1 = k + 1
      OBVIOUS
    <3> QED BY <3>3, <3>4
  <2>3. \A k \in 1..8 : b[k] = s[k]
    BY <1>3, <2>1, <2>2
  <2> HIDE DEF b
  <2>4. b = s
    BY <1>6, <2>2, <2>3, SeqEqual
  <2> QED BY <2>1, <2>4 DEF b
<1> QED BY <1>2, <1>5, <1>6 DEF a

\* A first element and the rest.
LEMMA FirstAndRest ==
  ASSUME NEW S, NEW s \in Seq(S), Len(s) = 7
  PROVE  s = << s[1] >> \o Tail(s) /\ Tail(s) \in Seq(S) /\ Len(Tail(s)) = 6 /\ Tail(s)[1] = s[2]
<1>1. s # << >>
  <2>1. Len(<< >>) = 0
    OBVIOUS
  <2> QED BY <2>1
<1>2. Tail(s) \in Seq(S) /\ Len(Tail(s)) = 6 /\ \A k \in 1..6 : Tail(s)[k] = s[k + 1]
  <2> DEFINE q == Tail(s)
  <2>1. q \in Seq(S) /\ Len(q) = Len(s) - 1 /\ \A k \in 1..Len(q) : q[k] = s[k + 1]
    BY <1>1, HeadTailProperties
  <2> HIDE DEF q
  <2>2. Len(q) = 6
    BY <2>1
  <2>3. q \in Seq(S) /\ Len(q) = 6 /\ \A k \in 1..6 : q[k] = s[k + 1]
    BY <2>1, <2>2
  <2> QED BY <2>3 DEF q
<1>3. s[1] \in S
  <2>1. 1 \in 1..Len(s)
    OBVIOUS
  <2> QED BY <2>1, ElementOfSeq
<1> DEFINE r == Tail(s)
           a == << s[1] >> \o r
<1> HIDE DEF r
<1>4. a \in Seq(S) /\ Len(a) = 7 /\ \A k \in 1..7 : a[k] = IF k <= 1 THEN << s[1] >>[k] ELSE r[k - 1]
  <2>1. << s[1] >> \in Seq(S) /\ Len(<< s[1] >>) = 1
    BY <1>3
  <2>2. r \in Seq(S) /\ Len(r) = 6
    BY <1>2 DEF r
  <2>3. /\ a \in Seq(S) /\ Len(a) = Len(<< s[1] >>) + Len(r)
        /\ \A k \in 1..(Len(<< s[1] >>) + Len(r)) :
             a[k] = IF k <= Len(<< s[1] >>) THEN << s[1] >>[k] ELSE r[k - Len(<< s[1] >>)]
    BY <2>1, <2>2, ConcatProperties
  <2> DEFINE first == << s[1] >>
  <2> HIDE DEF first, a
  <2>4. Len(first) = 1 /\ Len(first) + Len(r) = 7
    BY <2>1, <2>2 DEF first
  <2>5. /\ a \in Seq(S) /\ Len(a) = Len(first) + Len(r)
        /\ \A k \in 1..(Len(first) + Len(r)) :
             a[k] = IF k <= Len(first) THEN first[k] ELSE r[k - Len(first)]
    BY <2>3 DEF first
  <2>6. a \in Seq(S) /\ Len(a) = 7 /\ \A k \in 1..7 : a[k] = IF k <= 1 THEN first[k] ELSE r[k - 1]
    BY <2>4, <2>5
  <2> QED BY <2>6 DEF first
<1> HIDE DEF a
<1>5. \A k \in 1..7 : a[k] = s[k]
  <2> TAKE k \in 1..7
  <2>1. CASE k = 1
    <3>1. << s[1] >>[1] = s[1]
      OBVIOUS
    <3> QED BY <1>4, <2>1, <3>1
  <2>2. CASE k # 1
    <3>1. k - 1 \in 1..6 /\ (k - 1) + 1 = k /\ ~(k <= 1)
      BY <2>2
    <3>2. \A j \in 1..6 : r[j] = s[j + 1]
      BY <1>2 DEF r
    <3>3. r[k - 1] = s[(k - 1) + 1]
      BY <3>1, <3>2
    <3> QED BY <1>4, <3>1, <3>3
  <2> QED BY <2>1, <2>2
<1>6. a = s
  BY <1>4, <1>5, SeqEqual
<1> QED BY <1>2, <1>6 DEF a, r

\* The century of an encodable date is a byte in BCD.
LEMMA CenturyBcd == \A n \in Int : 0 <= n /\ n < 160 => dec_to_bcd(n) \in Byte
<1> SUFFICES ASSUME NEW n \in Int, 0 <= n, n < 160 PROVE dec_to_bcd(n) \in Byte
  OBVIOUS
<1> DEFINE tens == n \div 10
           ones == n % 10
<1>1. tens \in Int /\ ones \in Int /\ n = tens * 10 + ones /\ 0 <= ones /\ ones < 10
  OBVIOUS
<1>2. 0 <= tens /\ tens < 16
  <2> HIDE DEF tens, ones
  <2> QED BY <1>1
<1>3. dec_to_bcd(n) = tens * 16 + ones
  BY DEF dec_to_bcd
<1> HIDE DEF tens, ones
<1>4. dec_to_bcd(n) \in Int /\ 0 <= dec_to_bcd(n) /\ dec_to_bcd(n) <= 255
  BY <1>1, <1>2, <1>3
<1> QED BY <1>4 DEF Byte

\* The day of the week is a byte.
LEMMA WeekdayIsByte ==
  ASSUME NEW date, date[1] \in Int, date[2] \in Int, date[3] \in Int
  PROVE  Weekday(date) \in Byte
<1> DEFINE late == date[2] >= 3
           year == date[1] + (IF late THEN 400 ELSE 399)
           month == IF late THEN date[2] - 3 ELSE date[2] + 9
           days == 365 * year + year \div 4 - year \div 100 + year \div 400
                     + (153 * month + 2) \div 5 + date[3] - 1
<1>1. year \in Int /\ month \in Int
  BY SMT
<1>2. days \in Int
  <2> HIDE DEF year, month
  <2> QED BY <1>1, SMT
<1>3. \A n \in Int : (n + 2) % 7 \in 0..255
  BY SMT
<1>4. Weekday(date) = (days + 2) % 7
  BY SMT DEF Weekday
<1> HIDE DEF days
<1> QED BY <1>2, <1>3, <1>4 DEF Byte

\* The bytes of a date are bytes.
LEMMA DateBytesType ==
  ASSUME NEW date, date[1] \in Nat, date[2] \in Nat, date[3] \in Nat, IsDate(date),
         Encodable(date), NEW hour \in Byte, NEW minute \in Byte, NEW second \in Byte
  PROVE  /\ DateBytes(date, hour, minute, second) \in Seq(Byte)
         /\ Len(DateBytes(date, hour, minute, second)) = 8
<1>1. date[2] \in 0..99 /\ date[3] \in 0..99 /\ date[1] % 100 \in 0..99
  <2>1. date[2] \in 1..31 /\ date[3] \in 1..31
    BY MonthAndDay
  <2> QED BY <2>1, Years
<1>2. /\ dec_to_bcd(date[1] % 100) \in Byte /\ dec_to_bcd(date[2]) \in Byte
      /\ dec_to_bcd(date[3]) \in Byte
  BY <1>1, Bcd
<1>3. Century(date) \in Int /\ 0 <= Century(date) /\ Century(date) < 160
  <2>1. \A y \in Nat : (y \div 100) % 256 \in Int /\ 0 <= (y \div 100) % 256
    BY SMT
  <2> QED BY <2>1, SMT DEF Century, Encodable
<1>4. dec_to_bcd(Century(date)) \in Byte
  BY <1>3, CenturyBcd
<1>5. Weekday(date) \in Byte
  BY WeekdayIsByte
<1> QED BY <1>2, <1>4, <1>5 DEF DateBytes

\* The bytes of a date-time are eight bytes.
LEMMA DateTimeType ==
  ASSUME NEW dt, IsDateTime(dt), Encodable(dt)
  PROVE  date_time_to_bytes(dt) \in Seq(Byte) /\ Len(date_time_to_bytes(dt)) = 8
<1>1. /\ dt[1] \in Nat /\ dt[2] \in Nat /\ dt[3] \in Nat /\ IsDate(dt)
      /\ IsTime(<< dt[4], dt[5], dt[6] >>)
  BY SixOf DEF IsDateTime
<1>2. dt[4] \in 0..99 /\ dt[5] \in 0..99 /\ dt[6] \in 0..99
  BY <1>1, Triple DEF IsTime
<1>3. dec_to_bcd(dt[4]) \in Byte /\ dec_to_bcd(dt[5]) \in Byte /\ dec_to_bcd(dt[6]) \in Byte
  BY <1>2, Bcd
<1> QED BY <1>1, <1>3, DateBytesType DEF date_time_to_bytes

\* Years of four digits.
LEMMA YearOfFourDigits == \A y \in Nat : y < 10000 => y \in FourDigits
  BY SMTT(30) DEF FourDigits

\* A sequence with elements is not empty.
LEMMA NotEmpty == \A s : Len(s) # 0 => s # << >>
<1>1. Len(<< >>) = 0
  OBVIOUS
<1> QED BY <1>1

\* A date-time with a year of four digits comes back.
LEMMA DateTimeBack ==
  ASSUME NEW dt, IsDateTime(dt), dt[1] \in FourDigits
  PROVE  date_time_from_bytes(date_time_to_bytes(dt)) = dt
<1>1. /\ dt[1] \in Nat /\ dt[2] \in Nat /\ dt[3] \in Nat /\ IsDate(dt)
      /\ IsTime(<< dt[4], dt[5], dt[6] >>)
      /\ dt = << dt[1], dt[2], dt[3], dt[4], dt[5], dt[6] >>
  BY SixOf DEF IsDateTime
<1> QED BY <1>1, DateTimeRoundTrip

\* So does a date.
LEMMA DateBack ==
  ASSUME NEW date \in Seq(Nat), Len(date) = 3, IsDate(date), date[1] \in FourDigits
  PROVE  date_from_bytes(date_to_bytes(date)) = date
<1>1. /\ date[1] \in Nat /\ date[2] \in Nat /\ date[3] \in Nat
      /\ date = << date[1], date[2], date[3] >>
  BY ThreeOf
<1> QED BY <1>1, DateRoundTrip

\* An entry without a time comes back.
LEMMA NoErrorBack ==
  /\ error_to_bytes(<< 0 >>) = << 0, 0, 0, 0, 0, 0, 0, 0, 0 >>
  /\ error_from_bytes(error_to_bytes(<< 0 >>)) = << 0 >>
<1> DEFINE zeros == << 0, 0, 0, 0, 0, 0, 0, 0 >>
           entry == << 0 >> \o zeros
<1>1. zeros \in Seq(Byte) /\ Len(zeros) = 8 /\ 0 \in Byte /\ zeros[3] = 0
  BY DEF Byte
<1>2. error_to_bytes(<< 0 >>) = entry
  BY DEF error_to_bytes
<1>3. entry = << 0, 0, 0, 0, 0, 0, 0, 0, 0 >>
  <2> DEFINE nine == << 0, 0, 0, 0, 0, 0, 0, 0, 0 >>
             first == << 0 >>
  <2>1. /\ first \in Seq(Byte) /\ Len(first) = 1 /\ \A k \in 1..1 : first[k] = 0
        /\ \A k \in 1..8 : zeros[k] = 0
    BY <1>1
  <2>2. nine \in Seq(Byte) /\ Len(nine) = 9 /\ \A k \in 1..9 : nine[k] = 0
    BY <1>1
  <2> HIDE DEF nine, first, zeros
  <2>3. /\ first \o zeros \in Seq(Byte) /\ Len(first \o zeros) = Len(first) + Len(zeros)
        /\ \A k \in 1..(Len(first) + Len(zeros)) :
             (first \o zeros)[k] = IF k <= Len(first) THEN first[k] ELSE zeros[k - Len(first)]
    BY <1>1, <2>1, ConcatProperties
  <2>4. Len(first) + Len(zeros) = 9
    BY <1>1, <2>1
  <2>5. ASSUME NEW k \in 1..9 PROVE (first \o zeros)[k] = 0
    <3>1. CASE k <= 1
      BY <2>1, <2>3, <2>4, <3>1
    <3>2. CASE ~(k <= 1)
      <4>1. k - 1 \in 1..8
        BY <3>2
      <4> QED BY <2>1, <2>3, <2>4, <3>2, <4>1
    <3> QED BY <3>1, <3>2
  <2>6. first \o zeros = nine
    BY <2>2, <2>3, <2>4, <2>5, SeqEqual
  <2> QED BY <2>6 DEF first, zeros, nine
<1>4. entry[1] = 0 /\ SubSeq(entry, 2, 9) = zeros
  <2> HIDE DEF zeros
  <2> QED BY <1>1, AfterFirst
<1>5. date_time_from_bytes(zeros) = << >>
  <2> DEFINE d == DateOf(zeros)
  <2>1. d[2] = bcd_to_dec(zeros[3])
    BY Triple DEF DateOf
  <2>2. bcd_to_dec(0) = 0
    BY DEF bcd_to_dec
  <2> HIDE DEF zeros, d
  <2>3. d[2] = 0
    BY <1>1, <2>1, <2>2
  <2>4. ~IsDate(d)
    BY <2>3, SMTT(30) DEF IsDate
  <2> QED BY <2>4 DEF date_time_from_bytes, d
<1> HIDE DEF entry, zeros
<1>6. error_from_bytes(entry) = << entry[1] >> \o << >>
  BY <1>4, <1>5 DEF error_from_bytes
<1>7. << 0 >> \o << >> = << 0 >>
  OBVIOUS
<1> QED BY <1>2, <1>3, <1>4, <1>6, <1>7

\* The bytes of an error entry are nine.
LEMMA ErrorType ==
  ASSUME NEW b \in Seq(Nat), Len(b) = 7, b[1] \in Byte, IsDateTime(Tail(b)), Encodable(Tail(b))
  PROVE  /\ error_to_bytes(b) = << b[1] >> \o date_time_to_bytes(Tail(b))
         /\ error_to_bytes(b) \in Seq(Byte) /\ Len(error_to_bytes(b)) = 9
<1>1. error_to_bytes(b) = << b[1] >> \o date_time_to_bytes(Tail(b))
  BY DEF error_to_bytes
<1>2. date_time_to_bytes(Tail(b)) \in Seq(Byte) /\ Len(date_time_to_bytes(Tail(b))) = 8
  BY DateTimeType
<1> DEFINE s == date_time_to_bytes(Tail(b))
<1> HIDE DEF s
<1>3. << b[1] >> \o s \in Seq(Byte) /\ Len(<< b[1] >> \o s) = 9
  <2>1. s \in Seq(Byte) /\ Len(s) = 8
    BY <1>2 DEF s
  <2>2. << b[1] >> \o s \in Seq(Byte) /\ Len(<< b[1] >> \o s) = Len(s) + 1
    <3> DEFINE x == b[1]
    <3>1. x \in Byte
      OBVIOUS
    <3> HIDE DEF x
    <3>2. << x >> \o s \in Seq(Byte)
      BY <2>1, <3>1, AfterFirst
    <3>3. Len(<< x >> \o s) = 9
      BY <2>1, <3>1, AfterFirst
    <3> QED BY <3>2, <3>3 DEF x
  <2> QED BY <2>1, <2>2
<1> QED BY <1>1, <1>3 DEF s

\* An entry with a time comes back.
LEMMA ErrorBack ==
  ASSUME NEW b \in Seq(Nat), Len(b) = 7, b[1] \in Byte, IsDateTime(Tail(b)), Encodable(Tail(b)),
         b[2] \in FourDigits
  PROVE  error_from_bytes(error_to_bytes(b)) = b
<1> DEFINE r == Tail(b)
           s == date_time_to_bytes(r)
           x == b[1]
           bytes == << x >> \o s
<1>1. b = << x >> \o r /\ r[1] = b[2]
  <2>1. b = << b[1] >> \o Tail(b)
    BY FirstAndRest
  <2>2. Tail(b)[1] = b[2]
    BY FirstAndRest
  <2> QED BY <2>1, <2>2
<1>2. error_to_bytes(b) = bytes
  BY DEF error_to_bytes
<1>3. x \in Byte /\ IsDateTime(r) /\ Encodable(r)
  OBVIOUS
<1>4. r[1] \in FourDigits
  <2> HIDE DEF r
  <2> QED BY <1>1
<1> HIDE DEF r, x
<1>5. s \in Seq(Byte) /\ Len(s) = 8
  BY <1>3, DateTimeType
<1>6. date_time_from_bytes(s) = r
  BY <1>3, <1>4, DateTimeBack
<1> HIDE DEF s
<1>7. bytes[1] = x /\ SubSeq(bytes, 2, 9) = s
  BY <1>3, <1>5, AfterFirst
<1>8. Len(r) # 0
  BY <1>3 DEF IsDateTime
<1>9. r # << >>
  BY <1>8, NotEmpty
<1> HIDE DEF bytes
<1>10. error_from_bytes(bytes) = << bytes[1] >> \o date_time_from_bytes(SubSeq(bytes, 2, 9))
  <2>1. date_time_from_bytes(SubSeq(bytes, 2, 9)) # << >>
    BY <1>6, <1>7, <1>9
  <2> QED BY <2>1 DEF error_from_bytes
<1>11. error_from_bytes(bytes) = << x >> \o r
  BY <1>6, <1>7, <1>10
<1> QED BY <1>1, <1>2, <1>11

\* A text without a zero is not cut.
LEMMA Uncut ==
  ASSUME NEW b, \A i \in 1..Len(b) : b[i] # 0
  PROVE  Terminated(b) = b
<1>1. {i \in 1..Len(b) : b[i] = 0} = {}
  OBVIOUS
<1> QED BY <1>1 DEF Terminated

\* Only numbers are converted back.
LEMMA PreparedOther ==
  ASSUME NEW c, NEW v, v.t \notin {"Int", "Double"}, Parsed(c, v) = v,
         ~Panics(c, v), Matches(c, Prepared(c, v))
  PROVE  /\ c.conversion.kind = "none" /\ Prepared(c, v) = v /\ c.data_type = v.t
         /\ v.t \in {"Date", "DateTime", "Error", "CircuitTimes", "ByteArray", "String"}
         /\ v.t \in {"Date", "DateTime"} => Encodable(v.b)
         /\ v.t = "Error" /\ Len(v.b) > 1 => Encodable(Tail(v.b))
<1>1. c.conversion.kind = "none"
  <2> SUFFICES ASSUME c.conversion.kind # "none" PROVE FALSE
    OBVIOUS
  <2>1. convert_back(v, c.conversion) = Err
    BY DEF convert_back
  <2>2. Err.t = "Err"
    BY Fields DEF Err
  <2>3. Prepared(c, v) = Err
    BY <2>1, <2>2, NoText DEF Prepared
  <2> QED BY <2>3 DEF Panics
<1>2. Prepared(c, v) = v
  BY <1>1 DEF Prepared
<1>3. Matches(c, v)
  BY <1>2
<1>4. /\ v.t \in {"Date", "DateTime"} => Encodable(v.b)
      /\ v.t = "Error" /\ Len(v.b) > 1 => Encodable(Tail(v.b))
  BY <1>2, <1>3 DEF Panics
<1> QED BY <1>1, <1>2, <1>3, <1>4 DEF Matches

\* The types of the fields of values that are not numbers.
LEMMA OtherValue ==
  ASSUME NEW v, ValidValue(v), v.t \notin {"Int", "Double"}
  PROVE  /\ v = Value(v.t, 0, v.b)
         /\ v.t \in {"ByteArray", "String"} => v.b \in Seq(Byte)
         /\ v.t = "Date" => v.b \in Seq(Nat) /\ Len(v.b) = 3 /\ IsDate(v.b)
         /\ v.t = "DateTime" => IsDateTime(v.b)
         /\ v.t = "Error" =>
              \/ v.b = << 0 >>
              \/ v.b \in Seq(Nat) /\ Len(v.b) = 7 /\ v.b[1] \in Byte /\ IsDateTime(Tail(v.b))
         /\ v.t = "CircuitTimes" =>
              /\ v.b \in Seq({None} \cup Minutes) /\ Len(v.b) = 56
              /\ \A i \in 1..28 : v.b[2 * i - 1] = None <=> v.b[2 * i] = None
<1>1. v.n = 0 /\ v = Value(v.t, v.n, v.b)
  BY DEF ValidValue
<1>2. v = Value(v.t, 0, v.b)
  BY <1>1
<1> QED BY <1>2 DEF ValidValue

\* What makes them representable.
LEMMA RepresentableOther ==
  ASSUME NEW c, NEW v, Representable(c, v)
  PROVE  /\ v.t = "CircuitTimes" => \A i \in 1..Len(v.b) : v.b[i] = None \/ v.b[i] % 10 = 0
         /\ v.t \in {"ByteArray", "String"} => Len(v.b) = c.byte_len
         /\ v.t = "String" => \A i \in 1..Len(v.b) : v.b[i] # 0 /\ v.b[i] < 128
<1>1. v.t = "CircuitTimes" => \A i \in 1..Len(v.b) : v.b[i] = None \/ v.b[i] % 10 = 0
  BY DEF Representable
<1>2. v.t \in {"ByteArray", "String"} => Len(v.b) = c.byte_len
  BY DEF Representable
<1>3. v.t = "String" => \A i \in 1..Len(v.b) : v.b[i] \in 1..127
  BY DEF Representable
<1>4. \A k \in 1..127 : k # 0 /\ k < 128
  BY SMT
<1>5. v.t = "String" => \A i \in 1..Len(v.b) : v.b[i] # 0 /\ v.b[i] < 128
  BY <1>3, <1>4
<1> QED BY <1>1, <1>2, <1>5

\* What set writes of a date, a text and so on, and that get reads it as it was.
LEMMA OthersBack ==
  ASSUME NEW c \in Commands, Faithful(c), NEW v, ValidValue(v), v.t \notin {"Int", "Double"},
         Parsed(c, v) = v, ~Panics(c, v), Matches(c, Prepared(c, v)), Representable(c, v)
  PROVE  /\ Unconverted(c, Bytes(c, v)) = v
         /\ Len(Bytes(c, v)) = c.byte_len
<1> DEFINE b == v.b
<1>1. /\ c.conversion.kind = "none" /\ Prepared(c, v) = v /\ c.data_type = v.t
      /\ v.t \in {"Date", "DateTime", "Error", "CircuitTimes", "ByteArray", "String"}
  BY PreparedOther
<1>2. v = Value(v.t, 0, b)
  BY OtherValue
<1>3. v.t \in {"Date", "DateTime", "Error", "CircuitTimes"} => c.byte_len = FixedLength[v.t]
  BY <1>1 DEF Faithful
<1>4. CASE v.t = "Date"
  <2> DEFINE bytes == date_to_bytes(b)
  <2>1. b \in Seq(Nat) /\ Len(b) = 3 /\ IsDate(b)
    BY <1>4, OtherValue
  <2>2. b[1] \in Nat
    BY <2>1, ThreeOf
  <2>3. b[1] \in FourDigits
    BY <1>4, <2>2, YearOfFourDigits DEF Representable
  <2>4. date_from_bytes(bytes) = b
    BY <2>1, <2>3, DateBack
  <2>5. Len(bytes) = 8
    BY BytesOfDate DEF date_to_bytes
  <2>6. Bytes(c, v) = bytes
    BY <1>4 DEF Bytes
  <2>7. b # << >>
    <3> HIDE DEF b
    <3>1. Len(b) # 0
      BY <2>1
    <3> QED BY <3>1, NotEmpty
  <2>8. FixedLength["Date"] = 8 /\ "Date" \in DOMAIN FixedLength
    BY DEF FixedLength
  <2> HIDE DEF bytes, b
  <2>9. Structured(c, bytes) = Value("Date", 0, b)
    BY <1>1, <1>4, <2>4, <2>5, <2>7, <2>8 DEF Structured
  <2>10. Unconverted(c, bytes) = Structured(c, bytes)
    BY <1>1, <1>4, <2>8 DEF Unconverted
  <2> QED BY <1>2, <1>3, <1>4, <2>5, <2>6, <2>8, <2>9, <2>10
<1>5. CASE v.t = "DateTime"
  <2> DEFINE bytes == date_time_to_bytes(b)
  <2>1. IsDateTime(b)
    BY <1>5, OtherValue
  <2>2. b[1] \in Nat /\ Len(b) = 6
    BY <2>1, SixOf DEF IsDateTime
  <2>3. b[1] \in FourDigits
    BY <1>5, <2>2, YearOfFourDigits DEF Representable
  <2>4. date_time_from_bytes(bytes) = b
    BY <2>1, <2>3, DateTimeBack
  <2>5. Len(bytes) = 8
    BY BytesOfDate DEF date_time_to_bytes
  <2>6. Bytes(c, v) = bytes
    BY <1>5 DEF Bytes
  <2>7. b # << >>
    <3> HIDE DEF b
    <3>1. Len(b) # 0
      BY <2>2
    <3> QED BY <3>1, NotEmpty
  <2>8. FixedLength["DateTime"] = 8 /\ "DateTime" \in DOMAIN FixedLength
    BY DEF FixedLength
  <2> HIDE DEF bytes, b
  <2>9. Structured(c, bytes) = Value("DateTime", 0, b)
    BY <1>1, <1>5, <2>4, <2>5, <2>7, <2>8 DEF Structured
  <2>10. Unconverted(c, bytes) = Structured(c, bytes)
    BY <1>1, <1>5, <2>8 DEF Unconverted
  <2> QED BY <1>2, <1>3, <1>5, <2>5, <2>6, <2>8, <2>9, <2>10
<1>6. CASE v.t = "Error"
  <2> DEFINE bytes == error_to_bytes(b)
  <2>1. Bytes(c, v) = bytes
    BY <1>6 DEF Bytes
  <2>2. FixedLength["Error"] = 9 /\ "Error" \in DOMAIN FixedLength
    BY DEF FixedLength
  <2>3. error_from_bytes(bytes) = b /\ Len(bytes) = 9 /\ b # << >>
    <3>1. CASE b = << 0 >>
      <4>1. Len(<< 0, 0, 0, 0, 0, 0, 0, 0, 0 >>) = 9 /\ Len(<< 0 >>) = 1
        OBVIOUS
      <4>2. error_from_bytes(bytes) = b /\ Len(bytes) = 9
        <5> HIDE DEF b
        <5> QED BY <3>1, <4>1, NoErrorBack
      <4> QED BY <3>1, <4>1, <4>2, NotEmpty
    <3>2. CASE b # << 0 >>
      <4>1. b \in Seq(Nat) /\ Len(b) = 7 /\ b[1] \in Byte /\ IsDateTime(Tail(b))
        BY <1>6, <3>2, OtherValue
      <4>2. Encodable(Tail(b))
        <5>1. Len(b) > 1
          BY <4>1
        <5>2. b = v.b /\ v.t = "Error"
          BY <1>6
        <5> HIDE DEF b
        <5> QED BY <5>1, <5>2, PreparedOther
      <4>3. b[2] \in FourDigits
        <5>1. 2 \in 1..Len(b)
          BY <4>1
        <5>2. b[2] \in Nat
          <6> HIDE DEF b
          <6> QED BY <4>1, <5>1, ElementOfSeq
        <5>3. b[2] < 10000
          BY <1>6, <4>1 DEF Representable
        <5> QED BY <5>2, <5>3, YearOfFourDigits
      <4> HIDE DEF b
      <4>4. error_from_bytes(bytes) = b
        BY <4>1, <4>2, <4>3, ErrorBack
      <4>5. Len(bytes) = 9
        BY <4>1, <4>2, ErrorType
      <4>6. Len(b) # 0
        BY <4>1
      <4>7. b # << >>
        BY <4>6, NotEmpty
      <4> QED BY <4>4, <4>5, <4>7
    <3> QED BY <3>1, <3>2
  <2> HIDE DEF bytes, b
  <2>4. Structured(c, bytes) = Value("Error", 0, b)
    BY <1>1, <1>6, <2>2, <2>3 DEF Structured
  <2>5. Unconverted(c, bytes) = Structured(c, bytes)
    BY <1>1, <1>6, <2>2 DEF Unconverted
  <2> QED BY <1>2, <1>3, <1>6, <2>1, <2>2, <2>3, <2>4, <2>5
<1>7. CASE v.t = "CircuitTimes"
  <2> DEFINE bytes == circuit_times_to_bytes(b)
  <2>1. /\ b \in Seq({None} \cup Minutes) /\ Len(b) = 56
        /\ \A i \in 1..28 : b[2 * i - 1] = None <=> b[2 * i] = None
    BY <1>7, OtherValue
  <2>2. \A i \in 1..56 : b[i] = None \/ b[i] % 10 = 0
    <3>1. \A i \in 1..Len(b) : b[i] = None \/ b[i] % 10 = 0
      BY <1>7, RepresentableOther
    <3> HIDE DEF b
    <3> QED BY <2>1, <3>1
  <2>3. Bytes(c, v) = bytes
    BY <1>7 DEF Bytes
  <2>4. FixedLength["CircuitTimes"] = 56 /\ "CircuitTimes" \in DOMAIN FixedLength
    BY DEF FixedLength
  <2> HIDE DEF b
  <2>5. /\ circuit_times_from_bytes(bytes) = b /\ Len(bytes) = 56
        /\ \A i \in 1..56 : IsTimeByte(bytes[i])
    BY <2>1, <2>2, SpansBack
  <2>6. b # << >>
    <3> HIDE DEF b
    <3>1. Len(b) # 0
      BY <2>1
    <3> QED BY <3>1, NotEmpty
  <2> HIDE DEF bytes
  <2>7. Structured(c, bytes) = Value("CircuitTimes", 0, b)
    BY <1>1, <1>7, <2>4, <2>5, <2>6 DEF Structured
  <2>8. Unconverted(c, bytes) = Structured(c, bytes)
    BY <1>1, <1>7, <2>4 DEF Unconverted
  <2> QED BY <1>2, <1>3, <1>7, <2>3, <2>4, <2>5, <2>7, <2>8
<1>8. CASE v.t \in {"ByteArray", "String"}
  <2>1. Bytes(c, v) = b /\ Len(b) = c.byte_len
    BY <1>8, RepresentableOther DEF Bytes
  <2>2. c.data_type \notin DOMAIN FixedLength
    BY <1>1, <1>8 DEF FixedLength
  <2>3. CASE v.t = "ByteArray"
    <3>1. Unconverted(c, b) = Value("ByteArray", 0, b)
      BY <1>1, <2>2, <2>3 DEF Unconverted
    <3> QED BY <1>2, <2>1, <2>3, <3>1
  <2>4. CASE v.t = "String"
    <3>1. \A i \in 1..Len(b) : b[i] # 0 /\ b[i] < 128
      BY <2>4, RepresentableOther
    <3>2. Terminated(b) = b
      BY <3>1, Uncut
    <3>3. IsUtf8(b)
      BY <3>1 DEF IsUtf8
    <3> HIDE DEF b
    <3>4. Unconverted(c, b) = Value("String", 0, b)
      BY <1>1, <2>2, <2>4, <3>2, <3>3 DEF Unconverted
    <3> QED BY <1>2, <2>1, <2>4, <3>4
  <2> QED BY <1>8, <2>3, <2>4
<1> QED BY <1>1, <1>4, <1>5, <1>6, <1>7, <1>8

-----------------------------------------------------------------------------
(* What set writes *)

\* A truncated number is whole, and so is a saturated one.
LEMMA WholeNumbers ==
  ASSUME NEW n \in Int, NEW p
  PROVE  Truncated(n) \in Int /\ Saturated(n, p) \in Int
<1>1. Truncated(n) \in Int
  BY DEF Truncated, Scale
<1>2. Top(p) \in Int
  BY SMT DEF Top
<1>3. Least(p) \in Int
  BY <1>2 DEF Least
<1>4. Saturated(n, p) \in Int
  BY <1>2, <1>3 DEF Saturated
<1> QED BY <1>1, <1>4

\* The byte of a time of day.
LEMMA TimeByte == \A time \in Minutes : time_to_byte(time) \in Byte
<1> TAKE time \in Minutes
<1> DEFINE h == time \div 60
           r == time % 60
           m == r \div 10
<1>1. time \in Int /\ 0 <= time /\ time < 1500
  BY SMT DEF Minutes
<1>2. h \in Int /\ r \in Int /\ time = h * 60 + r /\ 0 <= r /\ r < 60
  BY <1>1, SMT
<1>3. 0 <= h /\ h <= 24
  <2> HIDE DEF h, r
  <2> QED BY <1>1, <1>2, SMT
<1>4. m \in Int /\ 0 <= m /\ m <= 5
  <2> HIDE DEF h, r
  <2> QED BY <1>2, SMT
<1>5. time_to_byte(time) = h * 8 + m
  BY SMT DEF time_to_byte
<1> HIDE DEF h, r, m
<1> QED BY <1>2, <1>3, <1>4, <1>5, SMT DEF Byte

\* What is written are bytes, for a number as many as its type has.
LEMMA BytesType ==
  ASSUME NEW c \in Commands, NEW v, ValidValue(v), Parsed(c, v) = v,
         ~Panics(c, v), Matches(c, Prepared(c, v))
  PROVE  /\ Bytes(c, Prepared(c, v)) \in Seq(Byte)
         /\ v.t \in {"Int", "Double"} =>
              /\ c.data_type \in {"Int", "Byte", "Double"}
              /\ Len(Bytes(c, Prepared(c, v))) = Width(c.parameter)
         /\ v.t \notin {"Int", "Double"} =>
              Len(Bytes(c, Prepared(c, v))) =
                IF v.t \in {"ByteArray", "String"} THEN Len(v.b) ELSE FixedLength[c.data_type]
<1> DEFINE raw == Prepared(c, v)
           b == v.b
<1>1. CASE v.t \in {"Int", "Double"}
  <2>1. c.conversion.kind # "none" => raw # Err
    BY DEF Panics
  <2>2. raw.t \in {"Int", "Double"} /\ raw.n \in Int
    BY <1>1, <2>1, PreparedType
  <2>3. Matches(c, raw)
    OBVIOUS
  <2> HIDE DEF raw
  <2>4. c.data_type \in {"Int", "Byte", "Double"}
    BY <2>2, <2>3 DEF Matches
  <2>5. PICK n \in Int : Bytes(c, raw) = Encode(n, c.parameter)
    <3>1. CASE raw.t = "Int"
      BY <2>2, <3>1 DEF Bytes
    <3>2. CASE raw.t = "Double"
      <4> DEFINE n == Saturated(Truncated(raw.n), c.parameter)
      <4>1. n \in Int
        BY <2>2, WholeNumbers
      <4>2. Bytes(c, raw) = Encode(n, c.parameter)
        BY <3>2 DEF Bytes
      <4> HIDE DEF n
      <4> QED BY <4>1, <4>2
    <3> QED BY <2>2, <3>1, <3>2
  <2> QED BY <1>1, <2>4, <2>5, EncodedBytes DEF raw
<1>2. CASE v.t \notin {"Int", "Double"}
  <2>1. /\ c.conversion.kind = "none" /\ raw = v /\ c.data_type = v.t
        /\ v.t \in {"Date", "DateTime", "Error", "CircuitTimes", "ByteArray", "String"}
    BY <1>2, PreparedOther
  <2>2. Matches(c, Prepared(c, v))
    OBVIOUS
  <2> HIDE DEF raw
  <2>3. CASE v.t = "Date"
    <3>1. b \in Seq(Nat) /\ Len(b) = 3 /\ IsDate(b)
      BY <1>2, <2>3, OtherValue
    <3>2. Encodable(b)
      BY <2>3, PreparedOther
    <3>3. Bytes(c, v) = date_to_bytes(b)
      BY <2>3 DEF Bytes
    <3>4. FixedLength["Date"] = 8
      BY DEF FixedLength
    <3> HIDE DEF b
    <3>5. b[1] \in Nat /\ b[2] \in Nat /\ b[3] \in Nat
      BY <3>1, ThreeOf
    <3>6. 0 \in Byte
      BY DEF Byte
    <3>7. date_to_bytes(b) \in Seq(Byte) /\ Len(date_to_bytes(b)) = 8
      BY <3>1, <3>2, <3>5, <3>6, DateBytesType DEF date_to_bytes
    <3> QED BY <1>2, <2>1, <2>3, <3>3, <3>4, <3>7 DEF raw
  <2>4. CASE v.t = "DateTime"
    <3>1. IsDateTime(b)
      BY <1>2, <2>4, OtherValue
    <3>2. Encodable(b)
      BY <2>4, PreparedOther
    <3>3. Bytes(c, v) = date_time_to_bytes(b)
      BY <2>4 DEF Bytes
    <3>4. FixedLength["DateTime"] = 8
      BY DEF FixedLength
    <3> HIDE DEF b
    <3>5. date_time_to_bytes(b) \in Seq(Byte) /\ Len(date_time_to_bytes(b)) = 8
      BY <3>1, <3>2, DateTimeType
    <3> QED BY <1>2, <2>1, <2>4, <3>3, <3>4, <3>5 DEF raw
  <2>5. CASE v.t = "Error"
    <3>1. Bytes(c, v) = error_to_bytes(b)
      BY <2>5 DEF Bytes
    <3>2. FixedLength["Error"] = 9
      BY DEF FixedLength
    <3>3. error_to_bytes(b) \in Seq(Byte) /\ Len(error_to_bytes(b)) = 9
      <4>1. CASE b = << 0 >>
        <5> DEFINE nine == << 0, 0, 0, 0, 0, 0, 0, 0, 0 >>
        <5>1. nine \in Seq(Byte) /\ Len(nine) = 9
          BY DEF Byte
        <5> HIDE DEF nine
        <5>2. error_to_bytes(<< 0 >>) = nine
          BY NoErrorBack DEF nine
        <5> QED BY <4>1, <5>1, <5>2
      <4>2. CASE b # << 0 >>
        <5>1. b \in Seq(Nat) /\ Len(b) = 7 /\ b[1] \in Byte /\ IsDateTime(Tail(b))
          BY <1>2, <2>5, <4>2, OtherValue
        <5>2. Encodable(Tail(b))
          <6>1. Len(b) > 1
            BY <5>1
          <6>2. b = v.b
            OBVIOUS
          <6> HIDE DEF b
          <6> QED BY <2>5, <6>1, <6>2, PreparedOther
        <5> HIDE DEF b
        <5> QED BY <5>1, <5>2, ErrorType
      <4> QED BY <4>1, <4>2
    <3> HIDE DEF b
    <3> QED BY <1>2, <2>1, <2>5, <3>1, <3>2, <3>3 DEF raw
  <2>6. CASE v.t = "CircuitTimes"
    <3>1. b \in Seq({None} \cup Minutes) /\ Len(b) = 56
      BY <1>2, <2>6, OtherValue
    <3>2. Bytes(c, v) = circuit_times_to_bytes(b)
      BY <2>6 DEF Bytes
    <3>3. FixedLength["CircuitTimes"] = 56
      BY DEF FixedLength
    <3> HIDE DEF b
    <3>4. \A i \in 1..56 : b[i] \in {None} \cup Minutes
      BY <3>1, ElementOfSeq, Zenon
    <3>5. Unused \in Byte
      BY SMT DEF Unused, Byte
    <3>6. \A i \in 1..56 : (IF b[i] = None THEN Unused ELSE time_to_byte(b[i])) \in Byte
      BY <3>4, <3>5, TimeByte
    <3>7. circuit_times_to_bytes(b) = [i \in 1..56 |-> IF b[i] = None THEN Unused ELSE time_to_byte(b[i])]
      BY <3>1 DEF circuit_times_to_bytes
    <3>8. circuit_times_to_bytes(b) \in Seq(Byte) /\ Len(circuit_times_to_bytes(b)) = 56
      BY <3>6, <3>7
    <3> QED BY <1>2, <2>1, <2>6, <3>2, <3>3, <3>8 DEF raw
  <2>7. CASE v.t \in {"ByteArray", "String"}
    <3>1. b \in Seq(Byte)
      BY <1>2, <2>7, OtherValue
    <3>2. Bytes(c, v) = b
      BY <2>7 DEF Bytes
    <3> QED BY <1>2, <2>1, <2>7, <3>1, <3>2 DEF raw
  <2> QED BY <2>1, <2>3, <2>4, <2>5, <2>6, <2>7
<1> QED BY <1>1, <1>2

-----------------------------------------------------------------------------
(* What get returns *)

\* A byte is a number.
LEMMA ByteIsNat == \A b \in Byte : b \in Nat /\ b <= 255
  BY DEF Byte

\* A signed number is whole.
LEMMA SignedIsInt == ASSUME NEW n \in Int, NEW w \in {1, 2} PROVE AsSigned(n, w) \in Int
<1>1. Weight[w + 1] \in {256, 65536}
  BY Weights, SMT
<1>2. n % Weight[w + 1] \in Int
  BY <1>1, SMT
<1> QED BY <1>1, <1>2, SMT DEF AsSigned

\* The number of some bytes is whole.
LEMMA NumberIsInt == ASSUME NEW c, NEW bytes \in Seq(Byte) PROVE Number(c, bytes) \in Int
<1> DEFINE high == HighByteFirst(c.parameter)
           len == Len(bytes)
           k == IF len < 4 THEN len ELSE 4
           place(i) == IF high THEN k + 1 - i ELSE len - k + i
           digit(i) == IF i > k THEN 0 ELSE bytes[place(i)]
<1>1. len \in Nat
  OBVIOUS
<1>2. ASSUME NEW i \in 1..4 PROVE digit(i) \in Int
  <2>1. CASE i > k
    <3> HIDE DEF k, place
    <3> QED BY <2>1
  <2>2. CASE ~(i > k)
    <3>1. place(i) \in 1..len
      <4> HIDE DEF len, high
      <4> QED BY <1>1, <2>2
    <3>2. bytes[place(i)] \in Byte
      <4> HIDE DEF place
      <4> QED BY <3>1, ElementOfSeq
    <3> HIDE DEF place, k
    <3> QED BY <2>2, <3>2, ByteIsNat
  <2> QED BY <2>1, <2>2
<1>3. Number(c, bytes) = digit(1) + digit(2) * Weight[2] + digit(3) * Weight[3]
                           + AsSigned(digit(4), 1) * Weight[4]
  BY DEF Number
<1> HIDE DEF digit
<1>4. digit(1) \in Int /\ digit(2) \in Int /\ digit(3) \in Int /\ digit(4) \in Int
  BY <1>2
<1>5. AsSigned(digit(4), 1) \in Int
  BY <1>4, SignedIsInt
<1> QED BY <1>3, <1>4, <1>5, Weights, SMT

\* A bit of a byte.
LEMMA BitOf ==
  ASSUME NEW b \in Byte, NEW k \in 1..8
  PROVE  (b \div BitWeight[k]) % 2 \in Nat
<1>1. BitWeight[k] \in {1, 2, 4, 8, 16, 32, 64, 128}
  BY SMT DEF BitWeight
<1>2. b \div BitWeight[k] \in Nat
  BY <1>1, ByteIsNat, SMT
<1> QED BY <1>2, SMT

\* So is that of some bits, which are in the bytes.
LEMMA BitsAreNat ==
  ASSUME NEW c \in Commands, NEW bytes \in Seq(Byte), HasBits(c, bytes)
  PROVE  Bits(c, bytes) \in Nat
<1> DEFINE N == c.bit_len
           first == c.bit_pos - 8 * c.byte_pos
           bit(i) == (bytes[((first + i - 1) \div 8) + 1]
                        \div BitWeight[((first + i - 1) % 8) + 1]) % 2
           Step(f) == [i \in 0..N |-> IF i = 0 THEN 0 ELSE 2 * f[i - 1] + bit(i)]
           step == [p \in (1..N) \X Nat |-> 2 * p[2] + bit(p[1])]
           n == CHOOSE f : f = Step(f)
<1>1. N \in Nat /\ first \in Nat /\ first + N <= 8 * Len(bytes)
  BY CommandType DEF HasBits
<1>2. ASSUME NEW i \in 1..N PROVE bit(i) \in Nat
  <2> DEFINE pos == first + i - 1
             byte == (pos \div 8) + 1
             k == (pos % 8) + 1
  <2>1. pos \in Nat /\ pos < 8 * Len(bytes)
    <3> HIDE DEF N, first
    <3> QED BY <1>1
  <2>2. byte \in 1..Len(bytes) /\ k \in 1..8
    <3>1. Len(bytes) \in Nat
      OBVIOUS
    <3> HIDE DEF pos
    <3> QED BY <2>1, <3>1
  <2> HIDE DEF byte, k
  <2>3. bytes[byte] \in Byte
    BY <2>2, ElementOfSeq
  <2>4. (bytes[byte] \div BitWeight[k]) % 2 \in Nat
    BY <2>2, <2>3, BitOf
  <2> QED BY <2>4 DEF byte, k
<1> HIDE DEF bit, N
<1>3. step \in [(1..N) \X Nat -> Nat]
  BY <1>2
<1>4. PICK f \in [0..N -> Nat] :
        f[0] = 0 /\ \A i \in 1..N : f[i] = step[<< i, f[i - 1] >>]
  <2> DEFINE S == Nat
             base == 0
  <2>1. N \in Nat /\ base \in S /\ step \in [(1..N) \X S -> S]
    BY <1>1, <1>3
  <2> HIDE DEF S, base, step
  <2>2. \E f \in [0..N -> S] : Follows(f, N, base, step)
    BY <2>1, Recursion
  <2> QED BY <2>2 DEF S, base, Follows
<1>5. f = Step(f)
  <2>2. ASSUME NEW i \in 0..N PROVE f[i] = IF i = 0 THEN 0 ELSE 2 * f[i - 1] + bit(i)
    <3>1. CASE i = 0
      <4> HIDE DEF step
      <4> QED BY <1>4, <3>1
    <3>2. CASE i # 0
      <4>1. i \in 1..N /\ i - 1 \in 0..N
        BY <1>1, <3>2
      <4>2. f[i - 1] \in Nat
        BY <4>1
      <4>3. step[<< i, f[i - 1] >>] = 2 * f[i - 1] + bit(i)
        BY <4>1, <4>2
      <4> HIDE DEF step
      <4> QED BY <1>4, <3>2, <4>1, <4>3
    <3> QED BY <3>1, <3>2
  <2>3. f = [i \in 0..N |-> f[i]]
    OBVIOUS
  <2> QED BY <2>2, <2>3
<1>6. n = Step(n)
  BY <1>5
<1>7. \A i \in 0..N : n[i] = IF i = 0 THEN 0 ELSE 2 * n[i - 1] + bit(i)
  <2> DEFINE g == Step(n)
  <2>1. \A i \in 0..N : g[i] = IF i = 0 THEN 0 ELSE 2 * n[i - 1] + bit(i)
    <3> HIDE DEF n
    <3> QED OBVIOUS
  <2>2. n = g
    BY <1>6
  <2> HIDE DEF g, n
  <2> QED BY <2>1, <2>2
<1>8. Bits(c, bytes) = n[N]
  BY DEF Bits, bit, N
<1> HIDE DEF n, step
<1>9. N \in {i \in Nat : i <= N => n[i] \in Nat}
  <2> DEFINE T == {i \in Nat : i <= N => n[i] \in Nat}
  <2>1. 0 \in T
    BY <1>1, <1>7
  <2>2. ASSUME NEW i \in Nat, i \in T PROVE i + 1 \in T
    <3> SUFFICES ASSUME i + 1 <= N PROVE n[i + 1] \in Nat
      OBVIOUS
    <3>1. n[i] \in Nat /\ i + 1 \in 0..N /\ i + 1 \in 1..N /\ i + 1 # 0 /\ (i + 1) - 1 = i
      BY <1>1, <2>2
    <3>2. n[i + 1] = 2 * n[i] + bit(i + 1)
      BY <1>7, <3>1
    <3> QED BY <1>2, <3>1, <3>2
  <2> HIDE DEF T
  <2>3. N \in T
    BY <1>1, <2>1, <2>2, Induction
  <2> QED BY <2>3 DEF T
<1> QED BY <1>1, <1>8, <1>9

\* What is left without the characters '0' are bytes.
LEMMA WithoutZerosType ==
  ASSUME NEW bytes \in Seq(Byte)
  PROVE  WithoutZeros(bytes) \in Seq(Byte)
<1> DEFINE N == Len(bytes)
           Kept(f) == [i \in 0..N |->
                         IF i = 0 THEN << >>
                         ELSE IF bytes[i] = 48 THEN f[i - 1] ELSE Append(f[i - 1], bytes[i])]
           S == Seq(Byte)
           base == << >>
           step == [p \in (1..N) \X S |-> IF bytes[p[1]] = 48 THEN p[2] ELSE Append(p[2], bytes[p[1]])]
           kept == CHOOSE f : f = Kept(f)
<1>1. N \in Nat /\ base \in S
  OBVIOUS
<1>2. \A i \in 1..N : bytes[i] \in Byte
  BY ElementOfSeq
<1>3. \A s \in S, b \in Byte : Append(s, b) \in S
  OBVIOUS
<1> HIDE DEF N, S, base
<1>4. step \in [(1..N) \X S -> S]
  BY <1>2, <1>3
<1>5. PICK f \in [0..N -> S] : Follows(f, N, base, step)
  <2> HIDE DEF step
  <2> QED BY <1>1, <1>4, Recursion
<1>6. f = Kept(f)
  <2>1. ASSUME NEW i \in 0..N
        PROVE  f[i] = IF i = 0 THEN << >>
                      ELSE IF bytes[i] = 48 THEN f[i - 1] ELSE Append(f[i - 1], bytes[i])
    <3>1. CASE i = 0
      <4> HIDE DEF step
      <4> QED BY <1>5, <3>1 DEF Follows, base
    <3>2. CASE i # 0
      <4>1. i \in 1..N /\ i - 1 \in 0..N
        BY <1>1, <3>2
      <4>2. f[i - 1] \in S
        BY <4>1
      <4>3. step[<< i, f[i - 1] >>]
              = IF bytes[i] = 48 THEN f[i - 1] ELSE Append(f[i - 1], bytes[i])
        BY <4>1, <4>2
      <4> HIDE DEF step
      <4>4. f[i] = step[<< i, f[i - 1] >>]
        BY <1>5, <4>1 DEF Follows
      <4> QED BY <3>2, <4>3, <4>4
    <3> QED BY <3>1, <3>2
  <2>2. f = [i \in 0..N |-> f[i]]
    OBVIOUS
  <2> QED BY <2>1, <2>2
<1>7. kept = Kept(kept)
  <2> HIDE DEF Kept
  <2> QED BY <1>6
<1>8. \A i \in 0..N :
        kept[i] = IF i = 0 THEN << >>
                  ELSE IF bytes[i] = 48 THEN kept[i - 1] ELSE Append(kept[i - 1], bytes[i])
  <2> DEFINE g == Kept(kept)
  <2>1. \A i \in 0..N :
          g[i] = IF i = 0 THEN << >>
                 ELSE IF bytes[i] = 48 THEN kept[i - 1] ELSE Append(kept[i - 1], bytes[i])
    <3> HIDE DEF kept
    <3> QED OBVIOUS
  <2>2. kept = g
    <3> HIDE DEF Kept, kept
    <3> QED BY <1>7
  <2> HIDE DEF g, kept
  <2> QED BY <2>1, <2>2
<1>9. WithoutZeros(bytes) = kept[N]
  BY DEF WithoutZeros, N
<1> HIDE DEF kept, step
<1>10. kept[N] \in S
  <2> DEFINE T == {i \in Nat : i <= N => kept[i] \in S}
  <2>1. 0 \in T
    BY <1>1, <1>8 DEF base
  <2>2. ASSUME NEW i \in Nat, i \in T PROVE i + 1 \in T
    <3> SUFFICES ASSUME i + 1 <= N PROVE kept[i + 1] \in S
      OBVIOUS
    <3>1. kept[i] \in S /\ i + 1 \in 0..N /\ i + 1 \in 1..N /\ i + 1 # 0 /\ (i + 1) - 1 = i
      BY <1>1, <2>2
    <3>2. kept[i + 1] = IF bytes[i + 1] = 48 THEN kept[i] ELSE Append(kept[i], bytes[i + 1])
      BY <1>8, <3>1
    <3> QED BY <1>2, <1>3, <3>1, <3>2
  <2> HIDE DEF T
  <2>3. N \in T
    BY <1>1, <2>1, <2>2, Induction
  <2> QED BY <1>1, <2>3 DEF T
<1> QED BY <1>9, <1>10 DEF S

\* A text up to its first zero is bytes.
LEMMA TerminatedType ==
  ASSUME NEW bytes \in Seq(Byte)
  PROVE  Terminated(bytes) \in Seq(Byte)
<1> DEFINE zeros == {i \in 1..Len(bytes) : bytes[i] = 0}
           least == CHOOSE i \in zeros : \A k \in zeros : i <= k
<1>1. CASE zeros = {}
  BY <1>1 DEF Terminated
<1>2. CASE zeros # {}
  <2>1. zeros \in SUBSET Nat
    OBVIOUS
  <2>2. \E i \in zeros : \A k \in zeros : i <= k
    <3> HIDE DEF zeros
    <3> QED BY <1>2, <2>1, LeastNumber
  <2>3. least \in zeros
    <3> HIDE DEF zeros
    <3> QED BY <2>2
  <2>4. least \in 1..Len(bytes)
    <3> HIDE DEF least
    <3> QED BY <2>3
  <2>5. Terminated(bytes) = SubSeq(bytes, 1, least - 1)
    BY <1>2 DEF Terminated
  <2> HIDE DEF least
  <2>6. \A i \in 1..(least - 1) : bytes[i] \in Byte
    <3>1. \A i \in 1..Len(bytes) : bytes[i] \in Byte
      BY ElementOfSeq
    <3> QED BY <2>4, <3>1
  <2>7. SubSeq(bytes, 1, least - 1) \in Seq(Byte)
    <3>1. 1 \in Int /\ least - 1 \in Int
      BY <2>4
    <3> QED BY <2>6, <3>1, SubSeqProperties
  <2> QED BY <2>5, <2>7
<1> QED BY <1>1, <1>2

\* What a get may return: a value, or an error.
Result(v) == ValidValue(v) /\ v.t # "Ok"

\* A number is a result.
LEMMA NumberResult ==
  ASSUME NEW n \in Int
  PROVE  Result(Value("Int", n, << >>)) /\ Result(Value("Double", n, << >>))
  BY Fields DEF Result, ValidValue

\* So is a text.
LEMMA TextResult ==
  ASSUME NEW b \in Seq(Byte)
  PROVE  Result(Value("ByteArray", 0, b)) /\ Result(Value("String", 0, b))
  BY Fields DEF Result, ValidValue

\* And an error, no value, an identification and an array of values.
LEMMA OtherResult ==
  ASSUME NEW t \in {"Err", "Panic", "Empty", "DeviceId", "DeviceIdF0", "Array"}, NEW b
  PROVE  Result(Value(t, 0, b))
<1>1. Value(t, 0, b).t = t /\ Value(t, 0, b).n = 0 /\ Value(t, 0, b).b = b
  BY Fields
<1> QED BY <1>1 DEF Result, ValidValue

\* A panic, an error and no value in particular.
LEMMA NoResult == Result(Panic) /\ Result(Err) /\ Result(Empty)
  BY OtherResult DEF Panic, Err, Empty

\* Two digits in BCD are a number.
LEMMA BcdIsNat == \A b \in Byte : bcd_to_dec(b) \in Nat
<1> SUFFICES ASSUME NEW b \in Byte PROVE bcd_to_dec(b) \in Nat
  OBVIOUS
<1>1. b \in Nat
  BY ByteIsNat
<1>2. b \div 16 \in Nat /\ b % 16 \in Nat
  BY <1>1, SMT
<1> QED BY <1>2, SMT DEF bcd_to_dec

\* The date in eight bytes is three numbers.
LEMMA DateOfType ==
  ASSUME NEW bytes \in Seq(Byte), Len(bytes) = 8
  PROVE  /\ DateOf(bytes) \in Seq(Nat) /\ Len(DateOf(bytes)) = 3
         /\ DateOf(bytes)[1] \in Nat /\ DateOf(bytes)[2] \in Nat /\ DateOf(bytes)[3] \in Nat
         /\ TimeOf(bytes)[1] \in Nat /\ TimeOf(bytes)[2] \in Nat /\ TimeOf(bytes)[3] \in Nat
<1>1. \A i \in 1..8 : bytes[i] \in Byte
  BY ElementOfSeq
<1>2. \A i \in 1..8 : bcd_to_dec(bytes[i]) \in Nat
  BY <1>1, BcdIsNat
<1>3. /\ bcd_to_dec(bytes[1]) \in Nat /\ bcd_to_dec(bytes[2]) \in Nat
      /\ bcd_to_dec(bytes[3]) \in Nat /\ bcd_to_dec(bytes[4]) \in Nat
      /\ bcd_to_dec(bytes[6]) \in Nat /\ bcd_to_dec(bytes[7]) \in Nat
      /\ bcd_to_dec(bytes[8]) \in Nat
  BY <1>2
<1>4. bcd_to_dec(bytes[1]) * 100 + bcd_to_dec(bytes[2]) \in Nat
  BY <1>3, SMT
<1> DEFINE year == bcd_to_dec(bytes[1]) * 100 + bcd_to_dec(bytes[2])
           d == DateOf(bytes)
           s == TimeOf(bytes)
<1>5. d = << year, bcd_to_dec(bytes[3]), bcd_to_dec(bytes[4]) >>
  BY DEF DateOf
<1>6. s = << bcd_to_dec(bytes[6]), bcd_to_dec(bytes[7]), bcd_to_dec(bytes[8]) >>
  BY DEF TimeOf
<1> HIDE DEF year, d, s
<1>7. d \in Seq(Nat) /\ Len(d) = 3
  BY <1>3, <1>4, <1>5 DEF year
<1>8. d[1] \in Nat /\ d[2] \in Nat /\ d[3] \in Nat
  BY <1>3, <1>4, <1>5, Triple DEF year
<1>9. s[1] \in Nat /\ s[2] \in Nat /\ s[3] \in Nat
  BY <1>3, <1>6, Triple
<1> QED BY <1>7, <1>8, <1>9 DEF d, s

\* A date that is read is one.
LEMMA ReadDate ==
  ASSUME NEW bytes \in Seq(Byte), Len(bytes) = 8, date_from_bytes(bytes) # << >>
  PROVE  Result(Value("Date", 0, date_from_bytes(bytes)))
<1> DEFINE d == DateOf(bytes)
<1>1. date_from_bytes(bytes) = d /\ IsDate(d)
  <2> HIDE DEF d
  <2> QED BY DEF date_from_bytes, d
<1>2. d \in Seq(Nat) /\ Len(d) = 3
  BY DateOfType
<1> HIDE DEF d
<1>3. Result(Value("Date", 0, d))
  BY <1>1, <1>2, Fields DEF Result, ValidValue
<1> QED BY <1>1, <1>3

\* So is a date-time.
LEMMA ReadDateTime ==
  ASSUME NEW bytes \in Seq(Byte), Len(bytes) = 8, date_time_from_bytes(bytes) # << >>
  PROVE  IsDateTime(date_time_from_bytes(bytes))
<1> DEFINE d == DateOf(bytes)
           s == TimeOf(bytes)
           dt == << d[1], d[2], d[3], s[1], s[2], s[3] >>
<1>1. date_time_from_bytes(bytes) = dt /\ IsDate(d) /\ IsTime(s)
  <2> HIDE DEF d, s
  <2> QED BY DEF date_time_from_bytes, d, s
<1>2. /\ d[1] \in Nat /\ d[2] \in Nat /\ d[3] \in Nat
      /\ s[1] \in Nat /\ s[2] \in Nat /\ s[3] \in Nat
  BY DateOfType
<1> HIDE DEF d, s
<1>3. /\ dt[1] = d[1] /\ dt[2] = d[2] /\ dt[3] = d[3]
      /\ dt[4] = s[1] /\ dt[5] = s[2] /\ dt[6] = s[3]
      /\ dt \in Seq(Nat) /\ Len(dt) = 6
  BY <1>2
<1> HIDE DEF dt
<1>4. IsDate(dt)
  BY <1>1, <1>3 DEF IsDate
<1>5. IsTime(<< dt[4], dt[5], dt[6] >>)
  BY <1>1, <1>3, Triple DEF IsTime
<1>6. IsDateTime(dt)
  BY <1>3, <1>4, <1>5 DEF IsDateTime
<1> QED BY <1>1, <1>6

\* An error entry is a result.
LEMMA ErrorResult ==
  ASSUME NEW e,
         \/ e = << 0 >>
         \/ e \in Seq(Nat) /\ Len(e) = 7 /\ e[1] \in Byte /\ IsDateTime(Tail(e))
  PROVE  Result(Value("Error", 0, e))
<1> DEFINE w == Value("Error", 0, e)
<1>1. w.t = "Error" /\ w.n = 0 /\ w.b = e /\ w = Value(w.t, w.n, w.b)
  BY Fields
<1> HIDE DEF w
<1>2. Result(w)
  BY <1>1 DEF Result, ValidValue
<1> QED BY <1>2 DEF w

\* An entry that is read is one.
LEMMA ReadError ==
  ASSUME NEW bytes \in Seq(Byte), Len(bytes) = 9, error_from_bytes(bytes) # << >>
  PROVE  Result(Value("Error", 0, error_from_bytes(bytes)))
<1> DEFINE rest == SubSeq(bytes, 2, 9)
           time == date_time_from_bytes(rest)
           x == bytes[1]
           e == << x >> \o time
<1>1. rest \in Seq(Byte) /\ Len(rest) = 8
  <2>1. \A i \in 1..9 : bytes[i] \in Byte
    BY ElementOfSeq
  <2>2. \A i \in 2..9 : bytes[i] \in Byte
    BY <2>1
  <2>3. rest \in Seq(Byte) /\ Len(rest) = IF 2 <= 9 THEN 9 - 2 + 1 ELSE 0
    BY <2>2, SubSeqProperties
  <2> HIDE DEF rest
  <2> QED BY <2>3
<1>2. x \in Byte
  <2>1. 1 \in 1..Len(bytes)
    OBVIOUS
  <2> QED BY <2>1, ElementOfSeq
<1>3. error_from_bytes(bytes) = e /\ (time = << >> => x = 0)
  <2> HIDE DEF e
  <2> QED BY DEF error_from_bytes, e
<1> HIDE DEF rest, x
<1>4. CASE time = << >>
  <2>1. e = << 0 >>
    BY <1>3, <1>4
  <2> HIDE DEF e
  <2> QED BY <1>3, <2>1, ErrorResult
<1>5. CASE time # << >>
  <2>1. IsDateTime(time)
    BY <1>1, <1>5, ReadDateTime
  <2> HIDE DEF time
  <2>2. time \in Seq(Nat) /\ Len(time) = 6 /\ x \in Nat
    BY <1>2, <2>1, ByteIsNat DEF IsDateTime
  <2>3. e \in Seq(Nat) /\ Len(e) = 7 /\ e[1] = x /\ Tail(e) = time
    <3> DEFINE first == << x >>
    <3>1. first \in Seq(Nat) /\ Len(first) = 1 /\ first[1] = x
      BY <2>2
    <3> HIDE DEF first
    <3>2. /\ first \o time \in Seq(Nat) /\ Len(first \o time) = Len(first) + Len(time)
          /\ \A i \in 1..(Len(first) + Len(time)) :
               (first \o time)[i] = IF i <= Len(first) THEN first[i] ELSE time[i - Len(first)]
      BY <2>2, <3>1, ConcatProperties
    <3> DEFINE f == first \o time
    <3> HIDE DEF f
    <3>3. Len(first) + Len(time) = 7
      BY <2>2, <3>1
    <3>4. /\ f \in Seq(Nat) /\ Len(f) = 7
          /\ \A i \in 1..7 : f[i] = IF i <= 1 THEN first[i] ELSE time[i - 1]
      BY <3>1, <3>2, <3>3 DEF f
    <3>5. f[1] = x
      BY <3>1, <3>4
    <3>6. Len(f) # 0
      BY <3>4
    <3>7. f # << >>
      BY <3>6, NotEmpty
    <3> DEFINE r == Tail(f)
    <3>8. r \in Seq(Nat) /\ Len(r) = Len(f) - 1 /\ \A i \in 1..Len(r) : r[i] = f[i + 1]
      BY <3>4, <3>7, HeadTailProperties
    <3> HIDE DEF r
    <3>9. Len(r) = 6
      BY <3>4, <3>8
    <3>10. \A i \in 1..6 : r[i] = time[i]
      <4> TAKE i \in 1..6
      <4>1. i + 1 \in 1..7 /\ ~(i + 1 <= 1) /\ (i + 1) - 1 = i
        OBVIOUS
      <4>2. r[i] = f[i + 1]
        BY <3>8, <3>9
      <4> QED BY <3>4, <4>1, <4>2
    <3>11. r = time
      BY <2>2, <3>8, <3>9, <3>10, SeqEqual
    <3> QED BY <3>4, <3>5, <3>11 DEF f, first, r
  <2> HIDE DEF e
  <2>4. Result(Value("Error", 0, e))
    BY <1>2, <2>1, <2>3, ErrorResult
  <2> QED BY <1>3, <2>4
<1> QED BY <1>4, <1>5

\* The time that a byte stands for.
LEMMA TimeOfByte ==
  ASSUME NEW b \in Byte, IsTimeByte(b), b # Unused
  PROVE  time_from_byte(b) \in Minutes /\ time_from_byte(b) # None
<1> DEFINE h == b \div 8
           m == b % 8
<1>1. b \in Nat
  BY ByteIsNat
<1>2. h \in Nat /\ m \in Nat
  BY <1>1, SMT
<1>3. h <= 24 /\ m < 6
  BY SMT DEF IsTimeByte
<1>4. time_from_byte(b) = h * 60 + m * 10
  BY DEF time_from_byte
<1> HIDE DEF h, m
<1>5. time_from_byte(b) \in Nat /\ time_from_byte(b) <= 1499
  BY <1>2, <1>3, <1>4, SMT
<1> QED BY <1>5, SMT DEF Minutes, None

\* The places of the two times of a span.
LEMMA SpanPlaces ==
  \A i \in 1..28 : /\ 2 * i - 1 \in 1..56 /\ 2 * i \in 1..56
                   /\ (2 * i - 1) % 2 = 1 /\ (2 * i) % 2 # 1
                   /\ (2 * i - 1) + 1 = 2 * i
  BY SMT

\* The value of switching times, and what it is made of.
Spans(b) == Value("CircuitTimes", 0, b)

\* The fields of switching times.
LEMMA SpansFields ==
  ASSUME NEW b
  PROVE  LET w == Spans(b)
         IN  w.t = "CircuitTimes" /\ w.n = 0 /\ w.b = b /\ w = Value(w.t, w.n, w.b)
  BY Fields DEF Spans

\* A function on the first n numbers is a sequence of n elements.
LEMMA FunctionIsSeq ==
  ASSUME NEW S, NEW n \in Nat, NEW f \in [1..n -> S]
  PROVE  f \in Seq(S) /\ Len(f) = n
  OBVIOUS

\* Switching times are a result.
LEMMA SpansResult ==
  ASSUME NEW s \in Seq({None} \cup Minutes), Len(s) = 56,
         \A i \in 1..28 : s[2 * i - 1] = None <=> s[2 * i] = None
  PROVE  Result(Value("CircuitTimes", 0, s))
<1> DEFINE w == Spans(s)
<1>1. w.t = "CircuitTimes" /\ w.n = 0 /\ w.b = s /\ w = Value(w.t, w.n, w.b)
  BY SpansFields
<1> HIDE DEF w
<1>2. Result(w)
  BY <1>1 DEF Result, ValidValue
<1> QED BY <1>2 DEF w, Spans

\* Switching times that are read are a result.
LEMMA ReadSpans ==
  ASSUME NEW bytes \in Seq(Byte), Len(bytes) = 56, \A i \in 1..56 : IsTimeByte(bytes[i])
  PROVE  Result(Value("CircuitTimes", 0, circuit_times_from_bytes(bytes)))
<1> DEFINE times == circuit_times_from_bytes(bytes)
           other(i) == IF i % 2 = 1 THEN i + 1 ELSE i - 1
           time(i) == IF Unused \in {bytes[i], bytes[other(i)]} THEN None ELSE time_from_byte(bytes[i])
<1>1. times = [i \in 1..56 |-> time(i)]
  BY DEF circuit_times_from_bytes
<1>2. \A i \in 1..56 : bytes[i] \in Byte
  BY ElementOfSeq
<1>3. ASSUME NEW i \in 1..56
      PROVE  /\ time(i) \in {None} \cup Minutes
             /\ time(i) = None <=> Unused \in {bytes[i], bytes[other(i)]}
  <2>1. CASE Unused \in {bytes[i], bytes[other(i)]}
    <3> HIDE DEF other
    <3> QED BY <2>1
  <2>2. CASE Unused \notin {bytes[i], bytes[other(i)]}
    <3>1. bytes[i] # Unused
      BY <2>2
    <3>2. time_from_byte(bytes[i]) \in Minutes /\ time_from_byte(bytes[i]) # None
      BY <1>2, <3>1, TimeOfByte
    <3> HIDE DEF other
    <3> QED BY <2>2, <3>2
  <2> QED BY <2>1, <2>2
<1>4. ASSUME NEW i \in 1..28
      PROVE  time(2 * i - 1) = None <=> time(2 * i) = None
  <2> DEFINE j == 2 * i - 1
             k == 2 * i
  <2>1. j \in 1..56 /\ k \in 1..56 /\ j % 2 = 1 /\ k % 2 # 1 /\ j + 1 = k /\ k - 1 = j
    BY SpanPlaces
  <2> HIDE DEF j, k, time
  <2>2. other(j) = k /\ other(k) = j
    BY <2>1
  <2> HIDE DEF other
  <2>3. time(j) = None <=> time(k) = None
    BY <1>3, <2>1, <2>2, Zenon
  <2> QED BY <2>3 DEF j, k
<1> HIDE DEF time, times
<1>5. \A i \in 1..56 : time(i) \in {None} \cup Minutes
  BY <1>3
<1> DEFINE S == {None} \cup Minutes
<1>6. \A i \in 1..56 : time(i) \in S
  BY <1>5
<1> HIDE DEF S
<1>7. times \in [1..56 -> S]
  BY <1>1, <1>6
<1>8. times \in Seq(S) /\ Len(times) = 56
  <2> DEFINE n == 56
  <2>1. n \in Nat /\ times \in [1..n -> S]
    BY <1>7
  <2> HIDE DEF n
  <2>2. times \in Seq(S) /\ Len(times) = n
    BY <2>1, FunctionIsSeq
  <2> QED BY <2>2 DEF n
<1>9. \A i \in 1..56 : times[i] = time(i)
  BY <1>1
<1>10. \A i \in 1..28 : times[2 * i - 1] = None <=> times[2 * i] = None
  <2> SUFFICES ASSUME NEW i \in 1..28 PROVE times[2 * i - 1] = None <=> times[2 * i] = None
    OBVIOUS
  <2>1. times[2 * i - 1] = time(2 * i - 1) /\ times[2 * i] = time(2 * i)
    BY <1>9, SpanPlaces
  <2> QED BY <1>4, <2>1
<1>11. Result(Value("CircuitTimes", 0, times))
  BY <1>8, <1>10, SpansResult DEF S
<1> QED BY <1>11 DEF times

\* What is read without a conversion is a result.
LEMMA NumericResult ==
  ASSUME NEW c \in Commands, NEW bytes \in Seq(Byte), c.data_type \in {"Int", "Byte", "Double"}
  PROVE  Result(Numeric(c, bytes))
<1>1. ASSUME NEW n \in Int PROVE Result(Number2Value(c, n))
  <2> DEFINE w == Width(c.parameter)
  <2>1. CASE w = 0 \/ (c.data_type = "Byte" /\ w # 1)
    BY <2>1, NoResult DEF Number2Value
  <2>2. CASE ~(w = 0 \/ (c.data_type = "Byte" /\ w # 1))
    <3>1. w \in {1, 2, 4}
      BY <2>2, Widths
    <3>2. n % 256 \in Int
      BY SMT
    <3>3. CASE c.data_type = "Byte"
      <4>1. Number2Value(c, n) = Value("Int", n % 256, << >>)
        BY <2>2, <3>3 DEF Number2Value
      <4> QED BY <3>2, <4>1, NumberResult
    <3>4. CASE c.data_type = "Int"
      <4>1. Number2Value(c, n) = Value("Int", n, << >>)
        BY <2>2, <3>4 DEF Number2Value
      <4> QED BY <4>1, NumberResult
    <3>5. CASE c.data_type = "Double"
      <4> DEFINE m == IF Signed(c.parameter) /\ w < 4 THEN AsSigned(n, w) ELSE n
      <4>1. m \in Int
        <5>1. CASE Signed(c.parameter) /\ w < 4
          <6>1. w \in {1, 2}
            <7> HIDE DEF w
            <7> QED BY <3>1, <5>1
          <6> HIDE DEF w
          <6>2. AsSigned(n, w) \in Int
            BY <6>1, SignedIsInt
          <6> QED BY <5>1, <6>2
        <5>2. CASE ~(Signed(c.parameter) /\ w < 4)
          <6> HIDE DEF w
          <6> QED BY <5>2
        <5> QED BY <5>1, <5>2
      <4>2. Number2Value(c, n) = Value("Double", Scale * m, << >>)
        BY <2>2, <3>5 DEF Number2Value
      <4> HIDE DEF m
      <4>3. Scale * m \in Int
        BY <4>1, SMT DEF Scale
      <4> QED BY <4>2, <4>3, NumberResult
    <3> QED BY <3>3, <3>4, <3>5
  <2> QED BY <2>1, <2>2
<1>2. Number(c, bytes) \in Int
  BY NumberIsInt
<1>3. HasBits(c, bytes) => Bits(c, bytes) \in Int
  <2> SUFFICES ASSUME HasBits(c, bytes) PROVE Bits(c, bytes) \in Int
    OBVIOUS
  <2>1. Bits(c, bytes) \in Nat
    BY BitsAreNat
  <2> QED BY <2>1
<1> QED BY <1>1, <1>2, <1>3, NoResult DEF Numeric

\* So are a date, switching times and an identification.
LEMMA StructuredResult ==
  ASSUME NEW c \in Commands, NEW bytes \in Seq(Byte), c.data_type \in DOMAIN FixedLength
  PROVE  Result(Structured(c, bytes))
<1> DEFINE type == c.data_type
<1>1. type \in {"DeviceId", "DeviceIdF0", "Date", "DateTime", "Error", "CircuitTimes"}
  BY DEF FixedLength
<1>2. CASE Len(bytes) # FixedLength[type]
  BY <1>2, NoResult DEF Structured
<1>3. CASE Len(bytes) = FixedLength[type]
  <2>1. CASE type = "DeviceId"
    <3>1. Structured(c, bytes) \in {Err, Value("DeviceId", 0, device_id_from_bytes(bytes))}
      BY <2>1 DEF Structured
    <3> QED BY <3>1, NoResult, OtherResult
  <2>2. CASE type = "DeviceIdF0"
    <3>1. Structured(c, bytes) \in {Err, Value("DeviceIdF0", 0, device_id_f0_from_bytes(bytes))}
      BY <2>2 DEF Structured
    <3> QED BY <3>1, NoResult, OtherResult
  <2>3. CASE type = "Date"
    <3>1. Len(bytes) = 8
      BY <1>3, <2>3 DEF FixedLength
    <3>2. \/ Structured(c, bytes) = Err
          \/ /\ Structured(c, bytes) = Value("Date", 0, date_from_bytes(bytes))
             /\ date_from_bytes(bytes) # << >>
      BY <2>3 DEF Structured
    <3> QED BY <3>1, <3>2, NoResult, ReadDate
  <2>4. CASE type = "DateTime"
    <3> DEFINE dt == date_time_from_bytes(bytes)
               w == Value("DateTime", 0, dt)
    <3>1. Len(bytes) = 8
      BY <1>3, <2>4 DEF FixedLength
    <3>2. Structured(c, bytes) = Err \/ (Structured(c, bytes) = w /\ dt # << >>)
      BY <2>4 DEF Structured
    <3>3. dt # << >> => IsDateTime(dt)
      BY <3>1, ReadDateTime
    <3>4. w.t = "DateTime" /\ w.n = 0 /\ w.b = dt /\ w = Value(w.t, w.n, w.b)
      BY Fields
    <3> HIDE DEF w, dt
    <3>5. dt # << >> => Result(w)
      BY <3>3, <3>4 DEF Result, ValidValue
    <3> QED BY <3>2, <3>5, NoResult
  <2>5. CASE type = "Error"
    <3>1. Len(bytes) = 9
      BY <1>3, <2>5 DEF FixedLength
    <3>2. \/ Structured(c, bytes) = Err
          \/ /\ Structured(c, bytes) = Value("Error", 0, error_from_bytes(bytes))
             /\ error_from_bytes(bytes) # << >>
      BY <2>5 DEF Structured
    <3> QED BY <3>1, <3>2, NoResult, ReadError
  <2>6. CASE type = "CircuitTimes"
    <3>1. Len(bytes) = 56
      BY <1>3, <2>6 DEF FixedLength
    <3>2. \/ Structured(c, bytes) \in {Err, Panic}
          \/ /\ Structured(c, bytes) = Value("CircuitTimes", 0, circuit_times_from_bytes(bytes))
             /\ \A i \in 1..Len(bytes) : IsTimeByte(bytes[i])
      BY <2>6 DEF Structured
    <3>3. (\A i \in 1..Len(bytes) : IsTimeByte(bytes[i])) =>
            Result(Value("CircuitTimes", 0, circuit_times_from_bytes(bytes)))
      BY <3>1, ReadSpans
    <3> QED BY <3>2, <3>3, NoResult
  <2> QED BY <1>1, <2>1, <2>2, <2>3, <2>4, <2>5, <2>6
<1> QED BY <1>2, <1>3

\* So is everything that is read and not converted yet.
LEMMA UnconvertedResult ==
  ASSUME NEW c \in Commands, NEW bytes \in Seq(Byte)
  PROVE  Result(Unconverted(c, bytes))
<1>1. c.data_type \in DataTypes
  BY CommandType
<1>2. CASE c.data_type \in DOMAIN FixedLength
  <2>1. Unconverted(c, bytes) = Structured(c, bytes)
    BY <1>2 DEF Unconverted, FixedLength
  <2> QED BY <1>2, <2>1, StructuredResult
<1>3. CASE c.data_type = "ErrorIndex"
  <2>1. Unconverted(c, bytes) \in {Value("ByteArray", 0, Terminated(bytes)), Err}
    BY <1>3 DEF Unconverted, FixedLength
  <2> QED BY <2>1, NoResult, TerminatedType, TextResult
<1>4. CASE c.data_type = "String"
  <2>1. Unconverted(c, bytes) \in {Value("String", 0, Terminated(bytes)), Err}
    BY <1>4 DEF Unconverted, FixedLength
  <2> QED BY <2>1, NoResult, TerminatedType, TextResult
<1>5. CASE c.data_type = "ByteArray"
  <2>1. Unconverted(c, bytes) = Value("ByteArray", 0, bytes)
    BY <1>5 DEF Unconverted, FixedLength
  <2> QED BY <2>1, TextResult
<1>6. CASE c.data_type \in {"Byte", "Int", "Double"}
  <2>1. Unconverted(c, bytes) = Numeric(c, bytes)
    BY <1>6, NumberUnconverted
  <2> QED BY <1>6, <2>1, NumericResult
<1> QED BY <1>1, <1>2, <1>3, <1>4, <1>5, <1>6 DEF DataTypes, FixedLength

\* The bytes in reverse are bytes.
LEMMA ReverseType ==
  ASSUME NEW b \in Seq(Byte)
  PROVE  Reverse(b) \in Seq(Byte)
<1>1. \A i \in 1..Len(b) : b[i] \in Byte
  BY ElementOfSeq
<1>2. ASSUME NEW i \in 1..Len(b) PROVE (Len(b) - i) + 1 \in 1..Len(b)
  OBVIOUS
<1>3. Reverse(b) = [i \in 1..Len(b) |-> b[(Len(b) - i) + 1]]
  BY DEF Reverse
<1>4. Reverse(b) \in [1..Len(b) -> Byte]
  BY <1>1, <1>2, <1>3
<1> QED BY <1>4, FunctionIsSeq

\* A conversion of a result is one.
LEMMA ConvertedResult ==
  ASSUME NEW c \in Commands, NEW v, Result(v)
  PROVE  Result(convert(v, c.conversion))
<1> DEFINE conv == c.conversion
           w == convert(v, conv)
<1> SUFFICES Result(w)
  OBVIOUS
<1>1. conv.num \in Nat /\ conv.den \in Nat \ {0}
  BY CommandType
<1>2. v = Value(v.t, v.n, v.b)
  BY DEF Result, ValidValue
<1>3. CASE v.t \in {"Int", "Double"}
  <2>1. v.n \in Int /\ v.b = << >>
    BY <1>3 DEF Result, ValidValue
  <2>2. CASE v.t = "Double"
    <3>1. v = Value("Double", v.n, << >>)
      BY <1>2, <2>1, <2>2
    <3>2. w = v \/ w = [v EXCEPT !.n = (v.n * conv.num) \div conv.den]
      BY <2>2 DEF convert
    <3>3. [v EXCEPT !.n = (v.n * conv.num) \div conv.den] =
            Value("Double", (v.n * conv.num) \div conv.den, << >>)
      BY <3>1, OtherNumber
    <3>4. v.n * conv.num \in Int
      BY <1>1, <2>1
    <3>5. (v.n * conv.num) \div conv.den \in Int
      BY <1>1, <3>4
    <3> HIDE DEF w, conv
    <3> QED BY <3>2, <3>3, <3>5, NumberResult
  <2>3. CASE v.t = "Int"
    <3>1. v = Value("Int", v.n, << >>)
      BY <1>2, <2>1, <2>3
    <3>2. w = v \/ w = [v EXCEPT !.n = v.n * conv.num]
      BY <2>3 DEF convert
    <3>3. [v EXCEPT !.n = v.n * conv.num] = Value("Int", v.n * conv.num, << >>)
      BY <3>1, OtherNumber
    <3>4. v.n * conv.num \in Int
      BY <1>1, <2>1
    <3> HIDE DEF w, conv
    <3> QED BY <3>2, <3>3, <3>4, NumberResult
  <2> QED BY <1>3, <2>2, <2>3
<1>4. CASE v.t = "ByteArray"
  <2>1. v = Value("ByteArray", 0, v.b) /\ v.b \in Seq(Byte)
    BY <1>2, <1>4 DEF Result, ValidValue
  <2>2. [v EXCEPT !.b = Reverse(v.b)] = Value("ByteArray", 0, Reverse(v.b))
    BY <2>1 DEF Value
  <2>3. w \in {v, Value("String", 0, WithoutZeros(v.b)), Value("String", 0, v.b),
               [v EXCEPT !.b = Reverse(v.b)]}
    BY <1>4 DEF convert
  <2> HIDE DEF w
  <2> QED BY <2>1, <2>2, <2>3, ReverseType, WithoutZerosType, TextResult
<1>5. CASE v.t \notin {"Int", "Double", "ByteArray"}
  <2>1. w = v
    BY <1>5 DEF convert
  <2> QED BY <2>1
<1> QED BY <1>3, <1>4, <1>5

\* What is parsed is a result.
LEMMA ParsedResult ==
  ASSUME NEW c \in Commands, NEW bytes \in Seq(Byte)
  PROVE  Result(parse_value(c, bytes))
<1>1. Result(convert(Unconverted(c, bytes), c.conversion))
  BY UnconvertedResult, ConvertedResult
<1> QED BY <1>1, NoResult DEF parse_value

\* A part of a sequence of bytes is one.
LEMMA PartType ==
  ASSUME NEW b \in Seq(Byte), NEW m \in Nat \ {0}, NEW n \in Int, n <= Len(b)
  PROVE  /\ SubSeq(b, m, n) \in Seq(Byte)
         /\ Len(SubSeq(b, m, n)) = IF m <= n THEN n - m + 1 ELSE 0
         /\ \A i \in 1..Len(SubSeq(b, m, n)) : SubSeq(b, m, n)[i] = b[m + i - 1]
  BY SubSeqProperties

\* The values of the blocks, or the first that failed, are a result.
LEMMA DeserializedResult ==
  ASSUME NEW c \in Commands, NEW bytes \in Seq(Byte)
  PROVE  Result(deserialize(c, bytes))
<1> DEFINE len == c.block_len \div c.block_count
           values == [i \in 1..c.block_count |->
                        IF i * len > Len(bytes) THEN Panic
                        ELSE parse_value(c, SubSeq(bytes, (i - 1) * len + 1, i * len))]
           failed == {i \in 1..c.block_count : values[i] \in {Err, Panic}}
<1>1. CASE c.block_count = 0
  BY <1>1, ParsedResult DEF deserialize
<1>2. CASE c.block_count # 0
  <2>1. CASE failed = {}
    <3>1. deserialize(c, bytes) = Value("Array", 0, values)
      BY <1>2, <2>1 DEF deserialize
    <3> HIDE DEF values
    <3> QED BY <3>1, OtherResult
  <2>2. CASE failed # {}
    <3> DEFINE first == CHOOSE i \in failed : \A k \in failed : i <= k
    <3>1. deserialize(c, bytes) = values[first]
      BY <1>2, <2>2 DEF deserialize
    <3>2. failed \subseteq Nat
      BY CommandType
    <3>3. \E i \in failed : \A k \in failed : i <= k
      <4> HIDE DEF failed
      <4> QED BY <2>2, <3>2, LeastNumber
    <3>4. first \in failed
      <4> HIDE DEF failed
      <4> QED BY <3>3
    <3>5. values[first] \in {Err, Panic}
      <4> HIDE DEF first
      <4> QED BY <3>4
    <3> HIDE DEF first, values
    <3> QED BY <3>1, <3>5, NoResult
  <2> QED BY <2>1, <2>2
<1> QED BY <1>1, <1>2

-----------------------------------------------------------------------------
(* The memory *)

\* The bytes of a command in a memory.
LEMMA SliceType ==
  ASSUME NEW c \in Commands, NEW m, IsMemory(m)
  PROVE  /\ Slice(c, m) \in Seq(Byte) /\ Len(Slice(c, m)) = c.byte_len
         /\ \A i \in 1..c.byte_len : Slice(c, m)[i] = m[c.addr + c.byte_pos + i - 1]
<1> DEFINE a == c.addr + c.byte_pos
           z == a + c.byte_len - 1
<1>1. /\ c.addr \in Nat /\ c.addr > 0 /\ c.byte_pos \in Nat /\ c.byte_len \in Nat
  BY CommandType
<1>2. a \in Nat \ {0} /\ z \in Int
  BY <1>1
<1>3. m \in Seq(Byte) /\ a + c.byte_len <= Len(m) + 1
  BY DEF IsMemory
<1>4. Len(m) \in Nat
  BY <1>3
<1>5. z <= Len(m) /\ (IF a <= z THEN z - a + 1 ELSE 0) = c.byte_len
  <2> HIDE DEF a
  <2>1. z <= Len(m)
    BY <1>1, <1>2, <1>3, <1>4
  <2>2. CASE c.byte_len = 0
    BY <1>1, <1>2, <2>1, <2>2
  <2>3. CASE c.byte_len > 0
    BY <1>1, <1>2, <2>1, <2>3
  <2> QED BY <1>1, <2>1, <2>2, <2>3
<1>6. Slice(c, m) = SubSeq(m, a, z)
  BY DEF Slice
<1> HIDE DEF z
<1>7. /\ SubSeq(m, a, z) \in Seq(Byte) /\ Len(SubSeq(m, a, z)) = c.byte_len
      /\ \A i \in 1..c.byte_len : SubSeq(m, a, z)[i] = m[a + i - 1]
  <2> HIDE DEF a
  <2> QED BY <1>2, <1>3, <1>5, PartType
<1> QED BY <1>6, <1>7

\* A get returns a result.
LEMMA ReadsResult ==
  ASSUME NEW c \in Commands, NEW m, IsMemory(m)
  PROVE  Result(Reads(c, m))
<1>1. Slice(c, m) \in Seq(Byte)
  BY SliceType
<1>2. Result(deserialize(c, Slice(c, m)))
  BY <1>1, DeserializedResult
<1> QED BY <1>2, NoResult DEF Reads

\* A memory that is written to is a memory, with the bytes in it.
LEMMA WrittenType ==
  ASSUME NEW m, IsMemory(m), NEW a \in Nat \ {0}, NEW bytes \in Seq(Byte)
  PROVE  /\ IsMemory(Written(m, a, bytes)) /\ Len(Written(m, a, bytes)) = Len(m)
         /\ \A i \in 1..Len(m) :
              Written(m, a, bytes)[i] =
                IF i \in a..(a + Len(bytes) - 1) THEN bytes[i - a + 1] ELSE m[i]
<1> DEFINE w == Written(m, a, bytes)
           new(i) == IF i \in a..(a + Len(bytes) - 1) THEN bytes[i - a + 1] ELSE m[i]
<1>1. m \in Seq(Byte) /\ Len(m) \in Nat /\ Len(bytes) \in Nat
  BY DEF IsMemory
<1>2. ASSUME NEW i \in 1..Len(m) PROVE new(i) \in Byte
  <2>1. CASE i \in a..(a + Len(bytes) - 1)
    <3>1. i - a + 1 \in 1..Len(bytes)
      BY <1>1, <2>1
    <3>2. bytes[i - a + 1] \in Byte
      BY <3>1, ElementOfSeq
    <3> QED BY <2>1, <3>2
  <2>2. CASE i \notin a..(a + Len(bytes) - 1)
    <3>1. m[i] \in Byte
      BY <1>1, ElementOfSeq
    <3> QED BY <2>2, <3>1
  <2> QED BY <2>1, <2>2
<1>3. w = [i \in 1..Len(m) |-> new(i)]
  BY DEF Written
<1> HIDE DEF w, new
<1>4. w \in [1..Len(m) -> Byte] /\ \A i \in 1..Len(m) : w[i] = new(i)
  BY <1>2, <1>3
<1>5. w \in Seq(Byte) /\ Len(w) = Len(m)
  BY <1>1, <1>4, FunctionIsSeq
<1>6. IsMemory(w)
  BY <1>5 DEF IsMemory
<1> QED BY <1>4, <1>5, <1>6 DEF w, new

\* The value Ok is one.
LEMMA OkIsValue == ValidValue(Ok) /\ Ok.t = "Ok"
<1>1. Ok.t = "Ok" /\ Ok.n = 0 /\ Ok.b = << >> /\ Ok = Value(Ok.t, Ok.n, Ok.b)
  BY Fields DEF Ok
<1> QED BY <1>1 DEF ValidValue

\* Empty is no error.
LEMMA EmptyIsValue == ValidValue(Empty) /\ Empty.t = "Empty"
<1>1. Empty.t = "Empty"
  BY Fields DEF Empty
<1> QED BY <1>1, NoResult DEF Result

-----------------------------------------------------------------------------
(* The calls *)

\* A set of a text of a date is one of the date.
LEMMA ParsedSame ==
  ASSUME NEW c, NEW v, ValidValue(v)
  PROVE  LET w == Parsed(c, v)
         IN  /\ ValidValue(w) /\ Parsed(c, w) = w
             /\ Prepared(c, w) = Prepared(c, v)
             /\ Panics(c, w) <=> Panics(c, v)
             /\ Accepted(c, w) <=> Accepted(c, v)
<1> DEFINE w == Parsed(c, v)
<1>1. CASE w = v
  <2> HIDE DEF w
  <2> QED BY <1>1 DEF w
<1>2. CASE w # v
  <2>1. /\ v.t = "String" /\ w = Texts[v.b] /\ v.b \in DOMAIN Texts /\ w.t = c.data_type
    BY <1>2 DEF Parsed
  <2>2. w.t \in {"Date", "DateTime"} /\ ValidValue(w)
    BY <2>1, CommandAssumption
  <2>3. Parsed(c, w) = w
    BY <2>2, NoText
  <2>4. Prepared(c, w) = Prepared(c, v)
    <3>1. CASE c.conversion.kind = "none"
      <4>1. Prepared(c, v) = w
        BY <2>1, <2>2, <3>1 DEF Prepared
      <4>2. Prepared(c, w) = w
        BY <2>2, <2>3, <3>1 DEF Prepared
      <4> QED BY <4>1, <4>2
    <3>2. CASE c.conversion.kind # "none"
      <4>1. convert_back(v, c.conversion) = Err /\ convert_back(w, c.conversion) = Err
        BY <2>1, <2>2 DEF convert_back
      <4> QED BY <3>2, <4>1 DEF Prepared
    <3> QED BY <3>1, <3>2
  <2>5. Panics(c, w) <=> Panics(c, v)
    BY <2>4 DEF Panics
  <2>6. Accepted(c, w) <=> Accepted(c, v)
    BY <2>1, <2>2 DEF Accepted, TooLow, TooHigh
  <2> QED BY <2>2, <2>3, <2>4, <2>5, <2>6
<1> QED BY <1>1, <1>2

\* What a set takes, and the memory after it.
LEMMA WriteStep ==
  ASSUME TypeOK, NEW c \in Commands, NEW v, ValidValue(v), Write(c, v)
  PROVE  LET bytes == Bytes(c, Prepared(c, v))
         IN  /\ bytes \in Seq(Byte) /\ IsMemory(mem') /\ Len(mem') = Len(mem)
             /\ \A i \in 1..Len(mem) :
                  mem'[i] = IF i \in c.addr..(c.addr + Len(bytes) - 1)
                              THEN bytes[i - c.addr + 1] ELSE mem[i]
<1> DEFINE bytes == Bytes(c, Prepared(c, v))
<1>1. ~Panics(c, v) /\ Matches(c, Prepared(c, v)) /\ mem' = Written(mem, c.addr, bytes)
  BY DEF Write
<1>2. bytes \in Seq(Byte)
  <2> DEFINE w == Parsed(c, v)
  <2>1. /\ ValidValue(w) /\ Parsed(c, w) = w /\ Prepared(c, w) = Prepared(c, v)
        /\ Panics(c, w) <=> Panics(c, v)
    BY ParsedSame
  <2> HIDE DEF w
  <2>2. Bytes(c, Prepared(c, w)) \in Seq(Byte)
    BY <1>1, <2>1, BytesType
  <2> QED BY <2>1, <2>2
<1>3. c.addr \in Nat \ {0} /\ IsMemory(mem)
  BY CommandType DEF TypeOK
<1> HIDE DEF bytes
<1> QED BY <1>1, <1>2, <1>3, WrittenType, Zenon DEF bytes

\* What is set is a value.
LEMMA SetIsValue ==
  ASSUME TypeOK, NEW v \in Inputs \cup {output}, IsValue(v)
  PROVE  ValidValue(v) /\ v.t \notin {"Ok", "Err", "Panic"}
  BY CommandAssumption DEF TypeOK, IsValue

\* The next call is counted.
LEMMA CallCounted ==
  ASSUME TypeOK, NEW c \in Commands, Called(c)
  PROVE  calls' \in 0..MaxCalls /\ called' \in Commands
  BY CommandAssumption DEF TypeOK, Called

\* What get and set return is a value, and the memory is one: the proof needs
\* what every conversion makes of any bytes that the memory may hold.
THEOREM TypeCorrect == Spec => []TypeOK
<1>1. Init => TypeOK
  <2> SUFFICES ASSUME Init PROVE TypeOK
    OBVIOUS
  <2>1. called \in Commands
    BY CommandAssumption DEF Init
  <2>2. IsMemory(mem) /\ calls \in 0..MaxCalls
    BY CommandAssumption DEF Init
  <2>3. input = Empty /\ output = Empty
    BY DEF Init
  <2> QED BY <2>1, <2>2, <2>3, EmptyIsValue DEF TypeOK
<1>2. TypeOK /\ [Next]_vars => TypeOK'
  <2> SUFFICES ASSUME TypeOK, [Next]_vars PROVE TypeOK'
    OBVIOUS
  <2>1. ASSUME NEW c \in Commands, get(c) PROVE TypeOK'
    <3>1. calls' \in 0..MaxCalls /\ called' \in Commands
      BY <2>1, CallCounted DEF get
    <3>2. mem' = mem /\ input' = Empty /\ output' \in {Reads(c, mem), Err}
      BY <2>1 DEF get
    <3>3. IsMemory(mem)
      BY DEF TypeOK
    <3>4. ValidValue(output')
      BY <3>2, <3>3, ReadsResult, NoResult DEF Result
    <3> QED BY <3>1, <3>2, <3>3, <3>4, EmptyIsValue DEF TypeOK
  <2>2. ASSUME NEW c \in Commands, NEW v \in Inputs \cup {output}, IsValue(v), set(c, v)
        PROVE  TypeOK'
    <3>1. calls' \in 0..MaxCalls /\ called' \in Commands /\ input' = v
      BY <2>2, CallCounted DEF set
    <3>2. ValidValue(v) /\ v.t \notin {"Ok", "Err", "Panic"}
      BY <2>2, SetIsValue
    <3>3. output' \in {Ok, Err, Panic}
      BY <2>2 DEF set, Reject, WritePanics, Mismatch, Write
    <3>4. ValidValue(output')
      BY <3>3, NoResult, OkIsValue DEF Result
    <3>5. IsMemory(mem')
      <4>1. CASE Write(c, v)
        BY <3>2, <4>1, WriteStep
      <4>2. CASE mem' = mem
        BY <4>2 DEF TypeOK
      <4> QED BY <2>2, <4>1, <4>2 DEF set, Reject, WritePanics, Mismatch
    <3> QED BY <3>1, <3>2, <3>4, <3>5 DEF TypeOK
  <2>3. CASE UNCHANGED vars
    BY <2>3 DEF TypeOK, vars
  <2> QED BY <2>1, <2>2, <2>3 DEF Next
<1> QED BY <1>1, <1>2, PTL DEF Spec

-----------------------------------------------------------------------------
(* What a set wrote *)

\* After a set that succeeded the bytes of its value are in the memory.
JustWritten ==
  JustSet =>
    LET bytes == Bytes(called, Prepared(called, input))
    IN  /\ Accepted(called, input) /\ ~Panics(called, input)
        /\ Matches(called, Prepared(called, input))
        /\ input.t \notin {"Ok", "Err", "Panic"}
        /\ \A i \in 1..Len(bytes) : called.addr + i - 1 <= Len(mem) =>
             mem[called.addr + i - 1] = bytes[i]

\* No result of a get is that of a set.
LEMMA ResultIsNotOk == \A v : Result(v) => v # Ok
  BY OkIsValue DEF Result

\* Nothing else is returned when a set succeeds.
LEMMA FailuresAreNotOk == Err # Ok /\ Panic # Ok /\ Empty # Ok
  BY NoResult, ResultIsNotOk

\* A call leaves what it wrote.
LEMMA JustWrittenStep ==
  ASSUME TypeOK, Next
  PROVE  JustWritten'
<1>1. ASSUME NEW c \in Commands, get(c) PROVE JustWritten'
  <2>1. output' \in {Reads(c, mem), Err} /\ IsMemory(mem)
    BY <1>1 DEF get, TypeOK
  <2>2. output' # Ok
    BY <2>1, ReadsResult, ResultIsNotOk, FailuresAreNotOk
  <2> QED BY <2>2 DEF JustWritten, JustSet
<1>2. ASSUME NEW c \in Commands, NEW v \in Inputs \cup {output}, IsValue(v), set(c, v)
      PROVE  JustWritten'
  <2>1. ValidValue(v) /\ v.t \notin {"Ok", "Err", "Panic"}
    BY <1>2, SetIsValue
  <2>2. called' = c /\ input' = v
    BY <1>2 DEF set, Called
  <2>3. CASE Write(c, v)
    <3> DEFINE bytes == Bytes(c, Prepared(c, v))
    <3>1. /\ bytes \in Seq(Byte) /\ Len(mem') = Len(mem)
          /\ \A i \in 1..Len(mem) :
               mem'[i] = IF i \in c.addr..(c.addr + Len(bytes) - 1)
                           THEN bytes[i - c.addr + 1] ELSE mem[i]
      BY <2>1, <2>3, WriteStep
    <3>2. c.addr \in Nat /\ c.addr > 0
      BY CommandType
    <3>3. Len(bytes) \in Nat /\ Len(mem) \in Nat
      BY <3>1 DEF TypeOK, IsMemory
    <3>4. ASSUME NEW i \in 1..Len(bytes), c.addr + i - 1 <= Len(mem')
          PROVE  mem'[c.addr + i - 1] = bytes[i]
      <4> DEFINE k == c.addr + i - 1
      <4> HIDE DEF bytes
      <4>1. /\ k \in 1..Len(mem) /\ k \in c.addr..(c.addr + Len(bytes) - 1)
            /\ k - c.addr + 1 = i
        BY <3>1, <3>2, <3>3, <3>4
      <4> HIDE DEF k
      <4>2. mem'[k] = bytes[i]
        BY <3>1, <4>1
      <4> QED BY <4>2 DEF k
    <3>5. Accepted(c, v) /\ ~Panics(c, v) /\ Matches(c, Prepared(c, v))
      BY <2>3 DEF Write
    <3> QED BY <2>1, <2>2, <3>4, <3>5 DEF JustWritten
  <2>4. CASE output' \in {Err, Panic}
    BY <2>4, FailuresAreNotOk DEF JustWritten, JustSet
  <2> QED BY <1>2, <2>3, <2>4 DEF set, Reject, WritePanics, Mismatch
<1> QED BY <1>1, <1>2 DEF Next

\* A value that is no number is read as it was written.
LEMMA OthersParsed ==
  ASSUME NEW c \in Commands, Faithful(c), NEW v, ValidValue(v), v.t \notin {"Int", "Double"},
         Parsed(c, v) = v, ~Panics(c, v), Matches(c, Prepared(c, v)), Representable(c, v)
  PROVE  parse_value(c, Bytes(c, Prepared(c, v))) = v
<1>1. /\ c.conversion.kind = "none" /\ Prepared(c, v) = v
  BY PreparedOther
<1>2. Unconverted(c, Bytes(c, v)) = v
  BY OthersBack
<1>3. ~IsUnset(c, Bytes(c, v))
  BY <1>1 DEF Representable
<1>4. convert(v, c.conversion) = v
  BY <1>1 DEF convert
<1>5. ~TooLow(c, v) /\ ~TooHigh(c, v)
  BY DEF TooLow, TooHigh
<1> QED BY <1>1, <1>2, <1>3, <1>4, <1>5 DEF parse_value

\* The bytes that are read are those that were written.
LEMMA SliceWritten ==
  ASSUME NEW c \in Commands, c.byte_pos = 0, NEW m, IsMemory(m), NEW bytes \in Seq(Byte),
         Len(bytes) = c.byte_len,
         \A i \in 1..Len(bytes) : c.addr + i - 1 <= Len(m) => m[c.addr + i - 1] = bytes[i]
  PROVE  Slice(c, m) = bytes
<1>1. c.addr \in Nat /\ c.addr > 0 /\ c.byte_len \in Nat
  BY CommandType
<1>2. c.addr + c.byte_len <= Len(m) + 1 /\ Len(m) \in Nat
  BY <1>1 DEF IsMemory
<1>3. /\ Slice(c, m) \in Seq(Byte) /\ Len(Slice(c, m)) = c.byte_len
      /\ \A i \in 1..c.byte_len : Slice(c, m)[i] = m[c.addr + c.byte_pos + i - 1]
  BY SliceType
<1>4. ASSUME NEW i \in 1..c.byte_len PROVE Slice(c, m)[i] = bytes[i]
  <2>1. c.addr + c.byte_pos + i - 1 = c.addr + i - 1 /\ c.addr + i - 1 <= Len(m)
    BY <1>1, <1>2
  <2>2. Slice(c, m)[i] = m[c.addr + i - 1]
    BY <1>3, <2>1
  <2> QED BY <2>1, <2>2
<1> QED BY <1>3, <1>4, SeqEqual

\* A command that is faithful to its representable values returns them.
LEMMA ReadBack ==
  ASSUME TypeOK, JustWritten, JustSet, Faithful(called),
         Representable(called, Parsed(called, input))
  PROVE  SameValue(Reads(called, mem), Parsed(called, input))
<1> DEFINE c == called
           v == Parsed(c, input)
           bytes == Bytes(c, Prepared(c, v))
<1>1. c \in Commands /\ ValidValue(input) /\ IsMemory(mem)
  BY DEF TypeOK
<1>2. /\ Accepted(c, v) /\ ~Panics(c, v) /\ Matches(c, Prepared(c, v))
      /\ ValidValue(v) /\ Parsed(c, v) = v
      /\ \A i \in 1..Len(bytes) : c.addr + i - 1 <= Len(mem) => mem[c.addr + i - 1] = bytes[i]
  <2>1. /\ ValidValue(v) /\ Parsed(c, v) = v /\ Prepared(c, v) = Prepared(c, input)
        /\ Panics(c, v) <=> Panics(c, input)
        /\ Accepted(c, v) <=> Accepted(c, input)
    BY <1>1, ParsedSame
  <2> HIDE DEF v
  <2> QED BY <2>1 DEF JustWritten
<1>3. bytes \in Seq(Byte)
  BY <1>1, <1>2, BytesType
<1>4. c.byte_pos = 0 /\ c.byte_len <= c.block_len /\ c.block_count = 0 /\ c.byte_len \in Nat
  BY <1>1, CommandType DEF Faithful
<1>5. Len(bytes) = c.byte_len /\ SameValue(parse_value(c, bytes), v)
  <2>1. CASE v.t \in {"Int", "Double"}
    <3>1. Len(bytes) = Width(c.parameter) /\ c.data_type \in {"Int", "Byte", "Double"}
      BY <1>1, <1>2, <2>1, BytesType
    <3>2. Width(c.parameter) = c.byte_len
      BY <3>1 DEF Faithful
    <3>3. SameValue(parse_value(c, bytes), v)
      BY <1>1, <1>2, <2>1, NumbersBack
    <3> QED BY <3>1, <3>2, <3>3
  <2>2. CASE v.t \notin {"Int", "Double"}
    <3>1. parse_value(c, bytes) = v
      BY <1>1, <1>2, <2>2, OthersParsed
    <3>2. Prepared(c, v) = v
      BY <1>2, <2>2, PreparedOther
    <3>3. Len(bytes) = c.byte_len
      BY <1>1, <1>2, <2>2, <3>2, OthersBack
    <3> QED BY <3>1, <3>3 DEF SameValue
  <2> QED BY <2>1, <2>2
<1> HIDE DEF bytes, c, v
<1>6. Slice(c, mem) = bytes
  BY <1>1, <1>2, <1>3, <1>4, <1>5, SliceWritten
<1>7. Reads(c, mem) = parse_value(c, bytes)
  <2>1. ~(c.byte_pos + c.byte_len > c.block_len)
    BY <1>1, <1>4, CommandType
  <2> QED BY <1>4, <1>6, <2>1 DEF Reads, deserialize
<1> QED BY <1>5, <1>7 DEF c, v

\* What a set wrote is what the next get returns, for every value that has a
\* representation, of every command whose layout agrees with its types.
THEOREM SetIsReadBack == Spec => [](Faithful(called) => RoundTrip)
<1>1. Init => JustWritten
  BY FailuresAreNotOk DEF Init, JustWritten, JustSet
<1>2. TypeOK /\ JustWritten /\ [Next]_vars => JustWritten'
  <2>1. TypeOK /\ Next => JustWritten'
    BY JustWrittenStep
  <2>2. JustWritten /\ UNCHANGED vars => JustWritten'
    BY DEF JustWritten, JustSet, vars
  <2> QED BY <2>1, <2>2
<1>3. TypeOK /\ JustWritten => (Faithful(called) => RoundTrip)
  BY ReadBack DEF RoundTrip
<1> QED BY <1>1, <1>2, <1>3, TypeCorrect, PTL DEF Spec

\* So RoundTrip is an invariant of a device all of whose commands are faithful.
THEOREM FaithfulRoundTrip ==
  ASSUME \A c \in Commands : c.mode = "read_write" => Faithful(c)
  PROVE  Spec => []RoundTrip
<1>1. TypeOK /\ (Faithful(called) => RoundTrip) => RoundTrip
  BY DEF TypeOK, RoundTrip
<1> QED BY <1>1, TypeCorrect, SetIsReadBack, PTL

-----------------------------------------------------------------------------
(* The bytes of other commands *)

\* A set writes no more bytes than a command has that fits.
LEMMA FittingBytes ==
  ASSUME NEW c \in Commands, Fits(c), NEW v, ValidValue(v), Parsed(c, v) = v,
         ~Panics(c, v), Matches(c, Prepared(c, v)), NotLonger(c, v)
  PROVE  Len(Bytes(c, Prepared(c, v))) <= c.byte_len
<1>1. CASE v.t \in {"Int", "Double"}
  <2>1. /\ Len(Bytes(c, Prepared(c, v))) = Width(c.parameter)
        /\ c.data_type \in {"Int", "Byte", "Double"}
    BY <1>1, BytesType
  <2> QED BY <2>1 DEF Fits
<1>2. CASE v.t \notin {"Int", "Double"}
  <2>1. c.data_type = v.t
        /\ v.t \in {"Date", "DateTime", "Error", "CircuitTimes", "ByteArray", "String"}
    BY <1>2, PreparedOther
  <2>2. Len(Bytes(c, Prepared(c, v))) =
          IF v.t \in {"ByteArray", "String"} THEN Len(v.b) ELSE FixedLength[c.data_type]
    BY <1>2, BytesType
  <2>3. CASE v.t \in {"ByteArray", "String"}
    BY <2>2, <2>3 DEF NotLonger
  <2>4. CASE v.t \in {"Date", "DateTime", "Error", "CircuitTimes"}
    <3>1. FixedLength[c.data_type] <= c.byte_len
      BY <2>1, <2>4 DEF Fits
    <3>2. Len(Bytes(c, Prepared(c, v))) = FixedLength[c.data_type]
      BY <2>2, <2>4
    <3> QED BY <3>1, <3>2
  <2> QED BY <2>1, <2>3, <2>4
<1> QED BY <1>1, <1>2

\* Bytes outside of the cells of a command that fits are left alone by a set.
LEMMA OthersKept ==
  ASSUME TypeOK, NEW c \in Commands, Fits(c), NEW v, ValidValue(v), Write(c, v),
         NotLonger(c, Parsed(c, v)),
         NEW d \in Commands, Cells(d) \cap Cells(c) = {}
  PROVE  Slice(d, mem') = Slice(d, mem)
<1> DEFINE n == Len(Bytes(c, Prepared(c, v)))
<1>1. /\ Bytes(c, Prepared(c, v)) \in Seq(Byte) /\ IsMemory(mem') /\ Len(mem') = Len(mem)
      /\ \A i \in 1..Len(mem) : i \notin c.addr..(c.addr + n - 1) => mem'[i] = mem[i]
  BY WriteStep
<1>2. n \in Nat
  BY <1>1
<1>3. n <= c.byte_len
  <2> DEFINE w == Parsed(c, v)
  <2>1. /\ ValidValue(w) /\ Parsed(c, w) = w /\ Prepared(c, w) = Prepared(c, v)
        /\ Panics(c, w) <=> Panics(c, v)
        /\ NotLonger(c, w)
    BY ParsedSame
  <2>2. ~Panics(c, v) /\ Matches(c, Prepared(c, v))
    BY DEF Write
  <2> HIDE DEF w
  <2>3. Len(Bytes(c, Prepared(c, w))) <= c.byte_len
    BY <2>1, <2>2, FittingBytes
  <2> QED BY <2>1, <2>3
<1>4. /\ c.addr \in Nat /\ c.addr > 0 /\ c.byte_len \in Nat /\ c.byte_pos = 0
      /\ d.addr \in Nat /\ d.addr > 0 /\ d.byte_len \in Nat /\ d.byte_pos \in Nat
  BY CommandType DEF Fits
<1>5. IsMemory(mem) /\ Len(mem) \in Nat
  BY DEF TypeOK, IsMemory
<1>6. d.addr + d.byte_pos + d.byte_len <= Len(mem) + 1
  BY <1>5 DEF IsMemory
<1> HIDE DEF n
<1>7. ASSUME NEW i \in 1..d.byte_len PROVE Slice(d, mem')[i] = Slice(d, mem)[i]
  <2> DEFINE k == d.addr + d.byte_pos + i - 1
  <2>1. k \in Cells(d)
    BY <1>4 DEF Cells
  <2>2. k \notin Cells(c)
    BY <2>1
  <2>3. k \in 1..Len(mem)
    BY <1>4, <1>5, <1>6, SMTT(30)
  <2>4. Cells(c) = c.addr..(c.addr + c.byte_len - 1)
    BY <1>4 DEF Cells
  <2>5. Slice(d, mem')[i] = mem'[k] /\ Slice(d, mem)[i] = mem[k]
    BY <1>1, <1>5, SliceType
  <2> HIDE DEF k
  <2>6. k \notin c.addr..(c.addr + n - 1)
    BY <1>2, <1>3, <1>4, <2>2, <2>3, <2>4
  <2>7. mem'[k] = mem[k]
    BY <1>1, <2>3, <2>6
  <2> QED BY <2>5, <2>7
<1>8. /\ Slice(d, mem') \in Seq(Byte) /\ Len(Slice(d, mem')) = d.byte_len
      /\ Slice(d, mem) \in Seq(Byte) /\ Len(Slice(d, mem)) = d.byte_len
  BY <1>1, <1>5, SliceType
<1> QED BY <1>7, <1>8, SeqEqual

\* A set of a command that fits changes no command whose bytes are others, as
\* long as a text or an array is not longer than its command.
THEOREM SetLeavesNeighbours == Spec => [][Fits(called') => LeavesNeighbours]_vars
<1>1. TypeOK /\ [Next]_vars => [Fits(called') => LeavesNeighbours]_vars
  <2> SUFFICES ASSUME TypeOK, Next, Fits(called'), mem' # mem,
                      NotLonger(called', Parsed(called', input')),
                      NEW d \in Commands, Cells(d) \cap Cells(called') = {}
               PROVE  Slice(d, mem') = Slice(d, mem)
    BY DEF LeavesNeighbours
  <2>1. PICK c \in Commands : get(c) \/ \E v \in Inputs \cup {output} : IsValue(v) /\ set(c, v)
    BY DEF Next
  <2>2. PICK v \in Inputs \cup {output} : IsValue(v) /\ set(c, v)
    BY <2>1 DEF get
  <2>3. Write(c, v)
    BY <2>2 DEF set, Reject, WritePanics, Mismatch
  <2>4. called' = c /\ input' = v /\ ValidValue(v)
    BY <2>2, SetIsValue DEF set, Called
  <2> QED BY <2>3, <2>4, OthersKept
<1> QED BY <1>1, TypeCorrect, PTL DEF Spec

\* So NeighboursKept holds of a device all of whose writable commands fit.
THEOREM NeighboursAreKept ==
  ASSUME \A c \in Commands : c.mode \in {"write", "read_write"} => Fits(c)
  PROVE  Spec => NeighboursKept
<1>1. TypeOK /\ [Next]_vars /\ [Fits(called') => LeavesNeighbours]_vars => [LeavesNeighbours]_vars
  <2> SUFFICES ASSUME TypeOK, Next, mem' # mem PROVE Fits(called')
    BY DEF LeavesNeighbours
  <2>1. PICK c \in Commands : get(c) \/ \E v \in Inputs \cup {output} : IsValue(v) /\ set(c, v)
    BY DEF Next
  <2>2. PICK v \in Inputs \cup {output} : IsValue(v) /\ set(c, v)
    BY <2>1 DEF get
  <2>3. Write(c, v) /\ called' = c
    BY <2>2 DEF set, Reject, WritePanics, Mismatch, Called
  <2> QED BY <2>3 DEF Write, Accepted
<1> QED BY <1>1, TypeCorrect, SetLeavesNeighbours, PTL DEF Spec, NeighboursKept

-----------------------------------------------------------------------------
(* What get returned, set again: numbers *)

\* Two numbers that differ by a multiple of a range.
Congruent(m, n, range) == \E q \in Int : m = n + q * range

\* The quotient and the rest of a number that is put together of them.
LEMMA QuotientAndRest ==
  ASSUME NEW q \in Int, NEW r \in Byte
  PROVE  (q * 256 + r) \div 256 = q /\ (q * 256 + r) % 256 = r
<1>1. r \in Int /\ 0 <= r /\ r < 256
  BY DEF Byte
<1> DEFINE m == q * 256 + r
<1>2. m \in Int
  BY <1>1
<1>3. m = (m \div 256) * 256 + (m % 256) /\ m % 256 \in 0..255 /\ m \div 256 \in Int
  <2> HIDE DEF m
  <2> QED BY <1>2, LowDigitOf
<1>4. m = q * 256 + r
  OBVIOUS
<1> HIDE DEF m
<1>5. m \div 256 = q
  <2> PICK k \in Int : k = m \div 256
    BY <1>3
  <2> PICK s \in 0..255 : s = m % 256
    BY <1>3
  <2> QED BY <1>1, <1>3, <1>4
<1>6. m % 256 = r
  BY <1>1, <1>3, <1>4, <1>5
<1> QED BY <1>5, <1>6 DEF m

\* A byte is the rest of its signed number.
LEMMA ByteOfSigned ==
  ASSUME NEW d \in Byte
  PROVE  /\ AsSigned(d, 1) \in Int /\ AsSigned(d, 1) % 256 = d
         /\ -128 <= AsSigned(d, 1) /\ AsSigned(d, 1) <= 127
<1>1. d \in Int /\ 0 <= d /\ d <= 255
  BY DEF Byte
<1>2. d % 256 = d /\ 256 \div 2 = 128
  BY <1>1
<1>3. AsSigned(d, 1) = IF d >= 128 THEN d - 256 ELSE d
  BY <1>2, Weights DEF AsSigned
<1>4. AsSigned(d, 1) \in -128..127
  BY <1>1, <1>3
<1>5. AsSigned(d, 1) % 256 = IF AsSigned(d, 1) < 0 THEN AsSigned(d, 1) + 256 ELSE AsSigned(d, 1)
  BY <1>4, SignedByte
<1>6. AsSigned(d, 1) % 256 = d
  BY <1>1, <1>3, <1>5
<1> QED BY <1>4, <1>6

\* The digits of a number that is put together of them.
LEMMA DigitsOf ==
  ASSUME NEW x \in Byte, NEW y \in Byte, NEW z \in Byte, NEW u \in Int
  PROVE  LET n == x + y * 256 + z * 65536 + u * 16777216
         IN  /\ n \in Int
             /\ Digit(n, 1) = x /\ Digit(n, 2) = y /\ Digit(n, 3) = z /\ Digit(n, 4) = u % 256
<1> DEFINE n == x + y * 256 + z * 65536 + u * 16777216
           b == u * 256 + z
           a == b * 256 + y
<1>1. x \in Int /\ y \in Int /\ z \in Int
  BY DEF Byte
<1>2. a \in Int /\ b \in Int /\ n = a * 256 + x
  BY <1>1
<1>3. n \div 256 = a /\ n % 256 = x
  <2> HIDE DEF n, a
  <2> QED BY <1>2, QuotientAndRest
<1>4. a \div 256 = b /\ a % 256 = y
  <2> HIDE DEF b
  <2> QED BY <1>2, QuotientAndRest
<1>5. b \div 256 = u /\ b % 256 = z
  BY QuotientAndRest
<1>6. n \in Int
  BY <1>1
<1> HIDE DEF n, a, b
<1>7. n \div 65536 = b /\ n \div 16777216 = u
  BY <1>3, <1>4, <1>5, <1>6, DivideTwice
<1>8. n \div 1 = n
  BY <1>6
<1>9. /\ Digit(n, 1) = (n \div 1) % 256 /\ Digit(n, 2) = (n \div 256) % 256
      /\ Digit(n, 3) = (n \div 65536) % 256 /\ Digit(n, 4) = (n \div 16777216) % 256
  BY Weights DEF Digit
<1>10. /\ Digit(n, 1) = x /\ Digit(n, 2) = y /\ Digit(n, 3) = z /\ Digit(n, 4) = u % 256
  BY <1>3, <1>4, <1>5, <1>7, <1>8, <1>9
<1> QED BY <1>6, <1>10 DEF n

\* How great a number of four digits is, or of those of them that are not zero.
LEMMA RangeOfDigits ==
  ASSUME NEW x \in Byte, NEW y \in Byte, NEW z \in Byte, NEW u \in Int, -128 <= u, u <= 127
  PROVE  LET n == x + y * 256 + z * 65536 + u * 16777216
         IN  /\ y = 0 /\ z = 0 /\ u = 0 => 0 <= n /\ n <= 255
             /\ z = 0 /\ u = 0 => 0 <= n /\ n <= 65535
             /\ -2147483648 <= n /\ n <= 2147483647
<1>1. /\ x \in Int /\ 0 <= x /\ x <= 255 /\ y \in Int /\ 0 <= y /\ y <= 255
      /\ z \in Int /\ 0 <= z /\ z <= 255
  BY DEF Byte
<1> QED BY <1>1

\* The bytes that a number is read of are those that are written for it.
LEMMA NumberEncoded ==
  ASSUME NEW c, NEW bytes \in Seq(Byte), Len(bytes) = Width(c.parameter), Len(bytes) # 0
  PROVE  LET n == Number(c, bytes)
         IN  /\ n \in Int /\ Encode(n, c.parameter) = bytes
             /\ Width(c.parameter) = 1 => 0 <= n /\ n <= 255
             /\ Width(c.parameter) = 2 => 0 <= n /\ n <= 65535
             /\ Width(c.parameter) = 4 => -2147483648 <= n /\ n <= 2147483647
<1> DEFINE high == HighByteFirst(c.parameter)
           w == Width(c.parameter)
           digit(i) == IF i > w THEN 0 ELSE bytes[IF high THEN w + 1 - i ELSE i]
           n == Number(c, bytes)
<1>1. w \in {1, 2, 4} /\ Len(bytes) = w
  BY Widths
<1>2. n = digit(1) + digit(2) * Weight[2] + digit(3) * Weight[3]
            + AsSigned(digit(4), 1) * Weight[4]
  <2> DEFINE k == IF Len(bytes) < 4 THEN Len(bytes) ELSE 4
             old(i) == IF i > k THEN 0 ELSE bytes[IF high THEN k + 1 - i ELSE Len(bytes) - k + i]
  <2>1. k = w
    <3> HIDE DEF w
    <3> QED BY <1>1
  <2>2. n = old(1) + old(2) * Weight[2] + old(3) * Weight[3] + AsSigned(old(4), 1) * Weight[4]
    BY DEF Number
  <2>3. ASSUME NEW i \in 1..4 PROVE old(i) = digit(i)
    <3>1. Len(bytes) - k + i = i
      <4> HIDE DEF k, w
      <4> QED BY <1>1, <2>1
    <3> HIDE DEF k, w, high
    <3> QED BY <2>1, <3>1
  <2> HIDE DEF old, digit, n
  <2> QED BY <2>2, <2>3
<1>12. /\ w = 1 => digit(2) = 0 /\ digit(3) = 0 /\ digit(4) = 0
       /\ w = 2 => digit(3) = 0 /\ digit(4) = 0
  <2> HIDE DEF w
  <2> QED OBVIOUS
<1>3. ASSUME NEW i \in 1..4 PROVE digit(i) \in Byte
  <2>1. CASE i > w
    <3> HIDE DEF w
    <3> QED BY <2>1 DEF Byte
  <2>2. CASE ~(i > w)
    <3> DEFINE place == IF high THEN w + 1 - i ELSE i
    <3>1. place \in 1..Len(bytes)
      <4> HIDE DEF w, high
      <4> QED BY <1>1, <2>2
    <3>2. digit(i) = bytes[place]
      BY <2>2
    <3> HIDE DEF place, digit
    <3> QED BY <3>1, <3>2, ElementOfSeq
  <2> QED BY <2>1, <2>2
<1>4. ASSUME NEW k \in 1..w
      PROVE  digit(IF high THEN w + 1 - k ELSE k) = bytes[k]
  <2> DEFINE i == IF high THEN w + 1 - k ELSE k
  <2>1. i \in 1..w /\ ~(i > w)
    <3> HIDE DEF w, high
    <3> QED BY <1>1
  <2>2. (IF high THEN w + 1 - i ELSE i) = k
    <3> HIDE DEF w, high
    <3> QED BY <1>1
  <2>3. digit(i) = bytes[IF high THEN w + 1 - i ELSE i]
    <3> HIDE DEF i
    <3> QED BY <2>1
  <2> HIDE DEF digit, i
  <2>4. digit(i) = bytes[k]
    BY <2>2, <2>3
  <2> QED BY <2>4 DEF i
<1> HIDE DEF digit
<1>5. /\ digit(1) \in Byte /\ digit(2) \in Byte /\ digit(3) \in Byte /\ digit(4) \in Byte
  BY <1>3
<1>6. /\ AsSigned(digit(4), 1) \in Int /\ AsSigned(digit(4), 1) % 256 = digit(4)
      /\ -128 <= AsSigned(digit(4), 1) /\ AsSigned(digit(4), 1) <= 127
  BY <1>5, ByteOfSigned
<1>7. /\ n \in Int
      /\ Digit(n, 1) = digit(1) /\ Digit(n, 2) = digit(2)
      /\ Digit(n, 3) = digit(3) /\ Digit(n, 4) = digit(4)
  <2> PICK x \in Byte, y \in Byte, z \in Byte, u \in Int :
         x = digit(1) /\ y = digit(2) /\ z = digit(3) /\ u = AsSigned(digit(4), 1)
    BY <1>5, <1>6
  <2>1. n = x + y * 256 + z * 65536 + u * 16777216
    BY <1>2, Weights
  <2> HIDE DEF n
  <2> QED BY <1>6, <2>1, DigitsOf
<1> HIDE DEF n
<1>8. \A i \in 1..4 : Digit(n, i) = digit(i)
  BY <1>7
<1>9. /\ Encode(n, c.parameter) \in Seq(Byte) /\ Len(Encode(n, c.parameter)) = w
      /\ \A k \in 1..w : Encode(n, c.parameter)[k] = Digit(n, IF high THEN w + 1 - k ELSE k)
  BY <1>7, EncodedBytes
<1>10. ASSUME NEW k \in 1..w PROVE Encode(n, c.parameter)[k] = bytes[k]
  <2> DEFINE i == IF high THEN w + 1 - k ELSE k
  <2>1. i \in 1..4
    <3> HIDE DEF w, high
    <3> QED BY <1>1
  <2>2. Digit(n, i) = digit(i)
    <3> HIDE DEF i
    <3> QED BY <1>8, <2>1
  <2> QED BY <1>4, <1>9, <2>2
<1>11. Encode(n, c.parameter) = bytes
  <2> HIDE DEF w
  <2> QED BY <1>1, <1>9, <1>10, SeqEqual
<1>13. /\ w = 1 => 0 <= n /\ n <= 255
       /\ w = 2 => 0 <= n /\ n <= 65535
       /\ w = 4 => -2147483648 <= n /\ n <= 2147483647
  <2>1. /\ w = 1 => digit(2) = 0 /\ digit(3) = 0 /\ AsSigned(digit(4), 1) = 0
        /\ w = 2 => digit(3) = 0 /\ AsSigned(digit(4), 1) = 0
    BY <1>12, NoSign
  <2>2. PICK x \in Byte, y \in Byte, z \in Byte, u \in Int :
          x = digit(1) /\ y = digit(2) /\ z = digit(3) /\ u = AsSigned(digit(4), 1)
    BY <1>5, <1>6
  <2> DEFINE sum == x + y * 256 + z * 65536 + u * 16777216
  <2>3. n = sum
    BY <1>2, <2>2, Weights
  <2>4. -128 <= u /\ u <= 127
    BY <1>6, <2>2
  <2>5. /\ y = 0 /\ z = 0 /\ u = 0 => 0 <= sum /\ sum <= 255
        /\ z = 0 /\ u = 0 => 0 <= sum /\ sum <= 65535
        /\ -2147483648 <= sum /\ sum <= 2147483647
    BY <2>4, RangeOfDigits
  <2>6. /\ w = 1 => y = 0 /\ z = 0 /\ u = 0
        /\ w = 2 => z = 0 /\ u = 0
    BY <2>1, <2>2
  <2> HIDE DEF n, w, sum
  <2> QED BY <2>3, <2>5, <2>6
<1> QED BY <1>7, <1>11, <1>13 DEF n

\* Multiples of the range of a word, or of a byte, are not in its digits.
LEMMA SameDigits ==
  ASSUME NEW n \in Int, NEW m \in Int
  PROVE  /\ Congruent(m, n, 65536) => Digit(m, 1) = Digit(n, 1) /\ Digit(m, 2) = Digit(n, 2)
         /\ Congruent(m, n, 256) => Digit(m, 1) = Digit(n, 1)
<1> DEFINE a == n \div 256
           x == n % 256
           b == a \div 256
           y == a % 256
<1>1. n = a * 256 + x /\ a = b * 256 + y /\ x \in Byte /\ y \in Byte /\ a \in Int /\ b \in Int
  BY LowDigitOf DEF Byte
<1>2. \A k \in Int : Digit(k, 1) = k % 256 /\ Digit(k, 2) = (k \div 256) % 256
  <2>1. \A k \in Int : k \div 1 = k
    OBVIOUS
  <2> QED BY <2>1, Weights DEF Digit
<1>3. Digit(n, 1) = x /\ Digit(n, 2) = y
  BY <1>2
<1> HIDE DEF a, b, x, y
<1>4. x \in Int /\ y \in Int
  BY <1>1 DEF Byte
<1>5. ASSUME NEW q \in Int, m = n + q * 65536
      PROVE  Digit(m, 1) = Digit(n, 1) /\ Digit(m, 2) = Digit(n, 2)
  <2> DEFINE c == a + q * 256
             d == b + q
  <2>1. c \in Int /\ d \in Int /\ c = d * 256 + y /\ m = c * 256 + x
    BY <1>1, <1>4, <1>5
  <2> HIDE DEF c, d
  <2>2. m \div 256 = c /\ m % 256 = x
    BY <1>1, <2>1, QuotientAndRest
  <2>3. c % 256 = y
    BY <1>1, <2>1, QuotientAndRest
  <2> QED BY <1>2, <1>3, <2>2, <2>3
<1>6. ASSUME NEW q \in Int, m = n + q * 256
      PROVE  Digit(m, 1) = Digit(n, 1)
  <2> DEFINE e == a + q
  <2>1. e \in Int /\ m = e * 256 + x
    BY <1>1, <1>4, <1>6
  <2> HIDE DEF e
  <2>2. m % 256 = x
    BY <1>1, <2>1, QuotientAndRest
  <2> QED BY <1>2, <1>3, <2>2
<1> QED BY <1>5, <1>6 DEF Congruent

\* A sign in the highest bit changes no digit.
LEMMA SignedEncoded ==
  ASSUME NEW n \in Int, NEW p, Width(p) \in {1, 2}
  PROVE  LET m == AsSigned(n, Width(p))
         IN  /\ m \in Int /\ Encode(m, p) = Encode(n, p)
             /\ Width(p) = 1 => -128 <= m /\ m <= 127
             /\ Width(p) = 2 => -32768 <= m /\ m <= 32767
<1> DEFINE w == Width(p)
           m == AsSigned(n, w)
           r == Weight[w + 1]
<1>1. r = IF w = 1 THEN 256 ELSE 65536
  <2> HIDE DEF w
  <2>1. w \in {1, 2}
    BY DEF w
  <2> QED BY <2>1, Weights
<1>2. m = IF n % r >= r \div 2 THEN (n % r) - r ELSE n % r
  BY DEF AsSigned
<1>3. PICK q \in Int : m = n + q * r
  <2>1. r \in {256, 65536}
    BY <1>1
  <2> HIDE DEF w, r, m
  <2>2. CASE r = 256
    <3>1. n = (n \div 256) * 256 + (n % 256) /\ n \div 256 \in Int /\ n % 256 \in Int
      OBVIOUS
    <3> PICK a \in Int, b \in Int : a = n \div 256 /\ b = n % 256
      BY <3>1
    <3>2. m = n + (-a) * 256 \/ m = n + (-a - 1) * 256
      BY <1>2, <2>2, <3>1
    <3> DEFINE s == -a
               u == -a - 1
    <3>3. s \in Int /\ u \in Int
      OBVIOUS
    <3>4. m = n + s * r \/ m = n + u * r
      BY <2>2, <3>2
    <3> HIDE DEF s, u
    <3> QED BY <3>3, <3>4
  <2>3. CASE r = 65536
    <3>1. n = (n \div 65536) * 65536 + (n % 65536) /\ n \div 65536 \in Int /\ n % 65536 \in Int
      OBVIOUS
    <3> PICK a \in Int, b \in Int : a = n \div 65536 /\ b = n % 65536
      BY <3>1
    <3>2. m = n + (-a) * 65536 \/ m = n + (-a - 1) * 65536
      BY <1>2, <2>3, <3>1
    <3> DEFINE s == -a
               u == -a - 1
    <3>3. s \in Int /\ u \in Int
      OBVIOUS
    <3>4. m = n + s * r \/ m = n + u * r
      BY <2>3, <3>2
    <3> HIDE DEF s, u
    <3> QED BY <3>3, <3>4
  <2> QED BY <2>1, <2>2, <2>3
<1>4. /\ w = 1 => -128 <= m /\ m <= 127
      /\ w = 2 => -32768 <= m /\ m <= 32767
  <2> HIDE DEF w, r, m
  <2>2. 256 \div 2 = 128 /\ 65536 \div 2 = 32768
    OBVIOUS
  <2>3. CASE w = 1
    <3> DEFINE a == n % 256
    <3>1. m = IF a >= 128 THEN a - 256 ELSE a
      BY <1>1, <1>2, <2>2, <2>3
    <3>2. a \in 0..255
      BY LowDigitOf
    <3> HIDE DEF a
    <3>3. -128 <= m /\ m <= 127
      BY <3>1, <3>2
    <3> QED BY <2>3, <3>3
  <2>4. CASE w = 2
    <3> DEFINE a == n % 65536
    <3>1. m = IF a >= 32768 THEN a - 65536 ELSE a
      BY <1>1, <1>2, <2>2, <2>4
    <3>2. a \in Int /\ 0 <= a /\ a < 65536
      BY LowWordOf
    <3> HIDE DEF a
    <3>3. -32768 <= m /\ m <= 32767
      BY <3>1, <3>2
    <3> QED BY <2>4, <3>3
  <2>5. CASE w \notin {1, 2}
    BY <2>5
  <2> QED BY <2>3, <2>4, <2>5
<1>5. m \in Int
  <2>1. r \in Int
    BY <1>1
  <2> HIDE DEF m, r
  <2> QED BY <1>3, <2>1
<1>6. \A k \in 1..w : Digit(m, k) = Digit(n, k)
  <2>1. w \in {1, 2}
    OBVIOUS
  <2> HIDE DEF m, w, r
  <2>2. CASE w = 1
    <3>1. m = n + q * 256
      BY <1>1, <1>3, <2>2
    <3>2. Digit(m, 1) = Digit(n, 1)
      BY <1>5, <3>1, SameDigits DEF Congruent
    <3> QED BY <2>2, <3>2
  <2>3. CASE w = 2
    <3>1. m = n + q * 65536
      BY <1>1, <1>3, <2>3
    <3>2. Digit(m, 1) = Digit(n, 1) /\ Digit(m, 2) = Digit(n, 2)
      BY <1>5, <3>1, SameDigits DEF Congruent
    <3>3. \A k \in 1..2 : k = 1 \/ k = 2
      OBVIOUS
    <3> QED BY <2>3, <3>2, <3>3
  <2> QED BY <2>1, <2>2, <2>3
<1>7. Encode(m, p) = Encode(n, p)
  <2> HIDE DEF m
  <2>1. \A k \in 1..w : (IF HighByteFirst(p) THEN w + 1 - k ELSE k) \in 1..w
    <3>1. w \in {1, 2}
      OBVIOUS
    <3> HIDE DEF w
    <3> QED BY <3>1
  <2>2. /\ Encode(m, p) \in Seq(Byte) /\ Len(Encode(m, p)) = w
        /\ \A k \in 1..w : Encode(m, p)[k] = Digit(m, IF HighByteFirst(p) THEN w + 1 - k ELSE k)
    BY <1>5, EncodedBytes
  <2>3. /\ Encode(n, p) \in Seq(Byte) /\ Len(Encode(n, p)) = w
        /\ \A k \in 1..w : Encode(n, p)[k] = Digit(n, IF HighByteFirst(p) THEN w + 1 - k ELSE k)
    BY EncodedBytes
  <2> HIDE DEF w
  <2>4. \A k \in 1..w : Encode(m, p)[k] = Encode(n, p)[k]
    BY <1>6, <2>1, <2>2, <2>3
  <2> QED BY <2>2, <2>3, <2>4, SeqEqual
<1> QED BY <1>4, <1>5, <1>7 DEF m

\* The number of a Double that was read is one that is written as it is, with
\* the bytes it was read of.
LEMMA DoubleRead ==
  ASSUME NEW c \in Commands, Invertible(c), c.data_type = "Double", Width(c.parameter) # 0,
         NEW bytes \in Seq(Byte), Len(bytes) = c.byte_len
  PROVE  \E m \in Int : /\ Numeric(c, bytes) = Value("Double", Scale * m, << >>)
                        /\ Saturated(m, c.parameter) = m
                        /\ Encode(m, c.parameter) = bytes
<1> DEFINE p == c.parameter
           w == Width(p)
           n == Number(c, bytes)
           m == IF Signed(p) /\ w < 4 THEN AsSigned(n, w) ELSE n
<1>1. /\ w \in {1, 2, 4} /\ Len(bytes) = w /\ Len(bytes) # 0 /\ c.bit_len = 0
      /\ w = 4 => Signed(p)
  BY Widths DEF Invertible, Faithful
<1>2. /\ n \in Int /\ Encode(n, p) = bytes
      /\ w = 1 => 0 <= n /\ n <= 255
      /\ w = 2 => 0 <= n /\ n <= 65535
      /\ w = 4 => -2147483648 <= n /\ n <= 2147483647
  BY <1>1, NumberEncoded
<1>3. Numeric(c, bytes) = Value("Double", Scale * m, << >>)
  <2>1. Numeric(c, bytes) = Number2Value(c, n)
    BY <1>1 DEF Numeric
  <2>2. Number2Value(c, n) = Value("Double", Scale * m, << >>)
    BY DEF Number2Value
  <2> QED BY <2>1, <2>2
<1>4. Top(p) = IF w = 1 THEN 127 ELSE IF w = 2 THEN 32767 ELSE 2147483647
  BY DEF Top
<1> HIDE DEF n
<1>5. CASE Signed(p) /\ w < 4
  <2>1. Width(p) \in {1, 2}
    <3>1. w \in {1, 2}
      <4> HIDE DEF w
      <4> QED BY <1>1, <1>5
    <3> QED BY <3>1
  <2>2. m = AsSigned(n, Width(p))
    BY <1>5
  <2> HIDE DEF m
  <2>3. /\ m \in Int /\ Encode(m, p) = Encode(n, p)
        /\ w = 1 => -128 <= m /\ m <= 127
        /\ w = 2 => -32768 <= m /\ m <= 32767
    BY <1>2, <2>1, <2>2, SignedEncoded
  <2>4. -Top(p) - 1 <= m /\ m <= Top(p) /\ Top(p) \in Int
    <3> HIDE DEF w
    <3>1. w \in {1, 2}
      BY <2>1 DEF w
    <3> QED BY <1>4, <2>3, <3>1
  <2>5. Saturated(m, p) = m
    <3>1. Least(p) = -Top(p) - 1 /\ (Exceeds(m, p) <=> m > Top(p))
      BY <1>5 DEF Least, Exceeds
    <3>2. ~(m < Least(p)) /\ ~Exceeds(m, p)
      BY <2>3, <2>4, <3>1
    <3> QED BY <3>2 DEF Saturated
  <2> QED BY <1>2, <1>3, <2>3, <2>5
<1>6. CASE Signed(p) /\ w = 4
  <2>1. m = n
    <3> HIDE DEF w
    <3> QED BY <1>6
  <2>2. -Top(p) - 1 <= n /\ n <= Top(p) /\ Top(p) \in Int
    <3> HIDE DEF w
    <3> QED BY <1>2, <1>4, <1>6
  <2>3. Saturated(n, p) = n
    <3>1. Least(p) = -Top(p) - 1 /\ (Exceeds(n, p) <=> n > Top(p))
      BY <1>6 DEF Least, Exceeds
    <3>2. ~(n < Least(p)) /\ ~Exceeds(n, p)
      BY <1>2, <2>2, <3>1
    <3> QED BY <3>2 DEF Saturated
  <2> HIDE DEF m
  <2> QED BY <1>2, <1>3, <2>1, <2>3
<1>7. CASE ~Signed(p)
  <2>1. m = n
    BY <1>7
  <2>2. 0 <= n /\ n <= 2 * Top(p) + 1 /\ Top(p) \in Int
    <3> HIDE DEF w
    <3> QED BY <1>1, <1>2, <1>4, <1>7
  <2>3. Saturated(n, p) = n
    <3>1. Least(p) = 0 /\ (Exceeds(n, p) <=> n \div 2 > Top(p))
      BY <1>7 DEF Least, Exceeds
    <3>2. ~(n < Least(p)) /\ ~Exceeds(n, p)
      BY <1>2, <2>2, <3>1
    <3> QED BY <3>2 DEF Saturated
  <2> HIDE DEF m
  <2> QED BY <1>2, <1>3, <2>1, <2>3
<1>8. Signed(p) /\ ~(w < 4) => w = 4
  <2> HIDE DEF w
  <2> QED BY <1>1
<1> QED BY <1>5, <1>6, <1>7, <1>8

\* So is the number of an Int or a Byte.
LEMMA IntRead ==
  ASSUME NEW c \in Commands, Invertible(c), c.data_type \in {"Int", "Byte"},
         Width(c.parameter) # 0, NEW bytes \in Seq(Byte), Len(bytes) = c.byte_len
  PROVE  \E n \in Int : /\ Numeric(c, bytes) = Value("Int", n, << >>)
                        /\ Encode(n, c.parameter) = bytes
<1> DEFINE w == Width(c.parameter)
           n == Number(c, bytes)
<1>1. /\ w \in {1, 2, 4} /\ Len(bytes) = w /\ Len(bytes) # 0 /\ c.bit_len = 0
      /\ c.data_type = "Byte" => w = 1
  BY Widths DEF Invertible, Faithful
<1>2. /\ n \in Int /\ Encode(n, c.parameter) = bytes
      /\ w = 1 => 0 <= n /\ n <= 255
  BY <1>1, NumberEncoded
<1>3. Numeric(c, bytes) = Number2Value(c, n)
  BY <1>1 DEF Numeric
<1>4. c.data_type = "Byte" => n % 256 = n
  <2> HIDE DEF n, w
  <2> QED BY <1>1, <1>2
<1>5. Number2Value(c, n) = Value("Int", n, << >>)
  <2>1. CASE c.data_type = "Byte"
    <3>1. Number2Value(c, n) = Value("Int", n % 256, << >>)
      BY <1>1, <2>1 DEF Number2Value
    <3> QED BY <1>4, <2>1, <3>1
  <2>2. CASE c.data_type = "Int"
    BY <2>2 DEF Number2Value
  <2> QED BY <2>1, <2>2
<1> HIDE DEF n
<1> QED BY <1>2, <1>3, <1>5

\* A whole number that is converted without a rest is converted back.
LEMMA ConversionUndone ==
  ASSUME NEW m \in Int, NEW num \in Nat \ {0}, NEW den \in Nat \ {0}, (Scale * num) % den = 0
  PROVE  /\ ((Scale * m) * num) \div den \in Int
         /\ ((((Scale * m) * num) \div den) * den) \div num = Scale * m
<1> DEFINE j == (Scale * num) \div den
           k == ((Scale * m) * num) \div den
<1>1. Scale * num \in Int
  BY DEF Scale
<1>2. j * den = Scale * num /\ j \in Int
  <2>1. j \in Int
    BY <1>1
  <2> QED BY <1>1, <2>1, Exact
<1> HIDE DEF j
<1>3. (Scale * m) * num = (m * j) * den
  <2>1. (Scale * m) * num = m * (Scale * num)
    BY DEF Scale
  <2>2. m * (j * den) = (m * j) * den
    BY <1>2
  <2> QED BY <1>2, <2>1, <2>2
<1>4. m * j \in Int /\ Scale * m \in Int
  BY <1>2 DEF Scale
<1>5. k = m * j
  BY <1>3, <1>4, Multiple
<1> HIDE DEF k
<1>6. k * den = (Scale * m) * num /\ k \in Int
  BY <1>3, <1>4, <1>5
<1>7. ((Scale * m) * num) \div num = Scale * m
  BY <1>4, Multiple
<1> QED BY <1>6, <1>7 DEF k

\* What set writes of an encoded number.
LEMMA NumberBytes ==
  ASSUME NEW c, NEW n \in Int
  PROVE  /\ Bytes(c, Value("Int", n, << >>)) = Encode(n, c.parameter)
         /\ Bytes(c, Value("Double", Scale * n, << >>)) =
              Encode(Saturated(n, c.parameter), c.parameter)
<1>1. Bytes(c, Value("Int", n, << >>)) = Encode(n, c.parameter)
  BY Fields DEF Bytes
<1>2. Bytes(c, Value("Double", Scale * n, << >>)) =
        Encode(Saturated(Truncated(Scale * n), c.parameter), c.parameter)
  BY Fields DEF Bytes
<1>3. Truncated(Scale * n) = n
  <2> DEFINE s == Scale * n
  <2>1. s \in Int /\ s % Scale = 0 /\ s = 100 * n
    BY DEF Scale
  <2> HIDE DEF s
  <2>2. Scale * Truncated(s) = s /\ Truncated(s) \in Int
    BY <2>1, Whole
  <2>3. Truncated(s) = n
    <3> HIDE DEF Truncated
    <3> QED BY <2>1, <2>2 DEF Scale
  <2> QED BY <2>3 DEF s
<1> QED BY <1>1, <1>2, <1>3

\* A number without a value is none after a conversion either.
LEMMA PanicConverted == \A conv : convert(Panic, conv) = Panic
  BY Fields DEF convert, Panic

\* A Double that was read is set to the bytes it was read of.
LEMMA DoubleRestored ==
  ASSUME NEW c \in Commands, Invertible(c), c.data_type = "Double", Width(c.parameter) # 0,
         NEW bytes \in Seq(Byte), Len(bytes) = c.byte_len
  PROVE  LET v == convert(Numeric(c, bytes), c.conversion)
         IN  /\ v.t = "Double"
             /\ Prepared(c, v).t = "Double" /\ Bytes(c, Prepared(c, v)) = bytes
<1> DEFINE conv == c.conversion
<1>1. PICK m \in Int : /\ Numeric(c, bytes) = Value("Double", Scale * m, << >>)
                       /\ Saturated(m, c.parameter) = m /\ Encode(m, c.parameter) = bytes
  BY DoubleRead
<1> DEFINE u == Value("Double", Scale * m, << >>)
           v == convert(u, conv)
           k == ((Scale * m) * conv.num) \div conv.den
<1>2. u.t = "Double" /\ u.n = Scale * m /\ Bytes(c, u) = bytes
  BY <1>1, Fields, NumberBytes
<1>3. v.t = "Double" /\ Prepared(c, v) = u
  <2>1. CASE conv.kind = "none"
    <3>1. v = u
      BY <1>2, <2>1 DEF convert
    <3> HIDE DEF v, u
    <3>2. Prepared(c, u) = u
      BY <1>2, <2>1, PreparedFirst
    <3> QED BY <1>2, <3>1, <3>2
  <2>2. CASE conv.kind # "none"
    <3>1. conv.kind \in {"scale", "offset"} /\ (Scale * conv.num) % conv.den = 0
      BY <2>2 DEF Invertible
    <3>2. conv.num \in Nat \ {0} /\ conv.den \in Nat \ {0}
      BY CommandType
    <3>3. (k * conv.den) \div conv.num = Scale * m
      BY <3>1, <3>2, ConversionUndone
    <3>4. v = [u EXCEPT !.n = k]
      BY <1>2, <3>1 DEF convert
    <3>5. v = Value("Double", k, << >>)
      BY <3>4, OtherNumber
    <3> HIDE DEF v, u, k
    <3>6. v.t = "Double" /\ v.n = k
      BY <3>5, Fields
    <3>7. convert_back(v, conv) = Value("Double", (k * conv.den) \div conv.num, << >>)
      BY <3>1, <3>6 DEF convert_back
    <3>8. convert_back(v, conv) = u
      BY <3>3, <3>7 DEF u
    <3>9. Prepared(c, v) = u
      BY <2>2, <3>6, <3>8, PreparedFirst
    <3> QED BY <3>6, <3>9
  <2> QED BY <2>1, <2>2
<1> HIDE DEF v, u
<1>4. v.t = "Double" /\ Prepared(c, v).t = "Double" /\ Bytes(c, Prepared(c, v)) = bytes
  BY <1>2, <1>3
<1> QED BY <1>1, <1>4 DEF v, u

\* So is an Int or a Byte.
LEMMA IntRestored ==
  ASSUME NEW c \in Commands, Invertible(c), c.data_type \in {"Int", "Byte"},
         Width(c.parameter) # 0, NEW bytes \in Seq(Byte), Len(bytes) = c.byte_len
  PROVE  LET v == convert(Numeric(c, bytes), c.conversion)
         IN  /\ v.t = "Int"
             /\ Prepared(c, v).t = "Int" /\ Bytes(c, Prepared(c, v)) = bytes
<1> DEFINE conv == c.conversion
<1>1. PICK n \in Int : /\ Numeric(c, bytes) = Value("Int", n, << >>)
                       /\ Encode(n, c.parameter) = bytes
  BY IntRead
<1> DEFINE u == Value("Int", n, << >>)
           v == convert(u, conv)
           k == n * conv.num
<1>2. u.t = "Int" /\ u.n = n /\ Bytes(c, u) = bytes
  BY <1>1, Fields, NumberBytes
<1>3. v.t = "Int" /\ Prepared(c, v) = u
  <2>1. CASE conv.kind = "none"
    <3>1. v = u
      BY <1>2, <2>1 DEF convert
    <3> HIDE DEF v, u
    <3>2. Prepared(c, u) = u
      BY <1>2, <2>1, PreparedFirst
    <3> QED BY <1>2, <3>1, <3>2
  <2>2. CASE conv.kind # "none"
    <3>1. c.data_type = "Int" /\ conv.kind = "offset" /\ conv.den = 1
      BY <2>2 DEF Invertible, Faithful
    <3>2. conv.num \in Nat \ {0}
      BY CommandType
    <3>3. v = [u EXCEPT !.n = k]
      BY <1>2, <3>1 DEF convert
    <3>4. v = Value("Int", k, << >>)
      BY <3>3, OtherNumber
    <3> DEFINE back == ((k * Scale) * conv.den) \div conv.num
               s == n * Scale
    <3>5. back = s /\ s \in Int
      <4>1. s \in Int
        BY DEF Scale
      <4>2. (k * Scale) * conv.den = s * conv.num
        BY <3>1, <3>2 DEF Scale
      <4> HIDE DEF s, k
      <4>3. (s * conv.num) \div conv.num = s
        BY <3>2, <4>1, Multiple
      <4> QED BY <4>1, <4>2, <4>3
    <3>6. s % Scale = 0 /\ s \div Scale = n
      BY DEF Scale
    <3> HIDE DEF v, u, k, back, s
    <3>7. v.t = "Int" /\ v.n = k
      BY <3>4, Fields
    <3>8. convert_back(v, conv) = Value("Double", back, << >>)
      BY <3>1, <3>7 DEF convert_back, back
    <3>9. convert_back(v, conv).t = "Double" /\ convert_back(v, conv).n = s
      BY <3>5, <3>8, Fields
    <3>10. Prepared(c, v) = Value("Int", convert_back(v, conv).n \div Scale, << >>)
      BY <2>2, <3>1, <3>6, <3>7, <3>9, PreparedFirst
    <3>11. Prepared(c, v) = u
      BY <3>6, <3>9, <3>10 DEF u
    <3> QED BY <3>7, <3>11
  <2> QED BY <2>1, <2>2
<1> HIDE DEF v, u
<1>4. v.t = "Int" /\ Prepared(c, v).t = "Int" /\ Bytes(c, Prepared(c, v)) = bytes
  BY <1>2, <1>3
<1> QED BY <1>1, <1>4 DEF v, u

\* A number that was read is set to the bytes it was read of.
LEMMA NumberRestored ==
  ASSUME NEW c \in Commands, Invertible(c), c.data_type \in {"Int", "Byte", "Double"},
         NEW bytes \in Seq(Byte), Len(bytes) = c.byte_len,
         IsValue(convert(Unconverted(c, bytes), c.conversion))
  PROVE  LET v == convert(Unconverted(c, bytes), c.conversion)
         IN  /\ ~Panics(c, v) /\ Matches(c, Prepared(c, v))
             /\ Bytes(c, Prepared(c, v)) = bytes
<1> DEFINE v == convert(Unconverted(c, bytes), c.conversion)
           raw == Prepared(c, v)
<1>1. Unconverted(c, bytes) = Numeric(c, bytes)
  BY NumberUnconverted
<1>2. Width(c.parameter) # 0
  <2> SUFFICES ASSUME Width(c.parameter) = 0 PROVE FALSE
    OBVIOUS
  <2>1. Numeric(c, bytes) = Panic
    BY DEF Numeric, Number2Value, Invertible, Faithful
  <2>2. v = Panic
    BY <1>1, <2>1, PanicConverted
  <2>3. Panic.t = "Panic"
    BY Fields DEF Panic
  <2> QED BY <2>2, <2>3 DEF IsValue
<1>3. /\ raw.t = IF c.data_type = "Double" THEN "Double" ELSE "Int"
      /\ Bytes(c, raw) = bytes
  <2>1. CASE c.data_type = "Double"
    BY <1>1, <1>2, <2>1, DoubleRestored
  <2>2. CASE c.data_type \in {"Int", "Byte"}
    BY <1>1, <1>2, <2>2, IntRestored
  <2> QED BY <2>1, <2>2
<1> HIDE DEF raw
<1>4. Matches(c, raw)
  BY <1>3 DEF Matches
<1>5. raw # Err
  <2>1. Err.t = "Err"
    BY Fields DEF Err
  <2> QED BY <1>3, <2>1
<1>6. ~Panics(c, v)
  BY <1>2, <1>3, <1>5 DEF Panics, raw
<1> QED BY <1>3, <1>4, <1>6 DEF raw

-----------------------------------------------------------------------------
(* What get returned, set again: texts, dates and times *)

\* A text is the beginning of the bytes it is read of.
LEMMA TerminatedPrefix ==
  ASSUME NEW bytes \in Seq(Byte)
  PROVE  LET b == Terminated(bytes)
         IN  /\ b \in Seq(Byte) /\ Len(b) <= Len(bytes)
             /\ \A i \in 1..Len(b) : b[i] = bytes[i]
<1> DEFINE zeros == {i \in 1..Len(bytes) : bytes[i] = 0}
           least == CHOOSE i \in zeros : \A k \in zeros : i <= k
<1>1. CASE zeros = {}
  BY <1>1 DEF Terminated
<1>2. CASE zeros # {}
  <2>1. zeros \in SUBSET Nat
    OBVIOUS
  <2>2. \E i \in zeros : \A k \in zeros : i <= k
    <3> HIDE DEF zeros
    <3> QED BY <1>2, <2>1, LeastNumber
  <2>3. least \in zeros
    <3> HIDE DEF zeros
    <3> QED BY <2>2
  <2>4. least \in 1..Len(bytes)
    <3> HIDE DEF least
    <3> QED BY <2>3
  <2>5. Terminated(bytes) = SubSeq(bytes, 1, least - 1)
    BY <1>2 DEF Terminated
  <2> HIDE DEF least
  <2> DEFINE n == least - 1
             b == SubSeq(bytes, 1, n)
  <2>6. n \in Nat /\ n <= Len(bytes) /\ Len(bytes) \in Nat
    BY <2>4
  <2> HIDE DEF n
  <2>7. b \in Seq(Byte) /\ Len(b) = n /\ \A i \in 1..n : b[i] = bytes[i]
    <3>1. /\ b \in Seq(Byte) /\ Len(b) = IF 1 <= n THEN n - 1 + 1 ELSE 0
          /\ \A i \in 1..Len(b) : b[i] = bytes[1 + i - 1]
      BY <2>6, PartType
    <3> HIDE DEF b
    <3>2. Len(b) = n
      BY <2>6, <3>1
    <3>3. ASSUME NEW i \in 1..n PROVE b[i] = bytes[i]
      <4>1. 1 + i - 1 = i
        BY <2>6
      <4> QED BY <3>1, <3>2, <4>1
    <3> QED BY <3>1, <3>2, <3>3
  <2> HIDE DEF b
  <2> QED BY <2>5, <2>6, <2>7 DEF b, n
<1> QED BY <1>1, <1>2

\* A text or an array that was read is set to the beginning of its bytes.
LEMMA TextRestored ==
  ASSUME NEW c \in Commands, Invertible(c), c.data_type \in {"ByteArray", "String"},
         NEW bytes \in Seq(Byte), IsValue(convert(Unconverted(c, bytes), c.conversion))
  PROVE  LET v == convert(Unconverted(c, bytes), c.conversion)
             b == Bytes(c, Prepared(c, v))
         IN  /\ ~Panics(c, v) /\ Matches(c, Prepared(c, v))
             /\ b \in Seq(Byte) /\ Len(b) <= Len(bytes)
             /\ \A i \in 1..Len(b) : b[i] = bytes[i]
<1> DEFINE u == Unconverted(c, bytes)
           v == convert(u, c.conversion)
<1>1. c.conversion.kind = "none"
  BY DEF Invertible
<1>2. v = u /\ IsValue(u)
  BY <1>1 DEF convert
<1>3. PICK b \in Seq(Byte) : /\ u = Value(c.data_type, 0, b)
                             /\ Len(b) <= Len(bytes) /\ \A i \in 1..Len(b) : b[i] = bytes[i]
  <2>1. CASE c.data_type = "ByteArray"
    <3>1. u = Value("ByteArray", 0, bytes)
      BY <2>1 DEF Unconverted, FixedLength
    <3> HIDE DEF u
    <3>2. Len(bytes) <= Len(bytes)
      OBVIOUS
    <3> QED BY <2>1, <3>1, <3>2
  <2>2. CASE c.data_type = "String"
    <3>1. u = Value("String", 0, Terminated(bytes)) \/ u = Err
      BY <2>2 DEF Unconverted, FixedLength
    <3> HIDE DEF u
    <3>2. u # Err
      <4>1. Err.t = "Err"
        BY Fields DEF Err
      <4> QED BY <1>2, <4>1 DEF IsValue
    <3> QED BY <2>2, <3>1, <3>2, TerminatedPrefix
  <2> QED BY <2>1, <2>2
<1> HIDE DEF u
<1>4. u.t = c.data_type /\ u.b = b
  BY <1>3, Fields
<1>5. Parsed(c, u) = u
  <2>1. u.b \in DOMAIN Texts => Texts[u.b].t \in {"Date", "DateTime"}
    BY CommandAssumption
  <2> QED BY <2>1 DEF Parsed
<1>6. Prepared(c, v) = u
  BY <1>1, <1>2, <1>4, <1>5 DEF Prepared
<1> HIDE DEF v
<1>7. Matches(c, u)
  BY <1>4 DEF Matches
<1>8. ~Panics(c, v)
  BY <1>1, <1>4, <1>6 DEF Panics
<1>9. Bytes(c, u) = b
  BY <1>4 DEF Bytes
<1> QED BY <1>3, <1>6, <1>7, <1>8, <1>9 DEF u, v

\* The century of a year of four digits fits a byte in BCD.
LEMMA FourDigitsEncodable == \A date : date[1] \in FourDigits => Encodable(date)
<1> SUFFICES ASSUME NEW date, date[1] \in FourDigits PROVE Encodable(date)
  OBVIOUS
<1>0. \A y \in FourDigits : y \in Nat /\ y < 10000
  BY SMTT(30) DEF FourDigits
<1> PICK y \in Nat : y = date[1] /\ y < 10000
  BY <1>0
<1>1. y \div 100 \in 0..99
  BY Centuries
<1>2. (y \div 100) % 256 = y \div 100
  BY <1>1, NoWrap
<1>3. (y \div 100) % 256 < 160
  BY <1>1, <1>2
<1> QED BY <1>3 DEF Encodable, Century

\* A date, an error or switching times that have a representation can be set,
\* and are read again.
LEMMA DatedRestored ==
  ASSUME NEW c \in Commands, Invertible(c), c.data_type \in Dated,
         NEW bytes \in Seq(Byte), IsValue(convert(Unconverted(c, bytes), c.conversion)),
         Representable(c, convert(Unconverted(c, bytes), c.conversion))
  PROVE  LET v == convert(Unconverted(c, bytes), c.conversion)
         IN  /\ ~Panics(c, v) /\ Matches(c, Prepared(c, v))
             /\ ValidValue(v) /\ v.t = c.data_type
             /\ parse_value(c, Bytes(c, Prepared(c, v))) = v
             /\ Len(Bytes(c, Prepared(c, v))) = c.byte_len
<1> DEFINE u == Unconverted(c, bytes)
           v == convert(u, c.conversion)
<1>1. c.conversion.kind = "none" /\ Faithful(c)
  BY DEF Invertible, Dated
<1>2. v = u /\ IsValue(u) /\ Representable(c, u)
  BY <1>1 DEF convert
<1>3. u = Structured(c, bytes) /\ ValidValue(u)
  <2>1. c.data_type \in DOMAIN FixedLength
    BY DEF Dated, FixedLength
  <2>2. u = Structured(c, bytes)
    BY <2>1 DEF Unconverted, FixedLength
  <2>3. ValidValue(u)
    BY UnconvertedResult DEF Result
  <2> QED BY <2>2, <2>3
<1>4. u.t = c.data_type
  <2>1. Err.t = "Err" /\ Panic.t = "Panic"
    BY Fields DEF Err, Panic
  <2>2. u \notin {Err, Panic}
    <3> HIDE DEF u
    <3> QED BY <1>2, <2>1 DEF IsValue
  <2>3. u \in {Err, Panic} \/ \E b : u = Value(c.data_type, 0, b)
    <3> HIDE DEF u
    <3> QED BY <1>3 DEF Structured
  <2> HIDE DEF u
  <2> QED BY <2>2, <2>3, Fields
<1> HIDE DEF u
<1>5. u.t \in {"Date", "DateTime", "Error", "CircuitTimes"}
  BY <1>4 DEF Dated
<1>6. Parsed(c, u) = u /\ Prepared(c, u) = u
  <2>1. Parsed(c, u) = u
    BY <1>5, NoText
  <2>2. c.data_type # "Int"
    BY <1>4, <1>5
  <2> QED BY <1>1, <2>1, <2>2 DEF Prepared
<1>7. Matches(c, u)
  BY <1>4, <1>5 DEF Matches
<1>8. u.t \in {"Date", "DateTime"} => Encodable(u.b)
  <2> SUFFICES ASSUME u.t \in {"Date", "DateTime"} PROVE Encodable(u.b)
    OBVIOUS
  <2>1. u.b[1] \in Nat
    <3>1. CASE u.t = "Date"
      <4>1. u.b \in Seq(Nat) /\ Len(u.b) = 3
        BY <1>3, <3>1, OtherValue
      <4> QED BY <4>1, ThreeOf
    <3>2. CASE u.t = "DateTime"
      <4>1. u.b \in Seq(Nat) /\ Len(u.b) = 6
        BY <1>3, <3>2, OtherValue DEF IsDateTime
      <4> QED BY <4>1, SixOf
    <3> QED BY <3>1, <3>2
  <2>2. u.b[1] \in FourDigits
    BY <1>2, <2>1, YearOfFourDigits DEF Representable
  <2> QED BY <2>2, FourDigitsEncodable
<1>9. u.t = "Error" /\ Len(u.b) > 1 => Encodable(Tail(u.b))
  <2> SUFFICES ASSUME u.t = "Error", Len(u.b) > 1 PROVE Encodable(Tail(u.b))
    OBVIOUS
  <2>1. u.b # << 0 >>
    <3>1. Len(<< 0 >>) = 1 /\ ~(1 > 1)
      OBVIOUS
    <3> DEFINE b == u.b
    <3>2. Len(b) > 1
      OBVIOUS
    <3> HIDE DEF b
    <3>3. b # << 0 >>
      BY <3>1, <3>2
    <3> QED BY <3>3 DEF b
  <2>2. u.b \in Seq(Nat) /\ Len(u.b) = 7
    BY <1>3, <2>1, OtherValue
  <2>3. /\ Tail(u.b) \in Seq(Nat) /\ Len(Tail(u.b)) = 6 /\ Tail(u.b)[1] = u.b[2]
    BY <2>2, FirstAndRest
  <2>4. u.b[2] \in Nat
    BY <2>3, SixOf
  <2>5. u.b[2] \in FourDigits
    BY <1>2, <2>4, YearOfFourDigits DEF Representable
  <2> QED BY <2>3, <2>5, FourDigitsEncodable
<1>10. ~Panics(c, u)
  BY <1>1, <1>5, <1>6, <1>8, <1>9 DEF Panics
<1>11. parse_value(c, Bytes(c, Prepared(c, u))) = u
  BY <1>1, <1>2, <1>3, <1>5, <1>6, <1>7, <1>10, OthersParsed
<1>12. Len(Bytes(c, Prepared(c, u))) = c.byte_len
  BY <1>1, <1>2, <1>3, <1>5, <1>6, <1>7, <1>10, OthersBack
<1> HIDE DEF v
<1>13. ~Panics(c, v) /\ Matches(c, Prepared(c, v)) /\ ValidValue(v) /\ v.t = c.data_type
  BY <1>2, <1>3, <1>4, <1>6, <1>7, <1>10
<1> QED BY <1>2, <1>11, <1>12, <1>13 DEF u, v

\* Writing the beginning of what a command's bytes are leaves the memory as it is.
LEMMA NothingWritten ==
  ASSUME NEW c \in Commands, c.byte_pos = 0, NEW m, IsMemory(m), NEW b \in Seq(Byte),
         Len(b) <= c.byte_len, \A i \in 1..Len(b) : b[i] = Slice(c, m)[i]
  PROVE  Written(m, c.addr, b) = m
<1> DEFINE w == Written(m, c.addr, b)
<1>1. c.addr \in Nat /\ c.addr > 0 /\ c.addr \in Nat \ {0} /\ c.byte_len \in Nat
  BY CommandType
<1>2. m \in Seq(Byte) /\ Len(b) \in Nat /\ Len(m) \in Nat
  BY DEF IsMemory
<1>3. /\ w \in Seq(Byte) /\ Len(w) = Len(m)
      /\ \A i \in 1..Len(m) :
           w[i] = IF i \in c.addr..(c.addr + Len(b) - 1) THEN b[i - c.addr + 1] ELSE m[i]
  <2> DEFINE a == c.addr
  <2>1. a \in Nat \ {0}
    BY <1>1
  <2> HIDE DEF a
  <2>2. /\ IsMemory(Written(m, a, b)) /\ Len(Written(m, a, b)) = Len(m)
        /\ \A i \in 1..Len(m) :
             Written(m, a, b)[i] = IF i \in a..(a + Len(b) - 1) THEN b[i - a + 1] ELSE m[i]
    BY <2>1, WrittenType
  <2>3. Written(m, a, b) \in Seq(Byte)
    BY <2>2 DEF IsMemory
  <2> QED BY <2>2, <2>3 DEF a
<1>4. \A i \in 1..c.byte_len : Slice(c, m)[i] = m[c.addr + c.byte_pos + i - 1]
  BY SliceType
<1> HIDE DEF w
<1>5. ASSUME NEW i \in 1..Len(m) PROVE w[i] = m[i]
  <2>1. CASE i \in c.addr..(c.addr + Len(b) - 1)
    <3> DEFINE k == i - c.addr + 1
    <3>1. k \in 1..Len(b) /\ k \in 1..c.byte_len /\ c.addr + c.byte_pos + k - 1 = i
      BY <1>1, <1>2, <2>1
    <3>2. w[i] = b[k]
      BY <1>3, <2>1
    <3> HIDE DEF k
    <3>3. b[k] = m[i]
      BY <1>4, <3>1
    <3> QED BY <3>2, <3>3
  <2>2. CASE i \notin c.addr..(c.addr + Len(b) - 1)
    BY <1>3, <2>2
  <2> QED BY <2>1, <2>2
<1>6. w = m
  BY <1>2, <1>3, <1>5, SeqEqual
<1> QED BY <1>6 DEF w

-----------------------------------------------------------------------------
(* What get returned, set again: every type *)

\* What a get returned is what it would return again, until the next set.
JustRead == input = Empty /\ IsValue(output) => output = Reads(called, mem)

\* A value that is read is the converted one, and within the bounds.
LEMMA ReadValue ==
  ASSUME NEW c \in Commands, Faithful(c), NEW m, IsValue(Reads(c, m))
  PROVE  LET v == convert(Unconverted(c, Slice(c, m)), c.conversion)
         IN  Reads(c, m) = v /\ ~TooLow(c, v) /\ ~TooHigh(c, v)
<1> DEFINE bytes == Slice(c, m)
           v == convert(Unconverted(c, bytes), c.conversion)
<1>1. ~(c.byte_pos + c.byte_len > c.block_len) /\ c.block_count = 0
  BY CommandType DEF Faithful
<1>2. Reads(c, m) = parse_value(c, bytes)
  BY <1>1 DEF Reads, deserialize
<1>3. Empty.t = "Empty"
  BY Fields DEF Empty
<1>4. parse_value(c, bytes) # Empty
  BY <1>2, <1>3 DEF IsValue
<1>5. parse_value(c, bytes) = v /\ ~TooLow(c, v) /\ ~TooHigh(c, v)
  BY <1>4 DEF parse_value
<1> QED BY <1>2, <1>5

\* Nothing but a get that returned a value leaves one without an input.
LEMMA JustReadStep ==
  ASSUME TypeOK, JustRead, [Next]_vars
  PROVE  JustRead'
<1>1. Err.t = "Err" /\ Empty.t = "Empty"
  BY Fields DEF Err, Empty
<1>2. ASSUME NEW c \in Commands, get(c) PROVE JustRead'
  <2>1. called' = c /\ mem' = mem /\ output' \in {Reads(c, mem), Err}
    BY <1>2 DEF get, Called
  <2>2. IsValue(output') => output' = Reads(c, mem)
    BY <1>1, <2>1 DEF IsValue
  <2> QED BY <2>1, <2>2 DEF JustRead
<1>3. ASSUME NEW c \in Commands, NEW v \in Inputs \cup {output}, IsValue(v), set(c, v)
      PROVE  JustRead'
  <2>1. input' # Empty
    BY <1>1, <1>3 DEF set, IsValue
  <2> QED BY <2>1 DEF JustRead
<1>4. CASE UNCHANGED vars
  BY <1>4 DEF JustRead, vars
<1> QED BY <1>2, <1>3, <1>4 DEF Next

\* A set of what was read succeeds, and what it leaves reads as before.
LEMMA SetOfRead ==
  ASSUME TypeOK, NEW c \in Commands, NEW v, c.mode = "read_write", Invertible(c),
         v = Reads(c, mem), IsValue(v), c.data_type \in Dated => Representable(c, v), set(c, v)
  PROVE  /\ output' = Ok
         /\ c.data_type \in Dated => Reads(c, mem') = v
         /\ c.data_type \notin Dated => mem' = mem
<1> DEFINE bytes == Slice(c, mem)
           w == convert(Unconverted(c, bytes), c.conversion)
           written == Bytes(c, Prepared(c, v))
<1>1. IsMemory(mem) /\ Faithful(c) /\ c.byte_pos = 0
  BY DEF TypeOK, Invertible, Faithful
<1>2. bytes \in Seq(Byte) /\ Len(bytes) = c.byte_len
  BY <1>1, SliceType
<1>3. v = w /\ ~TooLow(c, v) /\ ~TooHigh(c, v)
  BY <1>1, ReadValue
<1>4. c.data_type \in Dated \cup {"Int", "Byte", "Double", "ByteArray", "String"}
  BY DEF Invertible
<1> HIDE DEF bytes
<1>5. ~Panics(c, v) /\ Matches(c, Prepared(c, v))
  <2>1. CASE c.data_type \in Dated
    BY <1>2, <1>3, <2>1, DatedRestored
  <2>2. CASE c.data_type \in {"Int", "Byte", "Double"}
    BY <1>2, <1>3, <2>2, NumberRestored
  <2>3. CASE c.data_type \in {"ByteArray", "String"}
    BY <1>2, <1>3, <2>3, TextRestored
  <2> QED BY <1>4, <2>1, <2>2, <2>3
<1>6. Write(c, v)
  <2>1. Accepted(c, v)
    BY <1>3 DEF Accepted
  <2> QED BY <1>5, <2>1 DEF set, Reject, WritePanics, Mismatch
<1>7. output' = Ok /\ mem' = Written(mem, c.addr, written)
  BY <1>6 DEF Write
<1>8. ASSUME c.data_type \notin Dated PROVE mem' = mem
  <2>1. written \in Seq(Byte) /\ Len(written) <= c.byte_len
        /\ \A i \in 1..Len(written) : written[i] = bytes[i]
    <3>1. CASE c.data_type \in {"Int", "Byte", "Double"}
      <4>1. written = bytes
        BY <1>2, <1>3, <3>1, NumberRestored
      <4>2. c.byte_len <= c.byte_len
        BY CommandType
      <4> QED BY <1>2, <4>1, <4>2
    <3>2. CASE c.data_type \in {"ByteArray", "String"}
      BY <1>2, <1>3, <3>2, TextRestored
    <3> QED BY <1>4, <1>8, <3>1, <3>2
  <2> HIDE DEF written
  <2>2. Written(mem, c.addr, written) = mem
    BY <1>1, <2>1, NothingWritten DEF bytes
  <2> QED BY <1>7, <2>2
<1>9. ASSUME c.data_type \in Dated PROVE Reads(c, mem') = v
  <2>1. /\ ValidValue(v) /\ v.t = c.data_type /\ parse_value(c, written) = v
        /\ Len(written) = c.byte_len
    BY <1>2, <1>3, <1>9, DatedRestored
  <2>2. /\ written \in Seq(Byte) /\ IsMemory(mem') /\ Len(mem') = Len(mem)
        /\ \A i \in 1..Len(mem) :
             mem'[i] = IF i \in c.addr..(c.addr + Len(written) - 1)
                         THEN written[i - c.addr + 1] ELSE mem[i]
    BY <1>6, <2>1, WriteStep
  <2>3. c.addr \in Nat /\ c.addr > 0 /\ Len(written) \in Nat /\ Len(mem) \in Nat
    BY <2>2, CommandType DEF TypeOK, IsMemory
  <2> HIDE DEF written
  <2>4. ASSUME NEW i \in 1..Len(written), c.addr + i - 1 <= Len(mem')
        PROVE  mem'[c.addr + i - 1] = written[i]
    <3> DEFINE k == c.addr + i - 1
    <3>1. /\ k \in 1..Len(mem) /\ k \in c.addr..(c.addr + Len(written) - 1)
          /\ k - c.addr + 1 = i
      BY <2>2, <2>3, <2>4
    <3> HIDE DEF k
    <3>2. mem'[k] = written[i]
      BY <2>2, <3>1
    <3> QED BY <3>2 DEF k
  <2>5. Slice(c, mem') = written
    BY <1>1, <2>1, <2>2, <2>4, SliceWritten
  <2>6. ~(c.byte_pos + c.byte_len > c.block_len) /\ c.block_count = 0
    BY <1>1, CommandType DEF Faithful
  <2> QED BY <2>1, <2>5, <2>6 DEF Reads, deserialize
<1> QED BY <1>7, <1>8, <1>9

\* Setting what a get returned succeeds and loses nothing, for every command
\* whose type and conversion can be undone: the number, text or array is in the
\* memory byte by byte as it was, and a date or a list of switching times that
\* has a representation reads as it did.
THEOREM GetIsSetBack == Spec => [][Restorable => WritesBack]_vars
<1>1. Init => JustRead
  <2>1. Empty.t = "Empty"
    BY Fields DEF Empty
  <2> QED BY <2>1 DEF Init, JustRead, IsValue
<1>2. TypeOK /\ JustRead /\ [Next]_vars => JustRead'
  BY JustReadStep
<1>3. TypeOK /\ JustRead /\ [Next]_vars => [Restorable => WritesBack]_vars
  <2> SUFFICES ASSUME TypeOK, JustRead, Next, Restorable,
                      called' = called, input' = output, IsValue(output), input = Empty,
                      called.mode = "read_write"
               PROVE  /\ output' = Ok
                      /\ IF called.data_type \in Dated
                           THEN Reads(called, mem') = Reads(called, mem) ELSE mem' = mem
    BY DEF WritesBack
  <2>1. output = Reads(called, mem)
    BY DEF JustRead
  <2>2. called \in Commands
    BY DEF TypeOK
  <2>3. set(called, output)
    <3>1. ASSUME NEW c \in Commands, get(c) PROVE FALSE
      <4>1. Empty.t = "Empty"
        BY Fields DEF Empty
      <4> QED BY <3>1, <4>1 DEF get, IsValue
    <3>2. ASSUME NEW c \in Commands, NEW v \in Inputs \cup {output}, set(c, v)
          PROVE  set(called, output)
      <4>1. c = called /\ v = output
        BY <3>2 DEF set, Called
      <4> QED BY <3>2, <4>1
    <3> QED BY <3>1, <3>2 DEF Next
  <2>4. /\ output' = Ok
        /\ called.data_type \in Dated => Reads(called, mem') = output
        /\ called.data_type \notin Dated => mem' = mem
    BY <2>1, <2>2, <2>3, SetOfRead DEF Restorable
  <2> QED BY <2>1, <2>4
<1> QED BY <1>1, <1>2, <1>3, TypeCorrect, PTL DEF Spec

\* A device of which every command that can be read and set is such a one, and
\* none of them a date: every value that was read can be set again.
THEOREM InvertibleWriteBack ==
  ASSUME \A c \in Commands :
           c.mode = "read_write" => Invertible(c) /\ c.data_type \notin Dated
  PROVE  Spec => WriteBack
<1>1. TypeOK /\ [Restorable => WritesBack]_vars => [WritesBack]_vars
  <2>1. ASSUME TypeOK PROVE Restorable \/ WritesBack
    <3>1. called \in Commands
      BY <2>1 DEF TypeOK
    <3>2. CASE called.mode = "read_write"
      BY <3>1, <3>2 DEF Restorable
    <3>3. CASE called.mode # "read_write"
      BY <3>3 DEF WritesBack
    <3> QED BY <3>2, <3>3
  <2> QED BY <2>1
<1> QED BY <1>1, TypeCorrect, GetIsSetBack, PTL DEF WriteBack

=============================================================================
