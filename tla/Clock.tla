------------------------------- MODULE Clock -------------------------------
(***************************************************************************)
(* The clock, src/kernel/arch/x86_64/rtc.c: what the CMOS registers hold    *)
(* and the Indian time the taskbar shows.                                   *)
(***************************************************************************)
EXTENDS Integers, Sequences

Date(y, mo, d, h, m, s) ==
  [year |-> y, month |-> mo, day |-> d, hour |-> h, minute |-> m, second |-> s]

BcdToBin(v) == (v \div 16) * 10 + (v % 16)

\* rtc_read, of registers read between two updates. `binary' and `hour12' are
\* the bits of status B; only a BCD hour is read without its PM bit.
RtcRead(cmos) ==
  LET Reg(v) == IF cmos.binary THEN v ELSE BcdToBin(v)
      h == IF cmos.binary THEN cmos.hour ELSE BcdToBin(cmos.hour % 128)
      pm == cmos.hour >= 128
      hour == IF ~cmos.hour12 THEN h
              ELSE IF pm /\ h # 12 THEN h + 12
              ELSE IF ~pm /\ h = 12 THEN 0 ELSE h
  IN Date(2000 + Reg(cmos.year), Reg(cmos.month), Reg(cmos.day),
          hour, Reg(cmos.minute), Reg(cmos.second))

\* Mutant: every February has 28 days.
DaysInMonthPlain(month, year) ==
  << 31, 28, 31, 30, 31, 30, 31, 31, 30, 31, 30, 31 >>[month]

DaysInMonth(month, year) ==
  IF month \notin 1 .. 12 THEN 31
  ELSE IF month = 2 /\ year % 4 = 0 /\ (year % 100 # 0 \/ year % 400 = 0) THEN 29
  ELSE << 31, 28, 31, 30, 31, 30, 31, 31, 30, 31, 30, 31 >>[month]

IstOffset == 330   \* IST_OFFSET_MIN

\* rtc_read_ist.
RtcReadIst(cmos) ==
  LET dt == RtcRead(cmos)
      total == dt.hour * 60 + dt.minute + IstOffset
      timed == [dt EXCEPT !.hour = (total \div 60) % 24, !.minute = total % 60]
      over == dt.day + 1 > DaysInMonth(dt.month, dt.year)
  IN IF total < 24 * 60 THEN timed
     ELSE IF ~over THEN [timed EXCEPT !.day = @ + 1]
     ELSE IF dt.month < 12 THEN [timed EXCEPT !.day = 1, !.month = @ + 1]
     ELSE [timed EXCEPT !.day = 1, !.month = 1, !.year = @ + 1]

----------------------------------------------------------------------------
(* The chip, and time by counting minutes.                                 *)

Bcd(v) == (v \div 10) * 16 + (v % 10)

\* The registers of a chip set to dt; its hour in 12-hour mode has a PM bit.
Cmos(dt, binary, hour12) ==
  LET Reg(v) == IF binary THEN v ELSE Bcd(v)
      clock == IF dt.hour % 12 = 0 THEN 12 ELSE dt.hour % 12
      hour == IF hour12 THEN Reg(clock) + (IF dt.hour >= 12 THEN 128 ELSE 0)
              ELSE Reg(dt.hour)
  IN [binary |-> binary, hour12 |-> hour12, year |-> Reg(dt.year - 2000),
      month |-> Reg(dt.month), day |-> Reg(dt.day), hour |-> hour,
      minute |-> Reg(dt.minute), second |-> Reg(dt.second)]

Leap(y) == y % 400 = 0 \/ (y % 4 = 0 /\ y % 100 # 0)
DaysBefore(mo, y) ==
  << 0, 31, 59, 90, 120, 151, 181, 212, 243, 273, 304, 334 >>[mo]
    + (IF mo > 2 /\ Leap(y) THEN 1 ELSE 0)
DayNumber(dt) ==
  LET y == dt.year - 1
  IN 365 * y + y \div 4 - y \div 100 + y \div 400 + DaysBefore(dt.month, dt.year) + dt.day

\* Within the month, by the days before the next one.
IsDate(dt) ==
  /\ dt.month \in 1 .. 12 /\ dt.day >= 1 /\ dt.hour \in 0 .. 23 /\ dt.minute \in 0 .. 59
  /\ dt.month < 12 =>
       dt.day <= DaysBefore(dt.month + 1, dt.year) - DaysBefore(dt.month, dt.year)
  /\ dt.month = 12 => dt.day <= 31

Minutes(dt) == (DayNumber(dt) - DayNumber(Date(2000, 1, 1, 0, 0, 0))) * 1440
                 + dt.hour * 60 + dt.minute
============================================================================
