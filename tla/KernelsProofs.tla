-------------------------- MODULE KernelsProofs --------------------------
(***************************************************************************)
(* Proofs about Kernels: the Indian time is the clock's, five and a half    *)
(* hours later; a range of memory is mapped page for page; a terminal shows *)
(* what was printed in it.                                                  *)
(***************************************************************************)
EXTENDS Kernels, SequenceTheorems, FiniteSetTheorems, WellFoundedInduction, TLAPS


-----------------------------------------------------------------------------
(* The clock.                                                               *)

DateSet == [year : 2000 .. 2099, month : 1 .. 12, day : 1 .. 31,
            hour : 0 .. 23, minute : 0 .. 59, second : 0 .. 59]
ModeSet == {<< FALSE, FALSE >>, << FALSE, TRUE >>, << TRUE, FALSE >>}

LEMMA BcdInverse ==
  ASSUME NEW v \in 0 .. 99
  PROVE  /\ Bcd(v) \in 0 .. 255 /\ BcdToBin(Bcd(v)) = v
         /\ v <= 12 => Bcd(v) < 128 /\ (Bcd(v) + 128) % 128 = Bcd(v) /\ Bcd(v) % 128 = Bcd(v)
         /\ v < 24 => Bcd(v) < 128 /\ Bcd(v) % 128 = Bcd(v)
  BY DEF Bcd, BcdToBin

(* The chip's registers are read as what it was set to, in each of the three *)
(* modes rtc_read handles (not binary and 12-hour together).                *)
LEMMA ReadBack ==
  ASSUME NEW dt \in DateSet, NEW mode \in ModeSet
  PROVE  RtcRead(Cmos(dt, mode[1], mode[2])) = dt
<1>. DEFINE c == Cmos(dt, mode[1], mode[2])
            y == dt.year - 2000
            clock == IF dt.hour % 12 = 0 THEN 12 ELSE dt.hour % 12
<1>1. /\ y \in 0 .. 99 /\ dt.month \in 0 .. 99 /\ dt.day \in 0 .. 99 /\ dt.hour \in 0 .. 23
      /\ dt.minute \in 0 .. 99 /\ dt.second \in 0 .. 99 /\ clock \in 1 .. 12
      /\ 2000 + y = dt.year
  BY DEF DateSet
<1>2. dt = Date(dt.year, dt.month, dt.day, dt.hour, dt.minute, dt.second)
  BY DEF DateSet, Date
<1>. DEFINE Kept(v) == BcdToBin(Bcd(v)) = v
<1>0. Kept(y) /\ Kept(dt.month) /\ Kept(dt.day) /\ Kept(dt.minute) /\ Kept(dt.second)
  <2>1. \A v \in 0 .. 99 : Kept(v)
    BY BcdInverse
  <2>. HIDE DEF Kept, y
  <2>. QED
    BY <1>1, <2>1
<1>3. CASE mode = << TRUE, FALSE >>
  <2>1. /\ c.binary = TRUE /\ c.hour12 = FALSE /\ c.year = y /\ c.month = dt.month
        /\ c.day = dt.day /\ c.hour = dt.hour /\ c.minute = dt.minute /\ c.second = dt.second
    BY <1>3 DEF Cmos
  <2>. QED
    BY <1>1, <1>2, <2>1 DEF RtcRead
<1>4. CASE mode = << FALSE, FALSE >>
  <2>1. /\ c.binary = FALSE /\ c.hour12 = FALSE /\ c.year = Bcd(y) /\ c.month = Bcd(dt.month)
        /\ c.day = Bcd(dt.day) /\ c.hour = Bcd(dt.hour) /\ c.minute = Bcd(dt.minute)
        /\ c.second = Bcd(dt.second)
    BY <1>4 DEF Cmos
  <2>2. /\ BcdToBin(c.year) = y /\ BcdToBin(c.month) = dt.month /\ BcdToBin(c.day) = dt.day
        /\ BcdToBin(c.minute) = dt.minute /\ BcdToBin(c.second) = dt.second
    BY <1>0, <2>1
  <2>3. BcdToBin(c.hour % 128) = dt.hour
    <3>. DEFINE h == dt.hour
    <3>1. h \in 0 .. 99 /\ h < 24
      BY <1>1
    <3>. HIDE DEF h
    <3>2. BcdToBin(Bcd(h)) = h /\ Bcd(h) % 128 = Bcd(h)
      BY <3>1, BcdInverse
    <3>. QED
      BY <2>1, <3>2 DEF h
  <2>. QED
    BY <1>1, <1>2, <2>1, <2>2, <2>3 DEF RtcRead
<1>5. CASE mode = << FALSE, TRUE >>
  <2>1. /\ c.binary = FALSE /\ c.hour12 = TRUE /\ c.year = Bcd(y) /\ c.month = Bcd(dt.month)
        /\ c.day = Bcd(dt.day) /\ c.minute = Bcd(dt.minute) /\ c.second = Bcd(dt.second)
        /\ c.hour = Bcd(clock) + (IF dt.hour >= 12 THEN 128 ELSE 0)
    BY <1>5 DEF Cmos
  <2>2. /\ BcdToBin(c.year) = y /\ BcdToBin(c.month) = dt.month /\ BcdToBin(c.day) = dt.day
        /\ BcdToBin(c.minute) = dt.minute /\ BcdToBin(c.second) = dt.second
    BY <1>0, <2>1
  <2>3. /\ BcdToBin(c.hour % 128) = clock /\ (c.hour >= 128 <=> dt.hour >= 12)
    <3>1. clock \in 0 .. 99 /\ clock <= 12
      BY <1>1
    <3>. HIDE DEF clock
    <3>2. /\ Bcd(clock) \in 0 .. 255 /\ BcdToBin(Bcd(clock)) = clock /\ Bcd(clock) < 128
          /\ (Bcd(clock) + 128) % 128 = Bcd(clock) /\ Bcd(clock) % 128 = Bcd(clock)
      BY <3>1, BcdInverse
    <3>. QED
      BY <1>1, <2>1, <3>2
  <2>4. dt.hour = IF c.hour >= 128 /\ clock # 12 THEN clock + 12
                  ELSE IF ~(c.hour >= 128) /\ clock = 12 THEN 0 ELSE clock
    BY <1>1, <2>3
  <2>. QED
    BY <1>1, <1>2, <2>1, <2>2, <2>3, <2>4 DEF RtcRead
<1>. QED
  BY <1>3, <1>4, <1>5 DEF ModeSet

(* The lengths of the months are those of the count of days.                *)
LEMMA MonthEnds ==
  ASSUME NEW y \in Nat, NEW m \in 1 .. 12
  PROVE  /\ m < 12 => DaysInMonth(m, y) = DaysBefore(m + 1, y) - DaysBefore(m, y)
         /\ m = 12 => DaysInMonth(m, y) = 31
<1>1. m \in {1, 2, 3, 4, 5, 6, 7, 8, 9, 10, 11, 12}
  OBVIOUS
<1>2. Leap(y) <=> y % 4 = 0 /\ (y % 100 # 0 \/ y % 400 = 0)
  BY DEF Leap
<1>. QED
  BY <1>1, <1>2 DEF DaysInMonth, DaysBefore

LEMMA YearLength ==
  ASSUME NEW y \in Nat \ {0}
  PROVE  365 * y + y \div 4 - y \div 100 + y \div 400
           = 365 * (y - 1) + (y - 1) \div 4 - (y - 1) \div 100 + (y - 1) \div 400
               + DaysBefore(12, y) + 31
<1>1. y \div 4 - (y - 1) \div 4 = IF y % 4 = 0 THEN 1 ELSE 0
  OBVIOUS
<1>2. y \div 100 - (y - 1) \div 100 = IF y % 100 = 0 THEN 1 ELSE 0
  OBVIOUS
<1>3. y \div 400 - (y - 1) \div 400 = IF y % 400 = 0 THEN 1 ELSE 0
  OBVIOUS
<1>4. DaysBefore(12, y) = 334 + (IF Leap(y) THEN 1 ELSE 0)
  BY DEF DaysBefore
<1>5. (y % 400 = 0 => y % 100 = 0) /\ (y % 100 = 0 => y % 4 = 0)
  OBVIOUS
<1>. QED
  BY <1>1, <1>2, <1>3, <1>4, <1>5 DEF Leap

(* The number of the day after dt, and that it is a date.                   *)
Tomorrow(dt) ==
  IF ~(dt.day + 1 > DaysInMonth(dt.month, dt.year)) THEN [dt EXCEPT !.day = @ + 1]
  ELSE IF dt.month < 12 THEN [dt EXCEPT !.day = 1, !.month = @ + 1]
  ELSE [dt EXCEPT !.day = 1, !.month = 1, !.year = @ + 1]

Dated == [year : Nat \ {0}, month : 1 .. 12, day : Int,
          hour : 0 .. 23, minute : 0 .. 59, second : 0 .. 59]

LEMMA DaysBeforeType ==
  ASSUME NEW y \in Nat, NEW m \in 1 .. 12
  PROVE  DaysBefore(m, y) \in Nat
<1>1. m \in {1, 2, 3, 4, 5, 6, 7, 8, 9, 10, 11, 12}
  OBVIOUS
<1>. QED
  BY <1>1 DEF DaysBefore

LEMMA MonthLength ==
  ASSUME NEW y \in Nat, NEW m \in 1 .. 12
  PROVE  DaysInMonth(m, y) \in 28 .. 31
<1>1. m \in {1, 2, 3, 4, 5, 6, 7, 8, 9, 10, 11, 12}
  OBVIOUS
<1>. QED
  BY <1>1 DEF DaysInMonth

LEMMA IsDateMonth ==
  ASSUME NEW dt \in Dated
  PROVE  IsDate(dt) <=> dt.day >= 1 /\ dt.day <= DaysInMonth(dt.month, dt.year)
<1>1. dt.month \in 1 .. 12 /\ dt.hour \in 0 .. 23 /\ dt.minute \in 0 .. 59 /\ dt.year \in Nat
  BY DEF Dated
<1>. QED
  BY <1>1, MonthEnds DEF IsDate

LEMMA NextDay ==
  ASSUME NEW dt \in Dated, IsDate(dt)
  PROVE  /\ Tomorrow(dt) \in Dated /\ IsDate(Tomorrow(dt))
         /\ DayNumber(Tomorrow(dt)) = DayNumber(dt) + 1
<1>1. /\ dt.month \in 1 .. 12 /\ dt.year \in Nat \ {0} /\ dt.day \in Int
      /\ dt.hour \in 0 .. 23 /\ dt.minute \in 0 .. 59 /\ dt.second \in 0 .. 59
  BY DEF Dated
<1>. DEFINE len == DaysInMonth(dt.month, dt.year)
            y == dt.year
            m == dt.month
<1>2. len \in 28 .. 31 /\ dt.day >= 1 /\ dt.day <= len
  BY <1>1, MonthLength, IsDateMonth
<1>3. CASE dt.day + 1 <= len
  <2>. DEFINE e == Tomorrow(dt)
  <2>1. e = [dt EXCEPT !.day = dt.day + 1]
    BY <1>1, <1>2, <1>3 DEF Tomorrow
  <2>2. e \in Dated /\ e.day = dt.day + 1 /\ e.month = dt.month /\ e.year = dt.year
    <3>1. e = Date(dt.year, dt.month, dt.day + 1, dt.hour, dt.minute, dt.second)
      BY <2>1 DEF Dated, Date
    <3>2. dt.day + 1 \in Int
      BY <1>1
    <3>. HIDE DEF e
    <3>. QED
      BY <1>1, <3>1, <3>2 DEF Dated, Date
  <2>. HIDE DEF e
  <2>3. IsDate(e)
    BY <1>1, <1>2, <1>3, <2>2, IsDateMonth
  <2>4. DaysBefore(m, y) \in Nat
    BY <1>1, DaysBeforeType
  <2>5. DayNumber(e) = DayNumber(dt) + 1
    BY <1>1, <2>2, <2>4 DEF DayNumber
  <2>. QED
    BY <2>2, <2>3, <2>5 DEF e
<1>4. CASE dt.day = len /\ dt.month < 12
  <2>. DEFINE e == Tomorrow(dt)
  <2>1. e = [dt EXCEPT !.day = 1, !.month = dt.month + 1]
    BY <1>1, <1>2, <1>4 DEF Tomorrow
  <2>2. e \in Dated /\ e.day = 1 /\ e.month = dt.month + 1 /\ e.year = dt.year
    <3>1. e = Date(dt.year, dt.month + 1, 1, dt.hour, dt.minute, dt.second)
      BY <2>1 DEF Dated, Date
    <3>2. dt.month + 1 \in 1 .. 12
      BY <1>1, <1>4
    <3>. HIDE DEF e
    <3>. QED
      BY <1>1, <3>1, <3>2 DEF Dated, Date
  <2>. HIDE DEF e
  <2>3. IsDate(e)
    <3>1. DaysInMonth(e.month, e.year) \in 28 .. 31
      BY <1>1, <1>4, <2>2, MonthLength
    <3>. QED
      BY <2>2, <3>1, IsDateMonth
  <2>4. DaysBefore(m, y) \in Nat /\ DaysBefore(m + 1, y) \in Nat
    <3>1. m \in 1 .. 12 /\ m + 1 \in 1 .. 12 /\ y \in Nat
      BY <1>1, <1>4
    <3>. HIDE DEF m, y
    <3>. QED
      BY <3>1, DaysBeforeType
  <2>5. dt.day = DaysBefore(m + 1, y) - DaysBefore(m, y)
    BY <1>1, <1>4, MonthEnds
  <2>6. DayNumber(e) = DayNumber(dt) + 1
    BY <1>1, <2>2, <2>4, <2>5 DEF DayNumber
  <2>. QED
    BY <2>2, <2>3, <2>6 DEF e
<1>5. CASE dt.day = len /\ dt.month = 12
  <2>. DEFINE e == Tomorrow(dt)
  <2>1. e = [dt EXCEPT !.day = 1, !.month = 1, !.year = dt.year + 1]
    BY <1>1, <1>2, <1>5 DEF Tomorrow
  <2>2. e \in Dated /\ e.day = 1 /\ e.month = 1 /\ e.year = dt.year + 1
    <3>1. e = Date(dt.year + 1, 1, 1, dt.hour, dt.minute, dt.second)
      BY <2>1 DEF Dated, Date
    <3>2. dt.year + 1 \in Nat \ {0}
      BY <1>1
    <3>. HIDE DEF e
    <3>. QED
      BY <1>1, <3>1, <3>2 DEF Dated, Date
  <2>. HIDE DEF e
  <2>3. IsDate(e)
    <3>1. DaysInMonth(e.month, e.year) \in 28 .. 31
      BY <1>1, <2>2, MonthLength
    <3>. QED
      BY <2>2, <3>1, IsDateMonth
  <2>4. DaysBefore(12, y) \in Nat /\ DaysBefore(1, e.year) = 0
    BY <1>1, DaysBeforeType DEF DaysBefore
  <2>5. dt.day = 31
    BY <1>1, <1>5, MonthEnds
  <2>6. 365 * y + y \div 4 - y \div 100 + y \div 400
           = 365 * (y - 1) + (y - 1) \div 4 - (y - 1) \div 100 + (y - 1) \div 400
               + DaysBefore(12, y) + 31
    BY <1>1, YearLength
  <2>7. e.year - 1 = y
    BY <1>1, <2>2
  <2>8. DayNumber(e) = 365 * y + y \div 4 - y \div 100 + y \div 400 + 1
    BY <1>1, <2>2, <2>4, <2>7 DEF DayNumber
  <2>9. DayNumber(dt) = 365 * (y - 1) + (y - 1) \div 4 - (y - 1) \div 100
                          + (y - 1) \div 400 + DaysBefore(12, y) + 31
    BY <1>5, <2>5 DEF DayNumber
  <2>. QED
    BY <1>1, <2>2, <2>3, <2>4, <2>6, <2>8, <2>9 DEF e
<1>. QED
  BY <1>1, <1>2, <1>3, <1>4, <1>5

Epoch == DayNumber(Date(2000, 1, 1, 0, 0, 0))

LEMMA MinutesIs ==
  ASSUME NEW dt
  PROVE  Minutes(dt) = (DayNumber(dt) - Epoch) * 1440 + dt.hour * 60 + dt.minute
  BY Zenon DEF Minutes, Epoch

LEMMA DayNumberType ==
  ASSUME NEW dt, dt.year \in Nat, dt.month \in 1 .. 12, dt.day \in Int
  PROVE  DayNumber(dt) \in Int
<1>1. DaysBefore(dt.month, dt.year) \in Nat
  BY DaysBeforeType
<1>. QED
  BY <1>1 DEF DayNumber

LEMMA EpochType == Epoch \in Int
  BY DayNumberType DEF Epoch, Date

(* The five and a half hours, within a day or into the next.                *)
LEMMA IstOf ==
  ASSUME NEW dt \in Dated, IsDate(dt), NEW cmos, RtcRead(cmos) = dt
  PROVE  LET ist == RtcReadIst(cmos)
         IN /\ IsDate(ist) /\ ist.second = dt.second
            /\ Minutes(ist) = Minutes(dt) + IstOffset
<1>. DEFINE total == dt.hour * 60 + dt.minute + IstOffset
            h == (total \div 60) % 24
            mi == total % 60
            timed == [dt EXCEPT !.hour = h, !.minute = mi]
            ist == RtcReadIst(cmos)
<1>1. /\ dt.month \in 1 .. 12 /\ dt.year \in Nat \ {0} /\ dt.day \in Int
      /\ dt.hour \in 0 .. 23 /\ dt.minute \in 0 .. 59 /\ dt.second \in 0 .. 59
  BY DEF Dated
<1>2. /\ h \in 0 .. 23 /\ mi \in 0 .. 59
      /\ total < 1440 => h * 60 + mi = dt.hour * 60 + dt.minute + IstOffset
      /\ ~(total < 1440) => h * 60 + mi + 1440 = dt.hour * 60 + dt.minute + IstOffset
  BY <1>1 DEF IstOffset
<1>3. total < 24 * 60 <=> total < 1440
  OBVIOUS
<1>. HIDE DEF h, mi
<1>4. timed = Date(dt.year, dt.month, dt.day, h, mi, dt.second)
  <2>1. dt = Date(dt.year, dt.month, dt.day, dt.hour, dt.minute, dt.second)
    BY DEF Dated, Date
  <2>2. timed = [Date(dt.year, dt.month, dt.day, dt.hour, dt.minute, dt.second)
                   EXCEPT !.hour = h, !.minute = mi]
    BY <2>1, Zenon
  <2>. QED
    <3>. DEFINE d == Date(dt.year, dt.month, dt.day, dt.hour, dt.minute, dt.second)
                e == Date(dt.year, dt.month, dt.day, h, dt.minute, dt.second)
    <3>1. [d EXCEPT !.hour = h] = e /\ [e EXCEPT !.minute = mi]
            = Date(dt.year, dt.month, dt.day, h, mi, dt.second)
      BY DEF Date
    <3>2. [d EXCEPT !.hour = h, !.minute = mi] = [[d EXCEPT !.hour = h] EXCEPT !.minute = mi]
      BY DEF Date
    <3>. QED
      BY <2>2, <3>1, <3>2
<1>5. /\ timed \in Dated /\ timed.hour = h /\ timed.minute = mi /\ timed.second = dt.second
      /\ timed.year = dt.year /\ timed.month = dt.month /\ timed.day = dt.day
  BY <1>1, <1>2, <1>4 DEF Dated, Date
<1>6. ist = IF total < 24 * 60 THEN timed ELSE Tomorrow(timed)
  BY <1>5 DEF RtcReadIst, Tomorrow, h, mi
<1>. HIDE DEF timed, ist, total
<1>7. IsDate(timed) /\ DayNumber(timed) = DayNumber(dt)
  BY <1>5, IsDateMonth DEF DayNumber
<1>8. DayNumber(dt) \in Int
  BY <1>1, DayNumberType
<1>9. Epoch \in Int /\ Minutes(dt) = (DayNumber(dt) - Epoch) * 1440 + dt.hour * 60 + dt.minute
  BY EpochType, MinutesIs
<1>10. CASE total < 1440
  <2>1. ist = timed
    BY <1>3, <1>6, <1>10
  <2>2. Minutes(timed) = (DayNumber(timed) - Epoch) * 1440 + timed.hour * 60 + timed.minute
    BY MinutesIs
  <2>3. Minutes(timed) = (DayNumber(dt) - Epoch) * 1440 + h * 60 + mi
    BY <1>5, <1>7, <2>2
  <2>4. Minutes(timed) = Minutes(dt) + IstOffset
    <3>1. h * 60 + mi + 0 * 1440 = dt.hour * 60 + dt.minute + IstOffset
      BY <1>2, <1>10
    <3>2. (DayNumber(dt) + 0 - Epoch) * 1440 + h * 60 + mi
            = (DayNumber(dt) - Epoch) * 1440 + dt.hour * 60 + dt.minute + IstOffset
      <4>1. /\ DayNumber(dt) \in Int /\ Epoch \in Int /\ h \in Int /\ mi \in Int
            /\ dt.hour \in Int /\ dt.minute \in Int /\ IstOffset \in Int /\ 0 \in {0, 1}
        BY <1>1, <1>2, <1>8, <1>9 DEF IstOffset
      <4>. QED
        <5>. DEFINE D == DayNumber(dt)
                    H == dt.hour
                    M == dt.minute
                    k == IstOffset
        <5>. HIDE DEF D, H, M, k
        <5>1. h * 60 + mi + 0 * 1440 = H * 60 + M + k
          BY <3>1 DEF H, M, k
        <5>2. /\ D \in Int /\ Epoch \in Int /\ h \in Int /\ mi \in Int
              /\ H \in Int /\ M \in Int /\ k \in Int
          BY <4>1 DEF D, H, M, k
        <5>3. (D + 0 - Epoch) * 1440 + h * 60 + mi = (D - Epoch) * 1440 + H * 60 + M + k
          BY ONLY <5>1, <5>2
        <5>. QED
          BY <5>3 DEF D, H, M, k
    <3>. QED
      BY <1>8, <1>9, <2>3, <3>2
  <2>. QED
    BY <1>5, <1>7, <2>1, <2>4 DEF ist
<1>11. CASE ~(total < 1440)
  <2>. DEFINE next == Tomorrow(timed)
  <2>1. /\ next \in Dated /\ IsDate(next) /\ DayNumber(next) = DayNumber(dt) + 1
    BY <1>5, <1>7, NextDay
  <2>2. ist = next
    BY <1>3, <1>6, <1>11
  <2>3. next.hour = h /\ next.minute = mi /\ next.second = dt.second
    BY <1>4, <1>5 DEF Tomorrow, Date
  <2>. HIDE DEF next
  <2>4. Minutes(next) = Minutes(dt) + IstOffset
    <3>1. Minutes(next) = (DayNumber(next) - Epoch) * 1440 + next.hour * 60 + next.minute
      BY MinutesIs
    <3>2. Minutes(next) = (DayNumber(dt) + 1 - Epoch) * 1440 + h * 60 + mi
      <4>1. /\ DayNumber(next) = DayNumber(dt) + 1
            /\ next.hour = h /\ next.minute = mi
        BY <2>1, <2>3
      <4>. QED
        BY ONLY <1>2, <1>8, <1>9, <4>1, <3>1
    <3>3. h * 60 + mi + 1 * 1440 = dt.hour * 60 + dt.minute + IstOffset
      BY <1>2, <1>11
    <3>4. (DayNumber(dt) + 1 - Epoch) * 1440 + h * 60 + mi
            = (DayNumber(dt) - Epoch) * 1440 + dt.hour * 60 + dt.minute + IstOffset
      <4>1. /\ DayNumber(dt) \in Int /\ Epoch \in Int /\ h \in Int /\ mi \in Int
            /\ dt.hour \in Int /\ dt.minute \in Int /\ IstOffset \in Int /\ 1 \in {0, 1}
        BY <1>1, <1>2, <1>8, <1>9 DEF IstOffset
      <4>. QED
        <5>. DEFINE D == DayNumber(dt)
                    H == dt.hour
                    M == dt.minute
                    k == IstOffset
        <5>. HIDE DEF D, H, M, k
        <5>1. h * 60 + mi + 1 * 1440 = H * 60 + M + k
          BY <3>3 DEF H, M, k
        <5>2. /\ D \in Int /\ Epoch \in Int /\ h \in Int /\ mi \in Int
              /\ H \in Int /\ M \in Int /\ k \in Int
          BY <4>1 DEF D, H, M, k
        <5>3. (D + 1 - Epoch) * 1440 + h * 60 + mi = (D - Epoch) * 1440 + H * 60 + M + k
          BY ONLY <5>1, <5>2
        <5>. QED
          BY <5>3 DEF D, H, M, k
    <3>. QED
      BY <1>9, <3>2, <3>4
  <2>. QED
    BY <2>1, <2>2, <2>3, <2>4 DEF ist
<1>. QED
  BY <1>10, <1>11 DEF ist

-----------------------------------------------------------------------------
(* The terminal.                                                            *)

Chars == Keys \cup {"$", "s", "t", "1", "2", "?", " "}
Lines == Seq(Chars)
Slots == 1 .. ScrollMax

LEMMA Sizes ==
  /\ ScrollMax \in Nat /\ ScrollMax >= 2 /\ LineMax \in Nat /\ LineMax >= 2
  BY TerminalAssumption

LEMMA BodyRows ==
  ASSUME NEW body \in Bodies
  PROVE  Rows(body) \in Nat /\ Rows(body) >= 2
<1>1. body[2] \in Int /\ RowHeight \in Nat /\ RowHeight > 0
  BY TerminalAssumption
<1>2. (body[2] - 2) \div RowHeight \in Int
  BY <1>1
<1>. QED
  BY <1>2 DEF Rows

TermSet == [lines : [Slots -> Lines], len : 0 .. ScrollMax, scroll : Nat,
            input : Seq(Keys), cursor : Nat]

LEMMA KeysAreChars == Seq(Keys) \subseteq Lines
  BY SeqMonotonic DEF Lines, Chars

LEMMA CutType ==
  ASSUME NEW line \in Lines
  PROVE  Cut(line) \in Lines /\ (Len(line) < LineMax => Cut(line) = line)
<1>1. Len(line) \in Nat
  BY LenProperties DEF Lines
<1>2. CASE Len(line) < LineMax
  BY <1>2, SubSeqFull DEF Cut, Lines
<1>3. CASE ~(Len(line) < LineMax)
  <2>1. \A i \in 1 .. LineMax - 1 : line[i] \in Chars
    BY <1>1, <1>3, Sizes, ElementOfSeq DEF Lines
  <2>2. SubSeq(line, 1, LineMax - 1) \in Lines
    BY <2>1, Sizes, SubSeqProperties DEF Lines
  <2>. QED
    BY <1>3, <2>2 DEF Cut
<1>. QED
  BY <1>2, <1>3

-----------------------------------------------------------------------------
(* The scrollback holds the last lines of the log.                          *)

HeldOf(log) == IF Len(log) < ScrollMax THEN Len(log) ELSE ScrollMax

Holds(t, log) ==
  /\ t.len = HeldOf(log)
  /\ \A k \in 1 .. t.len : t.lines[k] = log[Len(log) - t.len + k]

(* The slots with no line yet have never had one.                           *)
Clean(t) == \A k \in (t.len + 1) .. ScrollMax : t.lines[k] = Blank

LEMMA AppendIs ==
  ASSUME NEW t \in TermSet, NEW line \in Lines
  PROVE  LET t1 == TermAppendLine(t, line)
             full == t.len = ScrollMax
             len == IF full THEN ScrollMax - 1 ELSE t.len
         IN /\ t1 \in TermSet /\ t1.len = len + 1 /\ t1.scroll = 0
            /\ t1.input = t.input /\ t1.cursor = t.cursor
            /\ t1.lines[len + 1] = Cut(line)
            /\ \A k \in Slots : k # len + 1 =>
                 t1.lines[k] = IF full /\ k < ScrollMax THEN t.lines[k + 1] ELSE t.lines[k]
<1>. DEFINE t1 == TermAppendLine(t, line)
            full == t.len >= ScrollMax
            lines == IF full THEN TermShift(t.lines) ELSE t.lines
            len == IF full THEN ScrollMax - 1 ELSE t.len
            filled == [lines EXCEPT ![len + 1] = Cut(line)]
<1>1. /\ t.lines \in [Slots -> Lines] /\ t.len \in 0 .. ScrollMax /\ t.scroll \in Nat
      /\ t.input \in Seq(Keys) /\ t.cursor \in Nat
  BY DEF TermSet
<1>2. TermShift(t.lines) \in [Slots -> Lines]
  BY <1>1, Sizes DEF TermShift, Slots
<1>3. /\ lines \in [Slots -> Lines] /\ len \in 0 .. ScrollMax - 1
      /\ \A k \in Slots : lines[k] = IF full /\ k < ScrollMax THEN t.lines[k + 1] ELSE t.lines[k]
  BY <1>1, <1>2, Sizes DEF TermShift, Slots
<1>4. Cut(line) \in Lines
  BY CutType
<1>5. len + 1 \in Slots
  BY <1>3, Sizes DEF Slots
<1>6. t1 = [t EXCEPT !.lines = filled, !.len = len + 1, !.scroll = 0]
  BY DEF TermAppendLine
<1>7. full <=> t.len = ScrollMax
  BY <1>1, Sizes
<1>. HIDE DEF lines, len, full
<1>8. /\ filled \in [Slots -> Lines] /\ filled[len + 1] = Cut(line)
      /\ \A k \in Slots : k # len + 1 => filled[k] = lines[k]
  BY <1>3, <1>4, <1>5
<1>. HIDE DEF filled
<1>9. /\ t1.lines = filled /\ t1.len = len + 1 /\ t1.scroll = 0
      /\ t1.input = t.input /\ t1.cursor = t.cursor
  BY <1>6 DEF TermSet
<1>10. t1 \in TermSet
  <2>1. len + 1 \in 0 .. ScrollMax
    BY <1>3, Sizes
  <2>2. t1 = [lines |-> filled, len |-> len + 1, scroll |-> 0, input |-> t.input,
              cursor |-> t.cursor]
    BY <1>6 DEF TermSet
  <2>. QED
    BY <1>1, <1>8, <2>1, <2>2 DEF TermSet
<1>. HIDE DEF t1
<1>11. \A k \in Slots : k # len + 1 =>
         t1.lines[k] = IF t.len = ScrollMax /\ k < ScrollMax THEN t.lines[k + 1] ELSE t.lines[k]
  BY <1>3, <1>7, <1>8, <1>9
<1>12. len = IF t.len = ScrollMax THEN ScrollMax - 1 ELSE t.len
  BY <1>7 DEF len
<1>. QED
  BY <1>8, <1>9, <1>10, <1>11, <1>12 DEF t1

LEMMA AppendHolds ==
  ASSUME NEW t \in TermSet, NEW line \in Lines, NEW log \in Seq(Lines), Holds(t, log)
  PROVE  LET t1 == TermAppendLine(t, line)
         IN /\ Append(log, Cut(line)) \in Seq(Lines)
            /\ Holds(t1, Append(log, Cut(line)))
            /\ Clean(t) => Clean(t1)
<1>. DEFINE t1 == TermAppendLine(t, line)
            new == Append(log, Cut(line))
            N == Len(log)
            len == IF t.len = ScrollMax THEN ScrollMax - 1 ELSE t.len
<1>1. /\ t1.len = len + 1 /\ t1.lines[len + 1] = Cut(line)
      /\ \A k \in Slots : k # len + 1 =>
           t1.lines[k] = IF t.len = ScrollMax /\ k < ScrollMax THEN t.lines[k + 1] ELSE t.lines[k]
  BY AppendIs
<1>2. /\ new \in Seq(Lines) /\ Len(new) = N + 1 /\ new[N + 1] = Cut(line) /\ N \in Nat
      /\ \A k \in 1 .. N : new[k] = log[k]
  BY CutType, AppendProperties
<1>. HIDE DEF t1, new, N
<1>3. /\ t.len \in 0 .. ScrollMax /\ t.len = (IF N < ScrollMax THEN N ELSE ScrollMax)
      /\ \A k \in 1 .. t.len : t.lines[k] = log[N - t.len + k]
  BY DEF TermSet, Holds, HeldOf, N
<1>4. t1.len = (IF N + 1 < ScrollMax THEN N + 1 ELSE ScrollMax)
  BY <1>1, <1>2, <1>3, Sizes
<1>5. ASSUME NEW k \in 1 .. t1.len PROVE t1.lines[k] = new[(N + 1) - t1.len + k]
  <2>1. k \in Slots /\ k <= len + 1
    BY <1>1, <1>2, <1>4, Sizes DEF Slots
  <2>2. CASE k = len + 1
    BY <1>1, <1>2, <2>2
  <2>3. CASE k <= len /\ t.len = ScrollMax
    <3>1. t1.lines[k] = t.lines[k + 1]
      BY <1>1, <2>1, <2>3, Sizes
    <3>2. t.lines[k + 1] = log[N - t.len + (k + 1)]
      BY <1>3, <2>1, <2>3, Sizes DEF Slots
    <3>3. (N + 1) - t1.len + k \in 1 .. N /\ (N + 1) - t1.len + k = N - t.len + (k + 1)
      BY <1>1, <1>2, <1>3, <2>1, <2>3, Sizes DEF Slots
    <3>. QED
      BY <1>2, <3>1, <3>2, <3>3
  <2>4. CASE k <= len /\ t.len # ScrollMax
    <3>1. t1.lines[k] = t.lines[k]
      <4>1. k # len + 1 /\ k \in Slots
        BY <1>1, <1>3, <2>1, <2>4, Sizes DEF Slots
      <4>. QED
        BY <1>1, <2>4, <4>1
    <3>2. t.lines[k] = log[N - t.len + k]
      BY <1>3, <2>1, <2>4, Sizes DEF Slots
    <3>3. (N + 1) - t1.len + k \in 1 .. N /\ (N + 1) - t1.len + k = N - t.len + k
      BY <1>1, <1>2, <1>3, <2>1, <2>4, Sizes DEF Slots
    <3>. QED
      BY <1>2, <3>1, <3>2, <3>3
  <2>5. k \in Int /\ len \in Int
    BY <1>1, <1>3, <2>1, Sizes DEF Slots
  <2>. QED
    BY <2>1, <2>2, <2>3, <2>4, <2>5
<1>6. ASSUME Clean(t) PROVE Clean(t1)
  <2>1. SUFFICES ASSUME NEW k \in (t1.len + 1) .. ScrollMax PROVE t1.lines[k] = Blank
    BY DEF Clean
  <2>2. t.len # ScrollMax
    BY <1>1, <1>3, Sizes
  <2>3. k \in (t.len + 1) .. ScrollMax /\ k \in Slots /\ k # len + 1
    BY <1>1, <1>3, <2>2, Sizes DEF Slots
  <2>. QED
    BY <1>1, <1>6, <2>2, <2>3 DEF Clean
<1>7. Holds(t1, new)
  <2>1. t1.len = HeldOf(new)
    BY <1>2, <1>4 DEF HeldOf
  <2>2. \A k \in 1 .. t1.len : t1.lines[k] = new[Len(new) - t1.len + k]
    <3>1. Len(new) = N + 1
      BY <1>2
    <3>. QED
      BY ONLY <1>5, <3>1, Zenon
  <2>. QED
    BY <2>1, <2>2, Zenon DEF Holds
<1>. QED
  BY <1>2, <1>6, <1>7 DEF t1, new

-----------------------------------------------------------------------------
(* Several lines appended: a command prints two at most.                    *)

Appends(after, t, lines) ==
  after = [k \in 0 .. Len(lines) |-> IF k = 0 THEN t ELSE TermAppendLine(after[k - 1], lines[k])]

LEMMA AppendsExist ==
  ASSUME NEW t, NEW lines, Len(lines) \in 0 .. 2
  PROVE  \E after : Appends(after, t, lines)
<1>. DEFINE one == TermAppendLine(t, lines[1])
            two == TermAppendLine(one, lines[2])
            f == [k \in 0 .. Len(lines) |-> IF k = 0 THEN t ELSE IF k = 1 THEN one ELSE two]
            Turn(k) == IF k = 0 THEN t ELSE TermAppendLine(f[k - 1], lines[k])
<1>1. ASSUME NEW k \in 0 .. Len(lines) PROVE f[k] = Turn(k)
  <2>1. CASE k = 0
    BY <2>1
  <2>2. CASE k = 1
    <3>1. f[0] = t
      OBVIOUS
    <3>. QED
      BY <2>2, <3>1
  <2>3. CASE k = 2
    <3>1. f[1] = one
      BY <2>3
    <3>. QED
      BY <2>3, <3>1
  <2>. QED
    BY <2>1, <2>2, <2>3
<1>2. f = [k \in 0 .. Len(lines) |-> Turn(k)]
  BY <1>1
<1>. QED
  BY <1>2 DEF Appends

LEMMA AppendLinesAre ==
  ASSUME NEW t, NEW lines, Len(lines) \in 0 .. 2
  PROVE  TermAppendLines(t, lines) =
           IF Len(lines) = 0 THEN t
           ELSE IF Len(lines) = 1 THEN TermAppendLine(t, lines[1])
           ELSE TermAppendLine(TermAppendLine(t, lines[1]), lines[2])
<1>. DEFINE after == CHOOSE f : Appends(f, t, lines)
<1>1. Appends(after, t, lines)
  BY AppendsExist
<1>2. TermAppendLines(t, lines) = after[Len(lines)]
  BY DEF TermAppendLines, Appends
<1>. HIDE DEF after
<1>3. \A k \in 0 .. Len(lines) :
        after[k] = IF k = 0 THEN t ELSE TermAppendLine(after[k - 1], lines[k])
  BY <1>1 DEF Appends
<1>4. after[0] = t
  BY <1>3
<1>5. Len(lines) >= 1 => after[1] = TermAppendLine(t, lines[1])
  <2>1. SUFFICES ASSUME Len(lines) >= 1 PROVE after[1] = TermAppendLine(t, lines[1])
    OBVIOUS
  <2>2. after[1] = TermAppendLine(after[1 - 1], lines[1])
    BY <1>3, <2>1
  <2>. QED
    BY <1>4, <2>2
<1>6. Len(lines) = 2 => after[2] = TermAppendLine(TermAppendLine(t, lines[1]), lines[2])
  <2>1. SUFFICES ASSUME Len(lines) = 2
                 PROVE  after[2] = TermAppendLine(TermAppendLine(t, lines[1]), lines[2])
    OBVIOUS
  <2>2. after[2] = TermAppendLine(after[2 - 1], lines[2])
    BY <1>3, <2>1
  <2>. QED
    BY <1>5, <2>1, <2>2
<1>7. CASE Len(lines) = 0
  BY <1>2, <1>4, <1>7
<1>8. CASE Len(lines) = 1
  BY <1>2, <1>5, <1>8
<1>9. CASE Len(lines) = 2
  BY <1>2, <1>6, <1>9
<1>. QED
  BY <1>7, <1>8, <1>9

(* Lines a command may print.                                               *)
Said(lines) ==
  /\ lines \in Seq(Lines) /\ Len(lines) \in 0 .. 2
  /\ \A k \in 1 .. Len(lines) : Len(lines[k]) < LineMax

LEMMA AppendLinesHold ==
  ASSUME NEW t \in TermSet, NEW lines, Said(lines), NEW log \in Seq(Lines), Holds(t, log)
  PROVE  LET t1 == TermAppendLines(t, lines)
         IN /\ t1 \in TermSet /\ t1.input = t.input /\ t1.cursor = t.cursor
            /\ t.scroll = 0 => t1.scroll = 0
            /\ log \o lines \in Seq(Lines) /\ Holds(t1, log \o lines)
            /\ Clean(t) => Clean(t1)
<1>. DEFINE a == TermAppendLine(t, lines[1])
            b == TermAppendLine(a, lines[2])
            la == Append(log, lines[1])
            lb == Append(la, lines[2])
            N == Len(log)
<1>1. /\ lines \in Seq(Lines) /\ Len(lines) \in 0 .. 2
      /\ \A k \in 1 .. Len(lines) : lines[k] \in Lines /\ Cut(lines[k]) = lines[k]
  BY CutType, ElementOfSeq DEF Said
<1>2. log \o lines \in Seq(Lines) /\ Len(log \o lines) = N + Len(lines) /\ N \in Nat
      /\ \A k \in 1 .. N + Len(lines) : (log \o lines)[k] =
           IF k <= N THEN log[k] ELSE lines[k - N]
  BY <1>1, ConcatProperties
<1>3. CASE Len(lines) = 0
  <2>1. TermAppendLines(t, lines) = t
    BY <1>1, <1>3, AppendLinesAre
  <2>2. log \o lines = log
    BY <1>1, <1>3, EmptySeq, ConcatEmptySeq
  <2>. QED
    BY <2>1, <2>2
<1>4. ASSUME Len(lines) >= 1
      PROVE  /\ a \in TermSet /\ a.input = t.input /\ a.cursor = t.cursor /\ a.scroll = 0
             /\ la \in Seq(Lines) /\ Holds(a, la) /\ (Clean(t) => Clean(a))
             /\ Len(la) = N + 1 /\ la[N + 1] = lines[1] /\ \A k \in 1 .. N : la[k] = log[k]
  <2>1. lines[1] \in Lines /\ Cut(lines[1]) = lines[1]
    BY <1>1, <1>4
  <2>2. a \in TermSet /\ a.input = t.input /\ a.cursor = t.cursor /\ a.scroll = 0
    BY <2>1, AppendIs
  <2>3. la \in Seq(Lines) /\ Holds(a, la) /\ (Clean(t) => Clean(a))
    BY <2>1, AppendHolds
  <2>4. Len(la) = N + 1 /\ la[N + 1] = lines[1] /\ \A k \in 1 .. N : la[k] = log[k]
    BY <2>1, AppendProperties
  <2>. QED
    BY <2>2, <2>3, <2>4
<1>5. CASE Len(lines) = 1
  <2>1. TermAppendLines(t, lines) = a
    BY <1>1, <1>5, AppendLinesAre
  <2>2. log \o lines = la
    <3>1. \A k \in 1 .. N + 1 : la[k] = (log \o lines)[k]
      BY <1>2, <1>4, <1>5
    <3>. QED
      BY <1>2, <1>4, <1>5, <3>1, SeqEqual
  <2>. HIDE DEF a, la
  <2>. QED
    BY <1>4, <1>5, <1>2, <2>1, <2>2
<1>6. CASE Len(lines) = 2
  <2>1. TermAppendLines(t, lines) = b
    <3>1. ~(Len(lines) = 0) /\ ~(Len(lines) = 1)
      BY <1>6
    <3>. QED
      BY <1>1, <3>1, AppendLinesAre, Zenon
  <2>2. lines[2] \in Lines /\ Cut(lines[2]) = lines[2]
    BY <1>1, <1>6
  <2>3. Len(lines) >= 1
    BY <1>6
  <2>. HIDE DEF a, la
  <2>4. b \in TermSet /\ b.input = a.input /\ b.cursor = a.cursor /\ b.scroll = 0
    BY <1>4, <2>2, <2>3, AppendIs
  <2>5. lb \in Seq(Lines) /\ Holds(b, lb) /\ (Clean(a) => Clean(b))
    BY <1>4, <2>2, <2>3, AppendHolds
  <2>6. Len(lb) = N + 2 /\ lb[N + 2] = lines[2] /\ \A k \in 1 .. N + 1 : lb[k] = la[k]
    BY <1>2, <1>4, <2>2, <2>3, AppendProperties
  <2>7. log \o lines = lb
    <3>1. \A k \in 1 .. N + 2 : lb[k] = (log \o lines)[k]
      BY <1>2, <1>4, <1>6, <2>3, <2>6
    <3>. QED
      BY <1>2, <1>6, <2>5, <2>6, <3>1, SeqEqual
  <2>. HIDE DEF b, lb
  <2>. QED
    BY <1>2, <1>4, <2>1, <2>3, <2>4, <2>5, <2>7
<1>. QED
  BY <1>1, <1>3, <1>5, <1>6

-----------------------------------------------------------------------------
(* What is typed and what it prints.                                        *)

(* A set of natural numbers has a least member.                              *)
LEMMA LeastNat ==
  ASSUME NEW T \in SUBSET Nat, T # {}
  PROVE  \E m \in T : \A k \in T : m <= k
<1>. DEFINE Below(n) == 0 .. (n - 1)
            B == {Below(n) : n \in T}
<1>1. \A n \in Nat : IsFiniteSet(Below(n)) /\ Below(n) \in SUBSET Nat
  BY FS_Interval
<1>2. B \subseteq FiniteSubsetsOf(Nat) /\ B # {}
  BY <1>1 DEF FiniteSubsetsOf
<1>3. \E x \in B : \A y \in B : ~(<<y, x>> \in StrictSubsetOrdering(Nat))
  BY <1>2, FS_StrictSubsetOrderingWellFounded, WFMin
<1>4. PICK m \in T : \A k \in T : ~(<<Below(k), Below(m)>> \in StrictSubsetOrdering(Nat))
  BY <1>3
<1>5. ASSUME NEW k \in T, k < m PROVE FALSE
  <2>1. Below(k) \subseteq Below(m) /\ k \in Below(m) /\ k \notin Below(k)
    BY <1>5
  <2>2. Below(k) \in SUBSET Nat /\ Below(m) \in SUBSET Nat
    OBVIOUS
  <2>3. <<Below(k), Below(m)>> \in StrictSubsetOrdering(Nat)
    BY <2>1, <2>2, Zenon DEF StrictSubsetOrdering
  <2>. QED
    BY <2>3, <1>4
<1>. QED
  BY <1>5

LEMMA FirstType ==
  ASSUME NEW line \in Lines
  PROVE  FirstOf(line) \in 0 .. Len(line)
<1>. DEFINE I == {i \in 1 .. Len(line) : line[i] # " "}
<1>1. FirstOf(line) = IF I # {} THEN Min(I) ELSE 0
  BY DEF FirstOf, SelectInSeq
<1>2. Len(line) \in Nat
  BY LenProperties DEF Lines
<1>3. I \subseteq 1 .. Len(line)
  OBVIOUS
<1>. HIDE DEF I
<1>6. I \in SUBSET Nat
  BY <1>2, <1>3
<1>4. CASE I = {}
  BY <1>1, <1>2, <1>4
<1>5. CASE I # {}
  <2>1. \E i \in I : \A j \in I : i <= j
    BY <1>5, <1>6, LeastNat
  <2>2. Min(I) \in I
    BY <2>1 DEF Min
  <2>. QED
    <3>1. FirstOf(line) \in I
      BY <1>1, <1>5, <2>2
    <3>2. FirstOf(line) \in 1 .. Len(line)
      BY <1>3, <3>1
    <3>. QED
      BY <1>2, <3>2
<1>. QED
  BY <1>4, <1>5

LEMMA TailType ==
  ASSUME NEW line \in Lines, NEW m \in 1 .. Len(line) + 1
  PROVE  /\ SubSeq(line, m, Len(line)) \in Lines
         /\ Len(SubSeq(line, m, Len(line))) = Len(line) + 1 - m
<1>1. Len(line) \in Nat /\ \A i \in 1 .. Len(line) : line[i] \in Chars
  BY LenProperties, ElementOfSeq DEF Lines
<1>2. \A i \in m .. Len(line) : line[i] \in Chars
  BY <1>1
<1>3. m \in Int /\ Len(line) \in Int
  BY <1>1
<1>4. /\ SubSeq(line, m, Len(line)) \in Lines
      /\ Len(SubSeq(line, m, Len(line))) = IF m <= Len(line) THEN Len(line) - m + 1 ELSE 0
  BY <1>2, <1>3, SubSeqProperties DEF Lines
<1>. QED
  BY <1>1, <1>4

LEMMA OneLine ==
  ASSUME NEW line \in Lines, Len(line) < LineMax
  PROVE  Said(<< line >>)
  BY Sizes DEF Said

LEMMA Words ==
  /\ Said(<< << "?" >> >>) /\ Said(<< << "1" >>, << "2" >> >>) /\ Said(<< >>)
<1>1. /\ << "?" >> \in Lines /\ << "1" >> \in Lines /\ << "2" >> \in Lines
  BY DEF Lines, Chars
<1>2. Len(<< "?" >>) = 1 /\ Len(<< "1" >>) = 1 /\ Len(<< "2" >>) = 1
  OBVIOUS
<1>3. Said(<< << "?" >> >>)
  <2>. DEFINE p == << "?" >>
  <2>1. p \in Lines /\ Len(p) < LineMax
    BY <1>1, <1>2, Sizes
  <2>. HIDE DEF p
  <2>2. Said(<< p >>)
    BY <2>1, OneLine
  <2>. QED
    BY <2>2 DEF p
<1>4. Said(<< >>)
  BY DEF Said
<1>5. Said(<< << "1" >>, << "2" >> >>)
  <2>. DEFINE p == << "1" >>
              q == << "2" >>
  <2>1. p \in Lines /\ q \in Lines /\ Len(p) < LineMax /\ Len(q) < LineMax
    BY <1>1, <1>2, Sizes
  <2>. HIDE DEF p, q
  <2>2. << p, q >> \in Seq(Lines) /\ Len(<< p, q >>) = 2
    BY <2>1
  <2>3. << p, q >>[1] = p /\ << p, q >>[2] = q
    OBVIOUS
  <2>4. \A k \in 1 .. Len(<< p, q >>) : Len(<< p, q >>[k]) < LineMax
    BY <2>1, <2>2, <2>3
  <2>5. Said(<< p, q >>)
    BY <2>2, <2>4 DEF Said
  <2>. QED
    BY <2>5 DEF p, q
<1>. QED
  BY <1>3, <1>4, <1>5

LEMMA AnswerSaid ==
  ASSUME NEW input \in Lines, Len(input) < LineMax
  PROVE  Said(Answer(input))
<1>. DEFINE at == FirstOf(input)
            rest == SubSeq(input, at + 1, Len(input))
            first == FirstOf(rest)
            echo == SubSeq(rest, first, Len(rest))
<1>1. Len(input) \in Nat /\ at \in 0 .. Len(input)
  BY FirstType, LenProperties DEF Lines
<1>2. rest \in Lines /\ Len(rest) = Len(input) + 1 - (at + 1)
  <2>1. at + 1 \in 1 .. Len(input) + 1
    BY <1>1
  <2>. HIDE DEF at
  <2>. QED
    BY <2>1, TailType
<1>. HIDE DEF at
<1>3. Len(rest) \in 0 .. Len(input)
  BY <1>1, <1>2
<1>. HIDE DEF rest
<1>4. first \in 0 .. Len(rest)
  BY <1>2, FirstType
<1>. HIDE DEF first
<1>5. ASSUME first # 0 PROVE Said(<< echo >>)
  <2>1. first \in 1 .. Len(rest) + 1
    BY <1>3, <1>4, <1>5
  <2>2. echo \in Lines /\ Len(echo) = Len(rest) + 1 - first
    BY <1>2, <2>1, TailType
  <2>3. Len(echo) < LineMax
    BY <1>1, <1>3, <2>1, <2>2, Sizes
  <2>. HIDE DEF echo
  <2>. QED
    BY <2>2, <2>3, OneLine
<1>. HIDE DEF echo
<1>6. Answer(input) \in {<< << "?" >> >>, << << "1" >>, << "2" >> >>, << >>}
      \/ (first # 0 /\ Answer(input) = << echo >>)
  BY Zenon DEF Answer, at, rest, first, echo
<1>. QED
  BY <1>5, <1>6, Words, Zenon

-----------------------------------------------------------------------------
(* The terminal is what its user thinks of it.                              *)

UserSet == [log : Seq(Lines), left : Seq(Keys), right : Seq(Keys), back : Nat, cleared : BOOLEAN]

Scrolled(t, u) ==
  /\ Holds(t, u.log) /\ (~u.cleared => Clean(t))
  /\ t.scroll = u.back /\ u.back <= t.len

Typed(t, u) ==
  /\ t.input = u.left \o u.right /\ t.cursor = Len(u.left)
  /\ Len(u.left) + Len(u.right) <= LineMax - 1

TermInv(t, u) == t \in TermSet /\ u \in UserSet /\ Scrolled(t, u) /\ Typed(t, u)

LEMMA InvShows ==
  ASSUME NEW t, NEW u, TermInv(t, u), NEW body \in Bodies
  PROVE  TermShows(t, u, body)
<1>1. /\ t.lines \in [Slots -> Lines] /\ t.len \in 0 .. ScrollMax /\ t.scroll \in Nat
      /\ u.log \in Seq(Lines) /\ u.back \in Nat /\ Len(u.log) \in Nat
  BY LenProperties DEF TermInv, TermSet, UserSet
<1>. DEFINE N == Len(u.log)
            H == IF N < ScrollMax THEN N ELSE ScrollMax
            rows == Rows(body)
            shown == TermRender(t, body)
            start == t.len - (rows - 1) - t.scroll
            from == IF start < 0 THEN 0 ELSE start
<1>0. rows \in Nat /\ rows >= 2
  BY BodyRows
<1>. HIDE DEF rows
<1>2. /\ t.len = H /\ t.scroll = u.back /\ u.back <= t.len
      /\ \A k \in 1 .. t.len : t.lines[k] = u.log[N - t.len + k]
  BY DEF TermInv, Scrolled, Holds, HeldOf
<1>3. ASSUME NEW i \in 1 .. rows - 1, i <= ScrollMax, ~(u.cleared /\ i > Len(u.log))
      PROVE  from + i <= ScrollMax /\ t.lines[from + i] = LogRow(u, rows, i)
  <2>. DEFINE top == N - (rows - 1) - u.back
              oldest == N - H
              n == i + (IF top < oldest THEN oldest ELSE top)
  <2>2. LogRow(u, rows, i) = IF n <= N THEN u.log[n] ELSE Blank
    BY DEF LogRow, Held
  <2>3. N \in Nat
    BY <1>1
  <2>. HIDE DEF N
  <2>4. from + i = n - (N - H) /\ n \in Int /\ from \in Nat
    BY <1>0, <1>1, <1>2, <2>3, Sizes
  <2>5. n <= N <=> from + i <= t.len
    BY <1>1, <1>2, <2>3, <2>4, Sizes
  <2>6. from + i \in 1 .. ScrollMax
    BY <1>0, <1>1, <1>2, <1>3, <2>3, Sizes
  <2>. HIDE DEF n, from
  <2>7. CASE n <= N
    <3>1. from + i \in 1 .. t.len /\ N - t.len + (from + i) = n
      <4>1. from + i \in 1 .. t.len
        BY <1>1, <2>5, <2>6, <2>7
      <4>2. N - t.len + (from + i) = n
        <5>. DEFINE x == from + i
                    h == t.len
        <5>1. x = n - (N - h) /\ n \in Int /\ h \in Int /\ N \in Int
          BY <1>1, <1>2, <2>3, <2>4
        <5>. HIDE DEF x, h
        <5>2. N - h + x = n
          BY ONLY <5>1
        <5>. QED
          BY <5>2 DEF x, h
      <4>. QED
        BY <4>1, <4>2
    <3>. QED
      BY <1>2, <2>2, <2>6, <2>7, <3>1
  <2>8. CASE ~(n <= N)
    <3>1. from + i \in (t.len + 1) .. ScrollMax
      BY <1>1, <2>4, <2>5, <2>6, <2>8
    <3>2. ~u.cleared
      <4>1. start < 0 \/ from = start
        BY DEF from
      <4>2. i > N
        BY <1>0, <1>1, <1>2, <2>3, <2>5, <2>8, <3>1, Sizes DEF from
      <4>. QED
        BY <1>3, <4>2 DEF N
    <3>. QED
      BY <2>2, <2>6, <2>8, <3>1, <3>2 DEF TermInv, Scrolled, Clean
  <2>. QED
    BY <2>6, <2>7, <2>8
<1>4. /\ t.input = u.left \o u.right /\ t.cursor = Len(u.left)
      /\ shown.input = Fit(Prompt \o u.left \o u.right, Cols(body))
      /\ shown.caret = Len(Fit(Prompt, Cols(body))) + Len(u.left)
  <2>1. Prompt \o t.input = Prompt \o u.left \o u.right
    BY ConcatAssociative DEF TermInv, Typed, UserSet, Prompt
  <2>. QED
    BY <2>1 DEF TermInv, Typed, TermRender
<1>5. ASSUME NEW i \in 1 .. rows - 1, i <= ScrollMax, ~(u.cleared /\ i > Len(u.log))
      PROVE  i \in DOMAIN shown.rows /\ shown.rows[i] = Fit(LogRow(u, rows, i), Cols(body))
  <2>1. from + i <= ScrollMax /\ t.lines[from + i] = LogRow(u, rows, i)
    BY <1>3, <1>5
  <2>2. shown.rows = [k \in {k \in 1 .. rows - 1 : from + k <= ScrollMax} |->
                        Fit(t.lines[from + k], Cols(body))]
    BY DEF TermRender, rows
  <2>. QED
    BY <1>5, <2>1, <2>2
<1>6. \A i \in 1 .. rows - 1 : i > ScrollMax \/ i <= ScrollMax
  BY <1>0, Sizes
<1>. QED
  BY <1>4, <1>5, <1>6 DEF TermShows, rows

LEMMA OpenInv ==
  ASSUME NEW lines \in [Slots -> Lines]
  PROVE  /\ TermOpen(lines) \in TermSet
         /\ TermInv(TermOpen(lines), [LogOpen EXCEPT !.cleared = TRUE])
         /\ lines = [k \in Slots |-> Blank] => TermInv(TermOpen(lines), LogOpen)
<1>. DEFINE t0 == [lines |-> lines, len |-> 0, scroll |-> 0, input |-> << >>, cursor |-> 0]
            t == TermOpen(lines)
<1>1. t0 \in TermSet /\ t0.input = << >> /\ t0.cursor = 0 /\ t0.scroll = 0
  BY Sizes DEF TermSet
<1>2. << >> \in Seq(Lines) /\ Holds(t0, << >>)
  BY Sizes DEF Holds, HeldOf
<1>3. lines = [k \in Slots |-> Blank] => Clean(t0)
  BY Sizes DEF Clean, Slots
<1>4. t = TermAppendLines(t0, Banner)
  BY DEF TermOpen
<1>5. Said(Banner) /\ Banner \in Seq(Lines)
  <2>. DEFINE p == << "s" >>
              q == << "t" >>
  <2>1. p \in Lines /\ q \in Lines
    <3>1. "s" \in Chars /\ "t" \in Chars
      BY DEF Chars
    <3>. QED
      BY <3>1 DEF Lines
  <2>2. Len(p) = 1 /\ Len(q) = 1
    OBVIOUS
  <2>3. Banner = << p, q >>
    BY DEF Banner
  <2>. HIDE DEF p, q
  <2>4. << p, q >> \in Seq(Lines) /\ Len(<< p, q >>) = 2 /\ << p, q >>[1] = p /\ << p, q >>[2] = q
    BY <2>1
  <2>5. \A k \in 1 .. Len(<< p, q >>) : Len(<< p, q >>[k]) < LineMax
    <3>1. ASSUME NEW k \in 1 .. Len(<< p, q >>) PROVE Len(<< p, q >>[k]) = 1
      <4>1. k = 1 \/ k = 2
        BY <2>4
      <4>. QED
        BY ONLY <2>2, <2>4, <4>1, Zenon
    <3>2. 1 < LineMax
      BY Sizes
    <3>. QED
      BY ONLY <3>1, <3>2, Zenon
  <2>6. Said(<< p, q >>)
    BY <2>4, <2>5 DEF Said
  <2>. QED
    BY <2>3, <2>4, <2>6
<1>. HIDE DEF t0
<1>6. /\ t \in TermSet /\ t.input = << >> /\ t.cursor = 0 /\ t.scroll = 0
      /\ Holds(t, << >> \o Banner) /\ (Clean(t0) => Clean(t))
  <2>1. Said(Banner) /\ << >> \in Seq(Lines) /\ Holds(t0, << >>) /\ t0 \in TermSet
    BY <1>1, <1>2, <1>5
  <2>. DEFINE s == TermAppendLines(t0, Banner)
  <2>2. /\ s \in TermSet /\ s.input = t0.input /\ s.cursor = t0.cursor
        /\ t0.scroll = 0 => s.scroll = 0
        /\ Holds(s, << >> \o Banner) /\ (Clean(t0) => Clean(s))
    BY ONLY <2>1, AppendLinesHold, Zenon
  <2>3. t = s
    BY <1>4
  <2>. HIDE DEF s, t
  <2>. QED
    BY ONLY <1>1, <2>2, <2>3, Zenon
<1>7. << >> \o Banner = Banner
  BY <1>5, ConcatEmptySeq
<1>. HIDE DEF t
<1>8. ASSUME NEW u \in UserSet, u.log = Banner, u.left = << >>, u.right = << >>, u.back = 0,
             ~u.cleared => Clean(t)
      PROVE  TermInv(t, u)
  <2>1. Typed(t, u)
    BY <1>6, <1>8, Sizes DEF Typed
  <2>2. Scrolled(t, u)
    BY <1>6, <1>7, <1>8 DEF Scrolled, TermSet
  <2>. QED
    BY <1>6, <2>1, <2>2 DEF TermInv
<1>9. << >> \in Seq(Keys) /\ LogOpen \in UserSet /\ [LogOpen EXCEPT !.cleared = TRUE] \in UserSet
  <2>1. << >> \in Seq(Keys)
    BY EmptySeq
  <2>2. LogOpen \in UserSet
    BY <1>5, <2>1 DEF LogOpen, UserSet
  <2>3. ASSUME NEW b \in BOOLEAN
        PROVE  [LogOpen EXCEPT !.cleared = b] \in UserSet
    BY <2>2 DEF UserSet
  <2>4. TRUE \in BOOLEAN
    OBVIOUS
  <2>5. [LogOpen EXCEPT !.cleared = TRUE] \in UserSet
    BY <2>3, <2>4, Zenon
  <2>. QED
    BY <2>1, <2>2, <2>5
<1>10. TermInv(t, [LogOpen EXCEPT !.cleared = TRUE])
  BY <1>8, <1>9 DEF LogOpen
<1>11. ASSUME lines = [k \in Slots |-> Blank] PROVE TermInv(t, LogOpen)
  <2>1. Clean(t)
    BY <1>3, <1>6, <1>11
  <2>. QED
    BY <1>8, <1>9, <2>1 DEF LogOpen
<1>. QED
  BY <1>6, <1>10, <1>11 DEF t

LEMMA Concat ==
  ASSUME NEW S, NEW p \in Seq(S), NEW q \in Seq(S)
  PROVE  p \o q \in Seq(S) /\ Len(p \o q) = Len(p) + Len(q)
  BY ConcatProperties

LEMMA EnterInv ==
  ASSUME NEW t, NEW u, TermInv(t, u)
  PROVE  TermInv(TermExec(t), LogEnter(u))
<1>. DEFINE input == t.input
            line == Prompt \o input
            shown == TermAppendLine(t, line)
            echoed == [shown EXCEPT !.input = << >>, !.cursor = 0]
            log == Append(u.log, Cut(line))
            printed == TermAppendLines(echoed, Answer(input))
            v == LogEnter(u)
<1>1. /\ t \in TermSet /\ u \in UserSet /\ Holds(t, u.log) /\ (~u.cleared => Clean(t))
      /\ t.input \in Seq(Keys) /\ t.input = u.left \o u.right
      /\ u.left \in Seq(Keys) /\ u.right \in Seq(Keys) /\ u.log \in Seq(Lines)
      /\ Len(u.left) + Len(u.right) <= LineMax - 1 /\ u.cleared \in BOOLEAN
  BY DEF TermInv, Scrolled, Typed, TermSet, UserSet
<1>2. input \in Lines /\ Len(input) < LineMax
  <2>1. Len(input) = Len(u.left) + Len(u.right)
    BY <1>1, Concat
  <2>2. Len(u.left) \in Nat /\ Len(u.right) \in Nat
    BY <1>1, LenProperties
  <2>. QED
    <3>1. input \in Lines
      BY <1>1, KeysAreChars
    <3>. HIDE DEF input
    <3>2. Len(u.left) + Len(u.right) <= LineMax - 1
      BY <1>1
    <3>3. Len(input) < LineMax
      <4>. DEFINE n == Len(input)
                  l == Len(u.left)
                  r == Len(u.right)
      <4>1. n = l + r /\ l \in Nat /\ r \in Nat /\ l + r <= LineMax - 1
        BY <2>1, <2>2, <3>2
      <4>. HIDE DEF n, l, r
      <4>2. n < LineMax
        BY ONLY <4>1, Sizes
      <4>. QED
        BY <4>2 DEF n
    <3>. QED
      BY <3>1, <3>3
<1>3. line \in Lines
  <2>1. Prompt \in Lines
    BY DEF Prompt, Lines, Chars
  <2>. QED
    BY <1>2, <2>1, Concat DEF Lines
<1>4. Said(Answer(input))
  BY <1>2, AnswerSaid
<1>. HIDE DEF input, line
<1>5. shown \in TermSet /\ shown.scroll = 0
  BY <1>1, <1>3, AppendIs
<1>6. log \in Seq(Lines) /\ Holds(shown, log) /\ (Clean(t) => Clean(shown))
  BY <1>1, <1>3, AppendHolds
<1>. HIDE DEF shown
<1>7. /\ echoed \in TermSet /\ echoed.input = << >> /\ echoed.cursor = 0 /\ echoed.scroll = 0
      /\ echoed.lines = shown.lines /\ echoed.len = shown.len
  <2>1. /\ shown.lines \in [Slots -> Lines] /\ shown.len \in 0 .. ScrollMax
        /\ << >> \in Seq(Keys) /\ 0 \in Nat
    BY <1>5, EmptySeq DEF TermSet
  <2>2. echoed = [lines |-> shown.lines, len |-> shown.len, scroll |-> shown.scroll,
                  input |-> << >>, cursor |-> 0]
    <3>1. echoed = [shown EXCEPT !.input = << >>, !.cursor = 0]
      OBVIOUS
    <3>. HIDE DEF echoed
    <3>. QED
      BY <1>5, <3>1 DEF TermSet
  <2>. HIDE DEF echoed
  <2>. QED
    BY <1>5, <2>1, <2>2 DEF TermSet
<1>. HIDE DEF echoed
<1>8. Holds(echoed, log) /\ (Clean(t) => Clean(echoed))
  BY <1>6, <1>7 DEF Holds, Clean
<1>9. /\ printed \in TermSet /\ printed.input = << >> /\ printed.cursor = 0
      /\ printed.scroll = 0 /\ log \o Answer(input) \in Seq(Lines)
      /\ Holds(printed, log \o Answer(input)) /\ (Clean(t) => Clean(printed))
  BY <1>4, <1>6, <1>7, <1>8, AppendLinesHold
<1>. HIDE DEF printed
<1>10. /\ FirstOf(input) = 0 => TermExec(t) = echoed
       /\ FirstOf(input) # 0 /\ IsClear(input) =>
            TermExec(t) = [echoed EXCEPT !.len = 0, !.scroll = 0]
       /\ FirstOf(input) # 0 /\ ~IsClear(input) => TermExec(t) = printed
  BY DEF TermExec, input, line, shown, echoed, printed
<1>11. input = u.left \o u.right
  BY <1>1 DEF input
<1>12. ASSUME NEW w \in TermSet, NEW l \in Seq(Lines), NEW c \in BOOLEAN, w.input = << >>,
              w.cursor = 0, w.scroll = 0, Holds(w, l), ~c => Clean(w),
              v = [log |-> l, left |-> << >>, right |-> << >>, back |-> 0, cleared |-> c]
       PROVE  TermInv(w, v)
  <2>1. v \in UserSet /\ v.log = l /\ v.left = << >> /\ v.right = << >> /\ v.back = 0
        /\ v.cleared = c
    BY <1>12 DEF UserSet
  <2>. HIDE DEF v
  <2>2. Typed(w, v)
    BY <1>12, <2>1, Sizes DEF Typed
  <2>3. Scrolled(w, v)
    BY <1>12, <2>1 DEF Scrolled, TermSet
  <2>. QED
    BY <1>12, <2>1, <2>2, <2>3 DEF TermInv
<1>13. CASE FirstOf(input) = 0
  <2>1. v = [log |-> log, left |-> << >>, right |-> << >>, back |-> 0, cleared |-> u.cleared]
    BY <1>11, <1>13 DEF LogEnter, LogOpen, line
  <2>2. ~u.cleared => Clean(echoed)
    BY <1>1, <1>8
  <2>3. TermExec(t) = echoed
    BY <1>10, <1>13
  <2>. HIDE DEF v, log
  <2>. QED
    BY <1>1, <1>6, <1>7, <1>8, <1>12, <2>1, <2>2, <2>3 DEF v
<1>14. CASE FirstOf(input) # 0 /\ IsClear(input)
  <2>. DEFINE w == [echoed EXCEPT !.len = 0, !.scroll = 0]
  <2>1. v = [log |-> << >>, left |-> << >>, right |-> << >>, back |-> 0, cleared |-> TRUE]
    BY <1>11, <1>14 DEF LogEnter, LogOpen
  <2>2. w \in TermSet /\ w.input = << >> /\ w.cursor = 0 /\ w.scroll = 0 /\ w.len = 0
    <3>1. /\ echoed.lines \in [Slots -> Lines] /\ 0 \in 0 .. ScrollMax
          /\ << >> \in Seq(Keys) /\ 0 \in Nat
      BY <1>7, EmptySeq, Sizes DEF TermSet
    <3>2. w = [lines |-> echoed.lines, len |-> 0, scroll |-> 0, input |-> << >>, cursor |-> 0]
      <4>1. w = [echoed EXCEPT !.len = 0, !.scroll = 0]
        OBVIOUS
      <4>. HIDE DEF w
      <4>. QED
        BY <1>7, <4>1 DEF TermSet
    <3>. HIDE DEF w
    <3>. QED
      BY <3>1, <3>2 DEF TermSet
  <2>3. TermExec(t) = w
    BY <1>10, <1>14
  <2>. HIDE DEF v, w
  <2>4. << >> \in Seq(Lines) /\ Holds(w, << >>)
    BY <2>2, Sizes DEF Holds, HeldOf
  <2>. QED
    BY <1>12, <2>1, <2>2, <2>3, <2>4 DEF v
<1>15. CASE FirstOf(input) # 0 /\ ~IsClear(input)
  <2>1. v = [log |-> log \o Answer(input), left |-> << >>, right |-> << >>, back |-> 0,
             cleared |-> u.cleared]
    BY <1>11, <1>15 DEF LogEnter, LogOpen, line
  <2>2. ~u.cleared => Clean(printed)
    BY <1>1, <1>9
  <2>3. TermExec(t) = printed
    BY <1>10, <1>15
  <2>. HIDE DEF v, log
  <2>. QED
    BY <1>1, <1>9, <1>12, <2>1, <2>2, <2>3 DEF v
<1>. QED
  BY <1>13, <1>14, <1>15

-----------------------------------------------------------------------------
(* The command line: l and r are left and right of the cursor.              *)

LEMMA SeqParts ==
  ASSUME NEW S, NEW l \in Seq(S), NEW r \in Seq(S)
  PROVE  /\ l \o r \in Seq(S) /\ Len(l) \in Nat /\ Len(r) \in Nat
         /\ Len(l \o r) = Len(l) + Len(r)
         /\ \A i \in 1 .. Len(l) + Len(r) :
              (l \o r)[i] = IF i <= Len(l) THEN l[i] ELSE r[i - Len(l)]
  BY ConcatProperties, LenProperties

LEMMA FrontIs ==
  ASSUME NEW S, NEW l \in Seq(S), l # << >>
  PROVE  /\ Front(l) \in Seq(S) /\ Len(Front(l)) = Len(l) - 1
         /\ \A i \in 1 .. Len(l) - 1 : Front(l)[i] = l[i]
         /\ Last(l) \in S /\ Last(l) = l[Len(l)] /\ Len(l) \in Nat \ {0}
<1>1. Len(l) \in Nat \ {0} /\ \A i \in 1 .. Len(l) : l[i] \in S
  BY EmptySeq, ElementOfSeq
<1>. DEFINE n == Len(l) - 1
<1>2. n \in Int /\ n >= 0 /\ \A i \in 1 .. n : l[i] \in S
  BY <1>1
<1>. HIDE DEF n
<1>3. /\ SubSeq(l, 1, n) \in Seq(S) /\ Len(SubSeq(l, 1, n)) = IF 1 <= n THEN n - 1 + 1 ELSE 0
      /\ \A i \in 1 .. (n - 1) + 1 : SubSeq(l, 1, n)[i] = l[1 + i - 1]
  BY <1>2, SubSeqProperties
<1>4. Front(l) = SubSeq(l, 1, n)
  BY DEF Front, n
<1>5. Len(Front(l)) = n
  BY <1>2, <1>3, <1>4
<1>6. \A i \in 1 .. n : Front(l)[i] = l[i]
  BY <1>2, <1>3, <1>4
<1>7. Last(l) = l[Len(l)] /\ Last(l) \in S
  BY <1>1 DEF Last
<1>. QED
  BY <1>1, <1>3, <1>4, <1>5, <1>6, <1>7 DEF n

LEMMA LeftOf ==
  ASSUME NEW S, NEW l \in Seq(S), NEW r \in Seq(S), l # << >>
  PROVE  /\ << Last(l) >> \o r \in Seq(S) /\ Len(<< Last(l) >> \o r) = Len(r) + 1
         /\ Front(l) \o (<< Last(l) >> \o r) = l \o r
<1>. DEFINE f == Front(l)
            one == << Last(l) >>
            q == one \o r
<1>1. /\ f \in Seq(S) /\ Len(f) = Len(l) - 1 /\ (\A i \in 1 .. Len(l) - 1 : f[i] = l[i])
      /\ Last(l) = l[Len(l)] /\ Len(l) \in Nat \ {0} /\ Last(l) \in S
  BY FrontIs
<1>2. one \in Seq(S) /\ Len(one) = 1 /\ one[1] = l[Len(l)]
  BY <1>1
<1>. HIDE DEF f, one
<1>3. /\ q \in Seq(S) /\ Len(q) = 1 + Len(r) /\ Len(r) \in Nat
      /\ \A i \in 1 .. 1 + Len(r) : q[i] = IF i <= 1 THEN l[Len(l)] ELSE r[i - 1]
  <2>1. /\ q \in Seq(S) /\ Len(q) = Len(one) + Len(r) /\ Len(r) \in Nat
        /\ \A i \in 1 .. Len(one) + Len(r) :
             q[i] = IF i <= Len(one) THEN one[i] ELSE r[i - Len(one)]
    BY <1>2, SeqParts
  <2>. HIDE DEF q
  <2>2. ASSUME NEW i \in 1 .. 1 + Len(r)
        PROVE  q[i] = IF i <= 1 THEN l[Len(l)] ELSE r[i - 1]
    <3>1. q[i] = IF i <= 1 THEN one[i] ELSE r[i - 1]
      BY <1>2, <2>1
    <3>2. i <= 1 => i = 1
      BY <2>1
    <3>. QED
      BY <1>2, <3>1, <3>2
  <2>. QED
    BY <1>2, <2>1, <2>2
<1>. HIDE DEF q
<1>4. /\ f \o q \in Seq(S) /\ Len(f \o q) = Len(f) + Len(q)
      /\ \A i \in 1 .. Len(f) + Len(q) : (f \o q)[i] = IF i <= Len(f) THEN f[i] ELSE q[i - Len(f)]
  BY <1>1, <1>3, SeqParts
<1>5. /\ l \o r \in Seq(S) /\ Len(l \o r) = Len(l) + Len(r)
      /\ \A i \in 1 .. Len(l) + Len(r) : (l \o r)[i] = IF i <= Len(l) THEN l[i] ELSE r[i - Len(l)]
  BY SeqParts
<1>6. ASSUME NEW i \in 1 .. Len(l) + Len(r) PROVE (f \o q)[i] = (l \o r)[i]
  <2>. DEFINE n == Len(l)
              m == Len(r)
  <2>1. n \in Nat \ {0} /\ m \in Nat /\ i \in 1 .. n + m /\ i \in 1 .. Len(f) + Len(q)
    BY <1>1, <1>3
  <2>2. CASE i < n
    <3>1. i \in 1 .. n - 1 /\ i <= Len(f) /\ i <= n
      BY <1>1, <2>1, <2>2
    <3>. QED
      BY <1>1, <1>4, <1>5, <2>1, <3>1
  <2>3. CASE i = n
    <3>1. ~(i <= Len(f)) /\ i - Len(f) = 1 /\ i <= n
      BY <1>1, <2>1, <2>3
    <3>2. q[1] = l[Len(l)]
      BY <1>3
    <3>. QED
      BY <1>4, <1>5, <2>1, <2>3, <3>1, <3>2
  <2>4. CASE i > n
    <3>1. ~(i <= Len(f)) /\ i - Len(f) = (i - n) + 1 /\ ~(i <= n) /\ i - n \in 1 .. m
      BY <1>1, <2>1, <2>4
    <3>2. q[(i - n) + 1] = r[i - n]
      BY <1>3, <2>1, <3>1
    <3>. QED
      BY <1>4, <1>5, <2>1, <3>1, <3>2
  <2>. QED
    BY <2>1, <2>2, <2>3, <2>4
<1>7. Len(f \o q) = Len(l \o r)
  BY <1>1, <1>3, <1>4, <1>5
<1>8. f \o q = l \o r
  <2>1. \A i \in 1 .. Len(l \o r) : (l \o r)[i] = (f \o q)[i]
    BY <1>5, <1>6
  <2>. QED
    BY <1>4, <1>5, <1>7, <2>1, SeqEqual
<1>. QED
  BY <1>3, <1>8 DEF f, q, one

LEMMA RightOf ==
  ASSUME NEW S, NEW l \in Seq(S), NEW r \in Seq(S), r # << >>
  PROVE  /\ Append(l, Head(r)) \in Seq(S) /\ Len(Append(l, Head(r))) = Len(l) + 1
         /\ Tail(r) \in Seq(S) /\ Len(Tail(r)) = Len(r) - 1 /\ Len(r) \in Nat \ {0}
         /\ Append(l, Head(r)) \o Tail(r) = l \o r
<1>1. /\ Head(r) \in S /\ Tail(r) \in Seq(S) /\ Len(Tail(r)) = Len(r) - 1
      /\ Len(r) \in Nat \ {0}
  BY HeadTailProperties, EmptySeq
<1>2. r = << Head(r) >> \o Tail(r)
  <2>1. SubSeq(r, 1, Len(r)) = << r[1] >> \o SubSeq(r, 1 + 1, Len(r))
    BY <1>1, SubSeqRecursiveFirst
  <2>2. Tail(r) = SubSeq(r, 2, Len(r)) /\ SubSeq(r, 1, Len(r)) = r
    BY TailIsSubSeq, SubSeqFull
  <2>3. Head(r) = r[1]
    BY DEF Head
  <2>4. 1 + 1 = 2
    OBVIOUS
  <2>. QED
    BY <2>1, <2>2, <2>3, <2>4
<1>3. Append(l, Head(r)) \in Seq(S) /\ Len(Append(l, Head(r))) = Len(l) + 1
  BY <1>1, AppendProperties
<1>4. Append(l, Head(r)) = l \o << Head(r) >>
  BY <1>1, AppendIsConcat
<1>5. << Head(r) >> \in Seq(S)
  BY <1>1
<1>6. (l \o << Head(r) >>) \o Tail(r) = l \o (<< Head(r) >> \o Tail(r))
  BY <1>1, <1>5, ConcatAssociative
<1>. QED
  BY <1>1, <1>2, <1>3, <1>4, <1>6

(* The sequence split at the cursor.                                        *)
LEMMA Halves ==
  ASSUME NEW S, NEW l \in Seq(S), NEW r \in Seq(S)
  PROVE  /\ SubSeq(l \o r, 1, Len(l)) = l
         /\ SubSeq(l \o r, Len(l) + 1, Len(l \o r)) = r
<1>. DEFINE s == l \o r
<1>1. /\ s \in Seq(S) /\ Len(l) \in Nat /\ Len(r) \in Nat /\ Len(s) = Len(l) + Len(r)
      /\ \A i \in 1 .. Len(l) + Len(r) : s[i] = IF i <= Len(l) THEN l[i] ELSE r[i - Len(l)]
  BY SeqParts
<1>2. \A i \in 1 .. Len(s) : s[i] \in S
  BY <1>1, ElementOfSeq
<1>. HIDE DEF s
<1>3. SubSeq(s, 1, Len(l)) = l
  <2>. DEFINE n == Len(l)
              p == SubSeq(s, 1, n)
  <2>1. \A i \in 1 .. n : s[i] \in S
    BY <1>1, <1>2
  <2>2. 1 \in Int /\ n \in Int /\ n >= 0
    BY <1>1
  <2>. HIDE DEF n
  <2>3. /\ p \in Seq(S) /\ Len(p) = (IF 1 <= n THEN n - 1 + 1 ELSE 0)
        /\ \A i \in 1 .. (n - 1) + 1 : p[i] = s[1 + i - 1]
    BY <2>1, <2>2, SubSeqProperties
  <2>4. Len(p) = n
    BY <2>2, <2>3
  <2>5. \A i \in 1 .. n : p[i] = s[i]
    BY <2>2, <2>3
  <2>6. \A i \in 1 .. n : s[i] = l[i]
    BY <1>1 DEF n
  <2>7. \A i \in 1 .. Len(p) : p[i] = l[i]
    BY <2>4, <2>5, <2>6
  <2>. HIDE DEF p
  <2>8. p = l
    BY <2>3, <2>4, <2>7, SeqEqual DEF n
  <2>. QED
    BY <2>8 DEF p, n
<1>4. SubSeq(s, Len(l) + 1, Len(s)) = r
  <2>. DEFINE m == Len(l) + 1
              n == Len(s)
              p == SubSeq(s, m, n)
  <2>1. \A i \in m .. n : s[i] \in S
    BY <1>1, <1>2
  <2>2. m \in Int /\ n \in Int /\ m >= 1 /\ n - m + 1 = Len(r) /\ (n - m) + 1 = Len(r)
    BY <1>1
  <2>. HIDE DEF n, m
  <2>3. /\ p \in Seq(S) /\ Len(p) = (IF m <= n THEN n - m + 1 ELSE 0)
        /\ \A i \in 1 .. (n - m) + 1 : p[i] = s[m + i - 1]
    BY <2>1, <2>2, SubSeqProperties
  <2>4. Len(p) = Len(r)
    BY <1>1, <2>2, <2>3
  <2>5. ASSUME NEW i \in 1 .. Len(r) PROVE p[i] = r[i]
    <3>1. p[i] = s[m + i - 1]
      BY <2>2, <2>3
    <3>2. m + i - 1 = Len(l) + i /\ Len(l) + i \in 1 .. Len(l) + Len(r) /\ ~(Len(l) + i <= Len(l))
          /\ (Len(l) + i) - Len(l) = i
      BY <1>1 DEF m
    <3>3. s[Len(l) + i] = r[(Len(l) + i) - Len(l)]
      BY <1>1, <3>2
    <3>. QED
      BY <3>1, <3>2, <3>3
  <2>. HIDE DEF p
  <2>6. p = r
    BY <2>3, <2>4, <2>5, SeqEqual
  <2>. QED
    BY <2>6 DEF p, m, n
<1>. QED
  BY <1>3, <1>4 DEF s

LEMMA FeedInv ==
  ASSUME NEW t, NEW u, TermInv(t, u), NEW key \in Keys
  PROVE  TermInv(TermFeed(t, key), LogFeed(u, key))
<1>. DEFINE t1 == TermFeed(t, key)
            u1 == LogFeed(u, key)
            l == u.left
            r == u.right
<1>1. /\ t \in TermSet /\ u \in UserSet
      /\ t.lines \in [Slots -> Lines] /\ t.len \in 0 .. ScrollMax /\ t.scroll \in Nat
      /\ t.input \in Seq(Keys) /\ t.cursor \in Nat
      /\ u.log \in Seq(Lines) /\ l \in Seq(Keys) /\ r \in Seq(Keys) /\ u.back \in Nat
      /\ u.cleared \in BOOLEAN
  BY DEF TermInv, TermSet, UserSet
<1>2. /\ Holds(t, u.log) /\ (~u.cleared => Clean(t)) /\ t.scroll = u.back /\ u.back <= t.len
      /\ t.input = l \o r /\ t.cursor = Len(l) /\ Len(l) + Len(r) <= LineMax - 1
  BY DEF TermInv, Scrolled, Typed
<1>3. Len(l) \in Nat /\ Len(r) \in Nat /\ Len(t.input) = Len(l) + Len(r)
      /\ (l = << >> <=> Len(l) = 0) /\ (r = << >> <=> Len(r) = 0)
  BY <1>1, <1>2, SeqParts, EmptySeq
\* A step that leaves the scrollback alone.
<1>. DEFINE After(nl, nr, b) ==
              /\ t1 = [lines |-> t.lines, len |-> t.len, scroll |-> b, input |-> nl \o nr,
                       cursor |-> Len(nl)]
              /\ u1 = [log |-> u.log, left |-> nl, right |-> nr, back |-> b,
                       cleared |-> u.cleared]
<1>4. ASSUME NEW nl \in Seq(Keys), NEW nr \in Seq(Keys), NEW b \in Nat, b <= t.len,
             Len(nl) + Len(nr) <= LineMax - 1, After(nl, nr, b)
      PROVE  TermInv(t1, u1)
  <2>1. nl \o nr \in Seq(Keys) /\ Len(nl) \in Nat
    BY SeqParts
  <2>2. t1 \in TermSet /\ t1.lines = t.lines /\ t1.len = t.len /\ t1.scroll = b
        /\ t1.input = nl \o nr /\ t1.cursor = Len(nl)
    BY <1>1, <1>4, <2>1 DEF TermSet
  <2>3. u1 \in UserSet /\ u1.log = u.log /\ u1.left = nl /\ u1.right = nr /\ u1.back = b
        /\ u1.cleared = u.cleared
    BY <1>1, <1>4 DEF UserSet
  <2>. HIDE DEF t1, u1
  <2>4. Scrolled(t1, u1)
    BY <1>2, <1>4, <2>2, <2>3 DEF Scrolled, Holds, Clean
  <2>5. Typed(t1, u1)
    BY <1>4, <2>2, <2>3 DEF Typed
  <2>. QED
    BY <2>2, <2>3, <2>4, <2>5 DEF TermInv
<1>5. /\ t = [lines |-> t.lines, len |-> t.len, scroll |-> u.back, input |-> l \o r,
               cursor |-> Len(l)]
      /\ u = [log |-> u.log, left |-> l, right |-> r, back |-> u.back, cleared |-> u.cleared]
  BY <1>1, <1>2 DEF TermSet, UserSet
<1>6. u.back =< Held(u) /\ Held(u) = t.len
  BY <1>2 DEF Holds, HeldOf, Held
<1>. HIDE DEF l, r, After
<1>14. Len(l) + Len(r) <= LineMax - 1 /\ Len(l) \in Nat /\ Len(r) \in Nat /\ LineMax \in Nat
  BY <1>2, <1>3, Sizes
<1>15. l \in Seq(Keys) /\ r \in Seq(Keys) /\ u.back \in Nat /\ u.back <= t.len
  BY <1>1, <1>2 DEF l, r
<1>7. CASE key = "enter"
  <2>1. t1 = TermExec(t) /\ u1 = LogEnter(u)
    BY <1>7 DEF TermFeed, LogFeed
  <2>. QED
    BY <2>1, EnterInv
<1>8. CASE key = "backspace"
  <2>1. CASE l = << >>
    <3>1. t1 = t
      BY <1>2, <1>3, <1>8, <2>1 DEF TermFeed
    <3>2. u1 = u
      BY <1>8, <2>1 DEF LogFeed, l, r
    <3>. QED
      BY <3>1, <3>2
  <2>2. CASE l # << >>
    <3>. DEFINE in == RemoveAt(t.input, t.cursor)
    <3>1. t1 = [t EXCEPT !.input = in, !.cursor = t.cursor - 1]
      BY <1>2, <1>3, <1>8, <2>2 DEF TermFeed
    <3>2. u1 = [u EXCEPT !.left = Front(l)]
      BY <1>8, <2>2 DEF LogFeed, l, r
    <3>3. Front(l) \in Seq(Keys) /\ Len(Front(l)) = Len(l) - 1 /\ Len(l) \in Nat \ {0}
      BY <1>1, <2>2, FrontIs
    <3>4. in = Front(l) \o r
      <4>1. SubSeq(l \o r, Len(l) + 1, Len(l \o r)) = r
        BY <1>1, Halves
      <4>2. SubSeq(l \o r, 1, Len(l) - 1) = Front(l)
        <5>1. l \o r = Front(l) \o (<< Last(l) >> \o r) /\ << Last(l) >> \o r \in Seq(Keys)
          BY <1>1, <2>2, LeftOf
        <5>2. SubSeq(Front(l) \o (<< Last(l) >> \o r), 1, Len(Front(l))) = Front(l)
          BY <3>3, <5>1, Halves
        <5>. QED
          BY <3>3, <5>1, <5>2
      <4>. QED
        BY <1>2, <4>1, <4>2 DEF RemoveAt
    <3>5. in \in Seq(Keys)
      BY <1>1, <3>3, <3>4, SeqParts
    <3>. HIDE DEF in
    <3>6. t1 = [lines |-> t.lines, len |-> t.len, scroll |-> u.back, input |-> in,
                cursor |-> Len(l) - 1]
      BY <1>1, <1>2, <3>1 DEF TermSet
    <3>7. u1 = [log |-> u.log, left |-> Front(l), right |-> r, back |-> u.back,
                cleared |-> u.cleared]
      BY <1>1, <3>2 DEF UserSet, l, r
    <3>8. Len(l) - 1 \in Nat /\ Len(Front(l)) + Len(r) <= LineMax - 1
      BY ONLY <1>14, <3>3
    <3>. HIDE DEF t1, u1
    <3>10. After(Front(l), r, u.back)
      BY <3>3, <3>4, <3>6, <3>7 DEF After
    <3>11. TermInv(t1, u1)
      BY ONLY <1>4, <1>15, <3>10, <3>3, <3>8, Zenon
    <3>. QED
      BY <3>11 DEF t1, u1
  <2>. QED
    BY <2>1, <2>2
<1>9. CASE key = "page_up"
  <2>. DEFINE b == IF t.scroll + 1 > t.len THEN t.len ELSE t.scroll + 1
  <2>1. t1 = [t EXCEPT !.scroll = b]
    BY <1>9 DEF TermFeed
  <2>2. u1 = IF u.back < Held(u) THEN [u EXCEPT !.back = u.back + 1] ELSE u
    BY <1>9 DEF LogFeed, l, r
  <2>3. b \in Nat /\ b <= t.len /\ b = IF u.back < Held(u) THEN u.back + 1 ELSE u.back
    BY <1>1, <1>2, <1>6
  <2>. HIDE DEF b
  <2>4. t1 = [lines |-> t.lines, len |-> t.len, scroll |-> b, input |-> l \o r, cursor |-> Len(l)]
    BY <1>1, <1>2, <2>1 DEF TermSet
  <2>5. u1 = [log |-> u.log, left |-> l, right |-> r, back |-> b, cleared |-> u.cleared]
    BY <1>1, <2>2, <2>3 DEF UserSet, l, r
  <2>. HIDE DEF t1, u1
  <2>6. After(l, r, b)
    BY <2>4, <2>5 DEF After
  <2>7. TermInv(t1, u1)
    BY ONLY <1>4, <1>14, <1>15, <2>3, <2>6, Zenon
  <2>. QED
    BY <2>7 DEF t1, u1
<1>10. CASE key = "page_down"
  <2>. DEFINE b == IF t.scroll > 0 THEN t.scroll - 1 ELSE 0
  <2>1. t1 = [t EXCEPT !.scroll = b]
    BY <1>10 DEF TermFeed
  <2>2. u1 = IF u.back > 0 THEN [u EXCEPT !.back = u.back - 1] ELSE u
    BY <1>10 DEF LogFeed, l, r
  <2>3. b \in Nat /\ b <= t.len /\ b = IF u.back > 0 THEN u.back - 1 ELSE u.back
    BY <1>1, <1>2, <1>6
  <2>. HIDE DEF b
  <2>4. t1 = [lines |-> t.lines, len |-> t.len, scroll |-> b, input |-> l \o r, cursor |-> Len(l)]
    BY <1>1, <1>2, <2>1 DEF TermSet
  <2>5. u1 = [log |-> u.log, left |-> l, right |-> r, back |-> b, cleared |-> u.cleared]
    BY <1>1, <2>2, <2>3 DEF UserSet, l, r
  <2>. HIDE DEF t1, u1
  <2>6. After(l, r, b)
    BY <2>4, <2>5 DEF After
  <2>7. TermInv(t1, u1)
    BY ONLY <1>4, <1>14, <1>15, <2>3, <2>6, Zenon
  <2>. QED
    BY <2>7 DEF t1, u1
<1>11. CASE key = "left"
  <2>1. CASE l = << >>
    <3>1. t1 = [t EXCEPT !.cursor = 0]
      BY <1>2, <1>3, <1>11, <2>1 DEF TermFeed
    <3>2. u1 = u
      BY <1>11, <2>1 DEF LogFeed, l, r
    <3>3. t1 = t
      BY <1>1, <1>2, <1>3, <2>1, <3>1 DEF TermSet
    <3>. QED
      BY <3>2, <3>3
  <2>2. CASE l # << >>
    <3>. DEFINE nr == << Last(l) >> \o r
    <3>1. t1 = [t EXCEPT !.cursor = t.cursor - 1]
      BY <1>2, <1>3, <1>11, <2>2 DEF TermFeed
    <3>2. u1 = [u EXCEPT !.left = Front(l), !.right = nr]
      BY <1>11, <2>2 DEF LogFeed, l, r
    <3>3. Front(l) \in Seq(Keys) /\ Len(Front(l)) = Len(l) - 1 /\ Len(l) \in Nat \ {0}
      BY <1>1, <2>2, FrontIs
    <3>4. nr \in Seq(Keys) /\ Len(nr) = Len(r) + 1 /\ Front(l) \o nr = l \o r
      BY <1>1, <2>2, LeftOf
    <3>. HIDE DEF nr
    <3>5. t1 = [lines |-> t.lines, len |-> t.len, scroll |-> u.back, input |-> l \o r,
                cursor |-> Len(l) - 1]
      BY <1>1, <1>2, <3>1 DEF TermSet
    <3>6. u1 = [log |-> u.log, left |-> Front(l), right |-> nr, back |-> u.back,
                cleared |-> u.cleared]
      BY <1>1, <3>2 DEF UserSet, l, r
    <3>7. Len(l) - 1 \in Nat /\ Len(Front(l)) + Len(nr) <= LineMax - 1
      BY ONLY <1>14, <3>3, <3>4
    <3>. HIDE DEF t1, u1
    <3>10. After(Front(l), nr, u.back)
      BY <3>3, <3>4, <3>5, <3>6 DEF After
    <3>11. TermInv(t1, u1)
      BY ONLY <1>4, <1>15, <3>10, <3>3, <3>4, <3>7, Zenon
    <3>. QED
      BY <3>11 DEF t1, u1
  <2>. QED
    BY <2>1, <2>2
<1>12. CASE key = "right"
  <2>1. CASE r = << >>
    <3>1. t1 = [t EXCEPT !.cursor = t.cursor]
      BY <1>2, <1>3, <1>12, <2>1 DEF TermFeed
    <3>2. u1 = u
      BY <1>12, <2>1 DEF LogFeed, l, r
    <3>3. t1 = t
      BY <1>1, <3>1 DEF TermSet
    <3>. QED
      BY <3>2, <3>3
  <2>2. CASE r # << >>
    <3>. DEFINE nl == Append(l, Head(r))
    <3>1. t1 = [t EXCEPT !.cursor = t.cursor + 1]
      BY <1>2, <1>3, <1>12, <2>2 DEF TermFeed
    <3>2. u1 = [u EXCEPT !.left = nl, !.right = Tail(r)]
      BY <1>12, <2>2 DEF LogFeed, l, r
    <3>3. /\ nl \in Seq(Keys) /\ Len(nl) = Len(l) + 1
          /\ Tail(r) \in Seq(Keys) /\ Len(Tail(r)) = Len(r) - 1 /\ Len(r) \in Nat \ {0}
          /\ nl \o Tail(r) = l \o r
      <4>1. l \in Seq(Keys) /\ r \in Seq(Keys) /\ r # << >>
        BY <1>1, <2>2
      <4>. HIDE DEF l, r
      <4>. QED
        BY ONLY <4>1, RightOf
    <3>. HIDE DEF nl
    <3>4. t1 = [lines |-> t.lines, len |-> t.len, scroll |-> u.back, input |-> l \o r,
                cursor |-> Len(l) + 1]
      BY <1>1, <1>2, <3>1 DEF TermSet
    <3>5. u1 = [log |-> u.log, left |-> nl, right |-> Tail(r), back |-> u.back,
                cleared |-> u.cleared]
      BY <1>1, <3>2 DEF UserSet, l, r
    <3>6. Len(l) + 1 \in Nat /\ Len(nl) + Len(Tail(r)) <= LineMax - 1
      BY ONLY <1>14, <3>3
    <3>. HIDE DEF t1, u1
    <3>10. After(nl, Tail(r), u.back)
      BY <3>3, <3>4, <3>5 DEF After
    <3>11. TermInv(t1, u1)
      BY ONLY <1>4, <1>15, <3>10, <3>3, <3>6, Zenon
    <3>. QED
      BY <3>11 DEF t1, u1
  <2>. QED
    BY <2>1, <2>2
<1>13. CASE key \notin {"backspace", "enter", "page_up", "page_down", "left", "right"}
  <2>1. CASE Len(l) + Len(r) >= LineMax - 1
    <3>1. t1 = t
      BY <1>3, <1>13, <2>1 DEF TermFeed
    <3>2. ~(Len(l) + Len(r) < LineMax - 1)
      BY <1>3, <2>1, Sizes
    <3>3. u1 = u
      BY <1>13, <3>2 DEF LogFeed, l, r
    <3>. QED
      BY <3>1, <3>3
  <2>2. CASE Len(l) + Len(r) < LineMax - 1
    <3>. DEFINE in == InsertAt(t.input, t.cursor + 1, key)
                nl == Append(l, key)
    <3>1. ~(Len(t.input) >= LineMax - 1)
      BY <1>3, <2>2, Sizes
    <3>2. t1 = [t EXCEPT !.input = in, !.cursor = t.cursor + 1]
      BY <1>13, <3>1 DEF TermFeed
    <3>3. u1 = [u EXCEPT !.left = nl]
      BY <1>13, <2>2 DEF LogFeed, l, r
    <3>4. nl \in Seq(Keys) /\ Len(nl) = Len(l) + 1 /\ nl = l \o << key >>
      BY <1>1, AppendProperties, AppendIsConcat
    <3>5. in = nl \o r
      <4>1. SubSeq(l \o r, 1, Len(l)) = l /\ SubSeq(l \o r, Len(l) + 1, Len(l \o r)) = r
        BY <1>1, Halves
      <4>2. (t.cursor + 1) - 1 = Len(l)
        BY <1>2, <1>3
      <4>. QED
        BY <1>2, <3>4, <4>1, <4>2 DEF InsertAt
    <3>6. in \in Seq(Keys)
      <4>1. nl \o r \in Seq(Keys)
        BY ONLY <1>1, <3>4, SeqParts, Zenon
      <4>. QED
        BY ONLY <3>5, <4>1
    <3>. HIDE DEF in, nl
    <3>7. t1 = [lines |-> t.lines, len |-> t.len, scroll |-> u.back, input |-> in,
                cursor |-> Len(l) + 1]
      BY <1>1, <1>2, <3>2 DEF TermSet
    <3>8. u1 = [log |-> u.log, left |-> nl, right |-> r, back |-> u.back, cleared |-> u.cleared]
      BY <1>1, <3>3 DEF UserSet, l, r
    <3>9. Len(l) + 1 \in Nat /\ Len(nl) + Len(r) <= LineMax - 1
      BY ONLY <1>14, <2>2, <3>4
    <3>. HIDE DEF t1, u1
    <3>10. After(nl, r, u.back)
      BY <3>4, <3>5, <3>7, <3>8 DEF After
    <3>11. TermInv(t1, u1)
      BY ONLY <1>4, <1>15, <3>10, <3>4, <3>9, Zenon
    <3>. QED
      BY <3>11 DEF t1, u1
  <2>. QED
    BY <1>3, <2>1, <2>2, Sizes
<1>. QED
  BY <1>7, <1>8, <1>9, <1>10, <1>11, <1>12, <1>13

-----------------------------------------------------------------------------
(* The page tables: a page number is its four indexes.                      *)

LEMMA Division ==
  ASSUME NEW a \in Nat, NEW d \in Nat, d > 0
  PROVE  /\ a \div d \in Nat /\ a % d \in Nat /\ a % d < d
         /\ a = d * (a \div d) + (a % d)
  BY Z3

LEMMA Monotone ==
  ASSUME NEW d \in Nat, NEW x \in Nat, NEW y \in Nat, x < y
  PROVE  d * x + d <= d * y
<1>1. y - x - 1 \in Nat
  OBVIOUS
<1>2. d * (y - x - 1) >= 0
  BY <1>1, Z3
<1>3. d * y = d * x + d + d * (y - x - 1)
  BY Z3
<1>4. d * x \in Nat /\ d * y \in Nat /\ d * (y - x - 1) \in Int
  BY <1>1, Z3
<1>. QED
  BY <1>2, <1>3, <1>4

LEMMA Quotient ==
  ASSUME NEW d \in Nat, d > 0, NEW p \in Nat, NEW r \in Nat, r < d,
         NEW q \in Nat, NEW s \in Nat, s < d, d * p + r = d * q + s
  PROVE  p = q
<1>1. d * p \in Nat /\ d * q \in Nat
  BY Z3
<1>2. CASE p < q
  BY <1>1, <1>2, Monotone
<1>3. CASE q < p
  BY <1>1, <1>3, Monotone
<1>. QED
  BY <1>2, <1>3

LEMMA DivDiv ==
  ASSUME NEW a \in Nat, NEW d \in Nat, d > 0, NEW e \in Nat, e > 0
  PROVE  (a \div d) \div e = a \div (d * e)
<1>. DEFINE q == a \div d
            r == a % d
            p == q \div e
            s == q % e
            D == d * e
            t == d * s + r
<1>1. q \in Nat /\ r \in Nat /\ r < d /\ a = d * q + r
  BY Division
<1>. HIDE DEF q, r
<1>2. p \in Nat /\ s \in Nat /\ s < e /\ q = e * p + s
  BY <1>1, Division
<1>. HIDE DEF p, s
<1>3. D \in Nat /\ D > 0
  BY Z3
<1>4. t \in Nat /\ t < D
  <2>1. d * s + d <= d * e
    BY <1>2, Monotone
  <2>2. d * s \in Nat /\ d * e \in Nat
    BY <1>2, Z3
  <2>. QED
    BY <1>1, <2>1, <2>2
<1>5. a = D * p + t
  <2>1. d * (e * p + s) = (d * e) * p + d * s
    BY <1>2, Z3
  <2>2. (d * e) * p \in Int /\ d * s \in Int
    BY <1>2, Z3
  <2>. QED
    BY <1>1, <1>2, <2>1, <2>2
<1>. HIDE DEF D, t
<1>6. /\ a \div D \in Nat /\ a % D \in Nat /\ a % D < D /\ a = D * (a \div D) + (a % D)
  BY <1>3, Division
<1>7. D * p + t = D * (a \div D) + (a % D)
  BY <1>5, <1>6
<1>8. p = a \div D
  BY <1>2, <1>3, <1>4, <1>6, <1>7, Quotient
<1>. QED
  BY <1>8 DEF p, q, D

LEMMA SpanIs ==
  /\ Span(1) = Fan * Fan * Fan /\ Span(2) = Fan * Fan /\ Span(3) = Fan /\ Span(4) = 1
  BY DEF Span

LEMMA FanType == Fan \in Nat /\ Fan > 0
  BY PagingAssumption

LEMMA Products ==
  /\ Fan * Fan \in Nat /\ Fan * Fan > 0 /\ Fan * Fan * Fan \in Nat /\ Fan * Fan * Fan > 0
  /\ Top \in Nat /\ Top = (Fan * Fan * Fan) * Fan
<1>1. Fan * Fan \in Nat /\ Fan * Fan > 0
  BY FanType, Z3
<1>. DEFINE f == Fan * Fan
<1>. HIDE DEF f
<1>2. f * Fan \in Nat /\ f * Fan > 0
  BY FanType, <1>1, Z3 DEF f
<1>. DEFINE g == f * Fan
<1>. HIDE DEF g
<1>3. g * Fan \in Nat
  BY FanType, <1>2, Z3 DEF g
<1>. QED
  BY <1>1, <1>2, <1>3 DEF f, g, Top

LEMMA Indexes ==
  ASSUME NEW v \in 0 .. Top - 1
  PROVE  LET x == v \div Fan
             y == x \div Fan
             z == y \div Fan
         IN /\ x \in Nat /\ y \in Nat /\ z \in Nat
            /\ Index(v, 4) = v % Fan /\ Index(v, 3) = x % Fan
            /\ Index(v, 2) = y % Fan /\ Index(v, 1) = z
<1>. DEFINE x == v \div Fan
            y == x \div Fan
            z == y \div Fan
<1>0. v \in Nat /\ v < Top
  BY Products
<1>1. x \in Nat
  BY <1>0, FanType, Division
<1>2. y = v \div (Fan * Fan)
  BY <1>0, FanType, DivDiv
<1>. HIDE DEF x
<1>3. y \in Nat
  BY <1>1, FanType, Division
<1>4. z = v \div (Fan * Fan * Fan)
  <2>. DEFINE d == Fan * Fan
  <2>1. d \in Nat /\ d > 0
    BY Products
  <2>. HIDE DEF d
  <2>2. (v \div d) \div Fan = v \div (d * Fan)
    BY <1>0, <2>1, FanType, DivDiv
  <2>. QED
    BY <1>2, <2>2 DEF d
<1>. HIDE DEF y
<1>5. z \in Nat
  BY <1>3, FanType, Division
<1>. HIDE DEF z
<1>6. z < Fan
  <2>. DEFINE d == Fan * Fan * Fan
              r == v % d
  <2>1. d \in Nat /\ d > 0 /\ Top = d * Fan
    BY Products
  <2>. HIDE DEF d
  <2>2. v = d * z + r /\ r \in Nat
    BY <1>0, <1>4, <2>1, Division DEF d
  <2>. HIDE DEF r
  <2>3. ASSUME z >= Fan PROVE FALSE
    <3>1. d * Fan <= d * z
      <4>1. CASE z = Fan
        BY <2>1, <4>1, FanType, Z3
      <4>2. CASE Fan < z
        <5>1. d * Fan + d <= d * z
          BY <1>5, <2>1, <4>2, FanType, Monotone
        <5>2. d * Fan \in Nat /\ d * z \in Nat
          BY <1>5, <2>1, FanType, Z3
        <5>. QED
          BY <2>1, <5>1, <5>2
      <4>. QED
        BY <1>5, <2>3, <4>1, <4>2, FanType
    <3>2. d * Fan \in Nat /\ d * z \in Nat
      BY <1>5, <2>1, FanType, Z3
    <3>. QED
      BY <1>0, <2>1, <2>2, <3>1, <3>2
  <2>. QED
    BY <1>5, <2>3, FanType
<1>7. z % Fan = z
  <2>1. /\ z \div Fan \in Nat /\ z % Fan \in Nat /\ z % Fan < Fan
        /\ z = Fan * (z \div Fan) + (z % Fan)
    BY <1>5, FanType, Division
  <2>2. Fan * 0 + z = Fan * (z \div Fan) + (z % Fan)
    BY <1>5, <2>1, FanType
  <2>3. 0 = z \div Fan
    BY <1>5, <1>6, <2>1, <2>2, FanType, Quotient
  <2>4. Fan * (z \div Fan) = 0
    BY <2>3, FanType
  <2>. QED
    BY <2>1, <2>4
<1>8. v \div 1 = v
  BY <1>0
<1>9. Index(v, 4) = v % Fan /\ Index(v, 3) = x % Fan
  BY <1>8, SpanIs DEF Index, x
<1>10. Index(v, 2) = y % Fan
  BY <1>2, SpanIs DEF Index
<1>11. Index(v, 1) = z
  BY <1>4, <1>7, SpanIs DEF Index
<1>. QED
  BY <1>1, <1>3, <1>5, <1>9, <1>10, <1>11 DEF x, y, z

LEMMA PathsDiffer ==
  ASSUME NEW v \in 0 .. Top - 1, NEW w \in 0 .. Top - 1,
         \A k \in 1 .. 4 : Index(v, k) = Index(w, k)
  PROVE  v = w
<1>. DEFINE x == v \div Fan
            y == x \div Fan
            z == y \div Fan
            p == w \div Fan
            q == p \div Fan
            o == q \div Fan
<1>1. /\ x \in Nat /\ y \in Nat /\ z \in Nat /\ v \in Nat
      /\ Index(v, 4) = v % Fan /\ Index(v, 3) = x % Fan /\ Index(v, 2) = y % Fan /\ Index(v, 1) = z
  BY Indexes, Products
<1>2. /\ p \in Nat /\ q \in Nat /\ o \in Nat /\ w \in Nat
      /\ Index(w, 4) = w % Fan /\ Index(w, 3) = p % Fan /\ Index(w, 2) = q % Fan /\ Index(w, 1) = o
  BY Indexes, Products
<1>3. z = o /\ y % Fan = q % Fan /\ x % Fan = p % Fan /\ v % Fan = w % Fan
  BY <1>1, <1>2
<1>4. v = Fan * x + (v % Fan) /\ w = Fan * p + (w % Fan)
  BY <1>1, <1>2, FanType, Division
<1>. HIDE DEF x, p
<1>5. x = Fan * y + (x % Fan) /\ p = Fan * q + (p % Fan)
  BY <1>1, <1>2, FanType, Division
<1>. HIDE DEF y, q
<1>6. y = Fan * z + (y % Fan) /\ q = Fan * o + (q % Fan)
  BY <1>1, <1>2, FanType, Division
<1>. HIDE DEF z, o
<1>7. y = q
  BY <1>3, <1>6, Zenon
<1>8. x = p
  BY <1>3, <1>5, <1>7, Zenon
<1>. QED
  BY <1>3, <1>4, <1>8, Zenon

Level == 1 .. 4

LEMMA SpanType ==
  ASSUME NEW l \in Level
  PROVE  Span(l) \in Nat /\ Span(l) > 0
<1>1. l = 1 \/ l = 2 \/ l = 3 \/ l = 4
  BY DEF Level
<1>. QED
  BY <1>1, SpanIs, Products, FanType

LEMMA IndexType ==
  ASSUME NEW v \in Nat, NEW l \in Level
  PROVE  Index(v, l) \in 0 .. Fan - 1
<1>. DEFINE d == Span(l)
            q == v \div d
            i == q % Fan
<1>1. d \in Nat /\ d > 0
  BY SpanType
<1>. HIDE DEF d
<1>2. q \in Nat
  BY <1>1, Division
<1>. HIDE DEF q
<1>3. i \in Nat /\ i < Fan
  BY <1>2, FanType, Division
<1>4. Index(v, l) = i
  BY DEF Index, i, q, d
<1>. HIDE DEF i
<1>. QED
  BY <1>3, <1>4, FanType

LEMMA PathIs ==
  ASSUME NEW v \in Nat, NEW l \in Level
  PROVE  /\ Path(v, l) \in Seq(0 .. Fan - 1) /\ Len(Path(v, l)) = l
         /\ \A k \in 1 .. l : Path(v, l)[k] = Index(v, k)
         /\ \A m \in 1 .. l : SubSeq(Path(v, l), 1, m) = Path(v, m)
<1>. DEFINE S == 0 .. Fan - 1
            p == Path(v, l)
<1>0. l \in Nat /\ l \in 1 .. 4
  BY DEF Level
<1>1. p = [k \in 1 .. l |-> Index(v, k)]
  BY DEF Path
<1>2. \A k \in 1 .. l : Index(v, k) \in S
  <2>1. \A k \in 1 .. l : k \in Level
    BY <1>0 DEF Level
  <2>. QED
    BY <2>1, IndexType
<1>. HIDE DEF S
<1>3. p \in Seq(S) /\ Len(p) = l /\ \A k \in 1 .. l : p[k] = Index(v, k)
  BY <1>0, <1>1, <1>2
<1>4. ASSUME NEW m \in 1 .. l PROVE SubSeq(p, 1, m) = Path(v, m)
  <2>1. m \in Nat /\ m <= l /\ m >= 1
    BY <1>0
  <2>. HIDE DEF p
  <2>2. SubSeq(p, 1, m) = [k \in 1 .. m |-> p[k]]
    <3>1. SubSeq(p, 1, m) = [i \in 1 .. ((m - 1) + 1) |-> p[(i + 1) - 1]]
      BY <1>3, <2>1
    <3>2. (m - 1) + 1 = m /\ \A i \in 1 .. m : (i + 1) - 1 = i
      BY <2>1
    <3>. QED
      BY <3>1, <3>2
  <2>3. \A k \in 1 .. m : p[k] = Index(v, k)
    BY <1>3, <2>1
  <2>. QED
    BY <2>2, <2>3 DEF Path
<1>. QED
  BY <1>3, <1>4 DEF p, S

(* Two pages have the same path to a level when they have the same indexes. *)
LEMMA PathEq ==
  ASSUME NEW v \in 0 .. Top - 1, NEW w \in 0 .. Top - 1, Path(v, 4) = Path(w, 4)
  PROVE  v = w
<1>1. v \in Nat /\ w \in Nat /\ 4 \in Level
  BY Products DEF Level
<1>2. \A k \in 1 .. 4 : Path(v, 4)[k] = Index(v, k) /\ Path(w, 4)[k] = Index(w, k)
  BY <1>1, PathIs
<1>3. \A k \in 1 .. 4 : Index(v, k) = Index(w, k)
  BY <1>2
<1>. QED
  BY <1>3, PathsDiffer

-----------------------------------------------------------------------------
(* At most one entry on the way to a page maps it.                          *)

Mapped(s, w, l) == Present(s, Path(w, l)) /\ s.entries[Path(w, l)] # Table

(* The entries above one that is present are tables.                        *)
LEMMA ParentsLead ==
  ASSUME NEW s, IsTree(s), NEW w \in Nat, NEW l \in Level, Present(s, Path(w, l)),
         NEW k \in 1 .. l - 1
  PROVE  Present(s, Path(w, k)) /\ s.entries[Path(w, k)] = Table
<1>. DEFINE p == Path(w, l)
<1>1. l \in 1 .. 4 /\ k \in 1 .. l
  BY DEF Level
<1>2. Len(p) = l /\ SubSeq(p, 1, k) = Path(w, k)
  BY <1>1, PathIs
<1>. HIDE DEF p
<1>3. p \in DOMAIN s.entries
  BY DEF Present, p
<1>4. k \in 1 .. Len(p) - 1
  BY <1>2
<1>5. SubSeq(p, 1, k) \in DOMAIN s.entries /\ s.entries[SubSeq(p, 1, k)] = Table
  BY <1>3, <1>4, Zenon DEF IsTree
<1>. QED
  BY <1>2, <1>5 DEF Present

LEMMA OneMapping ==
  ASSUME NEW s, IsTree(s), NEW w \in Nat, NEW l \in Level, NEW m \in Level,
         Mapped(s, w, l), Mapped(s, w, m)
  PROVE  l = m
<1>1. CASE l < m
  <2>1. l \in 1 .. m - 1
    BY <1>1 DEF Level
  <2>. QED
    BY <2>1, ParentsLead DEF Mapped
<1>2. CASE m < l
  <2>1. m \in 1 .. l - 1
    BY <1>2 DEF Level
  <2>. QED
    BY <2>1, ParentsLead DEF Mapped
<1>. QED
  BY <1>1, <1>2 DEF Level

(* The processor's walk ends at that entry.                                 *)
LEMMA TranslateIs ==
  ASSUME NEW s, IsTree(s), NEW w \in Nat, NEW l \in Level, Mapped(s, w, l)
  PROVE  Translate(s, w) = s.entries[Path(w, l)] + (w % Span(l))
<1>. DEFINE mapping == {m \in 1 .. 4 : Present(s, Path(w, m)) /\ s.entries[Path(w, m)] # Table
                                       /\ \A k \in 1 .. m - 1 : Present(s, Path(w, k))}
            n == CHOOSE m \in mapping : \A k \in mapping : m <= k
<1>1. l \in mapping
  BY ParentsLead DEF Mapped, Level
<1>2. \A m \in mapping : m = l
  BY OneMapping DEF Mapped, Level
<1>3. Translate(s, w) = s.entries[Path(w, n)] + (w % Span(n))
  BY <1>1 DEF Translate
<1>. HIDE DEF mapping
<1>4. mapping = {l}
  BY <1>1, <1>2
<1>5. l <= l
  BY DEF Level
<1>6. n = l
  BY <1>4, <1>5
<1>. QED
  BY <1>3, <1>6

LEMMA NoMapping ==
  ASSUME NEW s, NEW w, \A l \in Level : ~Mapped(s, w, l)
  PROVE  Translate(s, w) = NotMapped
  BY DEF Translate, Mapped, Level

LEMMA SameMapping ==
  ASSUME NEW s, IsTree(s), NEW t, IsTree(t), NEW w \in Nat,
         \A l \in Level : Mapped(s, w, l) <=> Mapped(t, w, l),
         \A l \in Level : Mapped(s, w, l) => s.entries[Path(w, l)] = t.entries[Path(w, l)]
  PROVE  Translate(s, w) = Translate(t, w)
<1>1. CASE \A l \in Level : ~Mapped(s, w, l)
  <2>1. \A l \in Level : ~Mapped(t, w, l)
    BY <1>1
  <2>. QED
    BY <1>1, <2>1, NoMapping
<1>2. CASE ~\A l \in Level : ~Mapped(s, w, l)
  <2>1. PICK l \in Level : Mapped(s, w, l)
    BY <1>2
  <2>2. Mapped(t, w, l) /\ s.entries[Path(w, l)] = t.entries[Path(w, l)]
    BY <2>1
  <2>3. Translate(s, w) = s.entries[Path(w, l)] + (w % Span(l))
    BY <2>1, TranslateIs
  <2>4. Translate(t, w) = t.entries[Path(w, l)] + (w % Span(l))
    BY <2>2, TranslateIs
  <2>. QED
    BY <2>2, <2>3, <2>4
<1>. QED
  BY <1>1, <1>2

-----------------------------------------------------------------------------
(* A turn of the loop: new tables on the way to a page, and its entry.      *)

IsSpace(s) ==
  /\ s = [entries |-> s.entries, pages |-> s.pages, failed |-> s.failed]
  /\ s.pages \in Nat /\ s.failed \in BOOLEAN
  /\ IsTree(s)

(* New tables, and nothing else.                                            *)
Grown(s, t) ==
  /\ \A p \in DOMAIN s.entries : p \in DOMAIN t.entries /\ t.entries[p] = s.entries[p]
  /\ \A p \in DOMAIN t.entries : p \notin DOMAIN s.entries => t.entries[p] = Table

LEMMA GrownTransitive ==
  ASSUME NEW s, NEW t, NEW u, Grown(s, t), Grown(t, u)
  PROVE  Grown(s, u)
<1>1. ASSUME NEW p \in DOMAIN s.entries PROVE p \in DOMAIN u.entries /\ u.entries[p] = s.entries[p]
  BY Zenon DEF Grown
<1>2. ASSUME NEW p \in DOMAIN u.entries, p \notin DOMAIN s.entries PROVE u.entries[p] = Table
  <2>1. CASE p \in DOMAIN t.entries
    <3>1. u.entries[p] = t.entries[p] /\ t.entries[p] = Table
      BY <1>2, <2>1, Zenon DEF Grown
    <3>. QED
      BY <3>1
  <2>2. CASE p \notin DOMAIN t.entries
    BY <1>2, <2>2, Zenon DEF Grown
  <2>. QED
    BY <2>1, <2>2
<1>. QED
  BY <1>1, <1>2, Zenon DEF Grown

LEMMA GrownSame ==
  ASSUME NEW s, IsTree(s), NEW t, IsTree(t), Grown(s, t), NEW w \in Nat
  PROVE  Translate(t, w) = Translate(s, w)
<1>1. \A l \in Level : Mapped(s, w, l) <=> Mapped(t, w, l)
  BY DEF Grown, Mapped, Present
<1>2. \A l \in Level : Mapped(s, w, l) => s.entries[Path(w, l)] = t.entries[Path(w, l)]
  BY DEF Grown, Mapped, Present
<1>. QED
  BY <1>1, <1>2, SameMapping

LEMMA GrownHuge ==
  ASSUME NEW s, NEW t, Grown(s, t), NEW path
  PROVE  /\ Huge(s, path) => Huge(t, path)
         /\ Huge(t, path) => Huge(s, path) /\ t.entries[path] = s.entries[path]
  BY DEF Grown, Huge, Present

(* Setting an entry whose parents are tables.                               *)
LEMMA WithIs ==
  ASSUME NEW s, IsSpace(s), NEW path, NEW e
  PROVE  LET t == With(s, path, e)
         IN /\ t = [entries |-> t.entries, pages |-> s.pages, failed |-> s.failed]
            /\ t.pages = s.pages /\ t.failed = s.failed
            /\ DOMAIN t.entries = DOMAIN s.entries \cup {path}
            /\ t.entries[path] = e
            /\ \A p \in DOMAIN s.entries : p # path => t.entries[p] = s.entries[p]
<1>. DEFINE f == [q \in DOMAIN s.entries \cup {path} |-> IF q = path THEN e ELSE s.entries[q]]
            t == With(s, path, e)
<1>1. t = [s EXCEPT !.entries = f]
  BY DEF With
<1>2. /\ DOMAIN f = DOMAIN s.entries \cup {path} /\ f[path] = e
      /\ \A p \in DOMAIN s.entries : p # path => f[p] = s.entries[p]
  OBVIOUS
<1>. HIDE DEF f, t
<1>3. t = [entries |-> f, pages |-> s.pages, failed |-> s.failed]
  BY <1>1 DEF IsSpace
<1>. QED
  BY <1>2, <1>3 DEF t

LEMMA WithTree ==
  ASSUME NEW s, IsSpace(s), NEW t, NEW path \in Seq(0 .. Fan - 1), NEW e \in Nat \cup {Table},
         Len(path) \in 1 .. 4, path \notin DOMAIN s.entries \/ s.entries[path] # Table,
         \A l \in 1 .. Len(path) - 1 :
            SubSeq(path, 1, l) \in DOMAIN s.entries /\ s.entries[SubSeq(path, 1, l)] = Table,
         Len(path) = 1 => e = Table, Len(path) = 4 => e # Table,
         DOMAIN t.entries = DOMAIN s.entries \cup {path}, t.entries[path] = e,
         \A p \in DOMAIN s.entries : p # path => t.entries[p] = s.entries[p]
  PROVE  IsTree(t)
<1>. DEFINE Parents(u, p) == \A l \in 1 .. Len(p) - 1 :
              SubSeq(p, 1, l) \in DOMAIN u.entries /\ u.entries[SubSeq(p, 1, l)] = Table
            Sound(u, p) ==
              /\ p \in Seq(0 .. Fan - 1) /\ Len(p) \in 1 .. 4
              /\ Parents(u, p)
              /\ u.entries[p] \in Nat \cup {Table}
              /\ Len(p) = 1 => u.entries[p] = Table
              /\ Len(p) = 4 => u.entries[p] # Table
<1>1. \A p \in DOMAIN s.entries : Sound(s, p)
  BY DEF IsSpace, IsTree
<1>2. ASSUME NEW p, Parents(s, p) PROVE Parents(t, p)
  BY <1>2
<1>3. Parents(s, path)
  OBVIOUS
<1>. HIDE DEF Parents
<1>4. ASSUME NEW p \in DOMAIN t.entries PROVE Sound(t, p)
  <2>1. CASE p = path
    BY <1>2, <1>3, <2>1
  <2>2. CASE p # path
    <3>1. p \in DOMAIN s.entries /\ Sound(s, p) /\ t.entries[p] = s.entries[p]
      BY <1>1, <1>4, <2>2
    <3>. QED
      BY <1>2, <3>1
  <2>. QED
    BY <2>1, <2>2
<1>. QED
  BY <1>4 DEF IsTree, Parents

Leads(s, w, l) == Present(s, Path(w, l)) /\ s.entries[Path(w, l)] = Table

(* An entry made a table, if there is memory, where its parents are tables. *)
LEMMA NewTableIs ==
  ASSUME NEW s, IsSpace(s), ~s.failed, NEW w \in Nat, NEW l \in 1 .. 3,
         \A k \in 1 .. l - 1 : Leads(s, w, k)
  PROVE  LET t == NewTable(s, Path(w, l))
         IN /\ IsSpace(t) /\ Grown(s, t) /\ (~t.failed => Present(t, Path(w, l)))
<1>. DEFINE path == Path(w, l)
            t == NewTable(s, path)
<1>1. l \in Level /\ l # 4
  BY DEF Level
<1>2. /\ path \in Seq(0 .. Fan - 1) /\ Len(path) = l
      /\ \A m \in 1 .. l : SubSeq(path, 1, m) = Path(w, m)
  BY <1>1, PathIs
<1>3. \A k \in 1 .. Len(path) - 1 :
         SubSeq(path, 1, k) \in DOMAIN s.entries /\ s.entries[SubSeq(path, 1, k)] = Table
  <2>1. ASSUME NEW k \in 1 .. Len(path) - 1
        PROVE  SubSeq(path, 1, k) \in DOMAIN s.entries /\ s.entries[SubSeq(path, 1, k)] = Table
    <3>1. k \in 1 .. l - 1 /\ k \in 1 .. l
      BY <1>2
    <3>2. SubSeq(path, 1, k) = Path(w, k)
      BY <1>2, <3>1
    <3>3. Path(w, k) \in DOMAIN s.entries /\ s.entries[Path(w, k)] = Table
      BY <3>1 DEF Leads, Present
    <3>. QED
      BY <3>2, <3>3
  <2>. QED
    BY <2>1
<1>. HIDE DEF path
<1>4. CASE Present(s, path)
  <2>1. t = s
    BY <1>4 DEF NewTable
  <2>. QED
    BY <1>4, <2>1 DEF Grown, path
<1>5. CASE ~Present(s, path) /\ s.pages = 0
  <2>1. t = [s EXCEPT !.failed = TRUE]
    BY <1>5 DEF NewTable
  <2>. HIDE DEF t
  <2>2. t = [entries |-> s.entries, pages |-> s.pages, failed |-> TRUE]
    BY <2>1 DEF IsSpace
  <2>3. t.entries = s.entries /\ t.pages = s.pages /\ t.failed = TRUE
    BY <2>2
  <2>4. IsTree(t)
    BY <2>3 DEF IsSpace, IsTree
  <2>5. IsSpace(t)
    BY <2>2, <2>3, <2>4 DEF IsSpace
  <2>6. Grown(s, t)
    BY <2>3 DEF Grown
  <2>. QED
    BY <2>3, <2>5, <2>6 DEF t, path
<1>6. CASE ~Present(s, path) /\ s.pages # 0
  <2>. DEFINE u == With(s, path, Table)
  <2>1. /\ u = [entries |-> u.entries, pages |-> s.pages, failed |-> s.failed]
        /\ DOMAIN u.entries = DOMAIN s.entries \cup {path} /\ u.entries[path] = Table
        /\ \A p \in DOMAIN s.entries : p # path => u.entries[p] = s.entries[p]
    BY WithIs
  <2>2. t = [u EXCEPT !.pages = s.pages - 1]
    BY <1>6, <2>1 DEF NewTable
  <2>. HIDE DEF t, u
  <2>3. t = [entries |-> u.entries, pages |-> s.pages - 1, failed |-> s.failed]
    BY <2>1, <2>2
  <2>4. t.entries = u.entries /\ t.pages = s.pages - 1 /\ t.failed = s.failed
    BY <2>3
  <2>5. path \notin DOMAIN s.entries
    BY <1>6 DEF Present
  <2>6. Table \in Nat \cup {Table} /\ Len(path) \in 1 .. 4 /\ Len(path) # 4
    BY <1>1, <1>2
  <2>7. IsTree(t)
    <3>1. DOMAIN t.entries = DOMAIN s.entries \cup {path} /\ t.entries[path] = Table
          /\ \A p \in DOMAIN s.entries : p # path => t.entries[p] = s.entries[p]
      BY <2>1, <2>4
    <3>. QED
      <4>. DEFINE e == Table
      <4>1. /\ e \in Nat \cup {Table}
            /\ DOMAIN t.entries = DOMAIN s.entries \cup {path} /\ t.entries[path] = e
        BY <2>6, <3>1
      <4>2. Len(path) = 1 => e = Table
        OBVIOUS
      <4>3. Len(path) = 4 => e # Table
        BY <2>6
      <4>4. path \notin DOMAIN s.entries \/ s.entries[path] # Table
        BY <2>5
      <4>5. path \in Seq(0 .. Fan - 1) /\ Len(path) \in 1 .. 4
        BY <1>2, <2>6
      <4>6. \A p \in DOMAIN s.entries : p # path => t.entries[p] = s.entries[p]
        BY <3>1
      <4>7. IsSpace(s)
        OBVIOUS
      <4>. HIDE DEF t, e
      <4>. QED
        BY ONLY <1>3, <4>1, <4>2, <4>3, <4>4, <4>5, <4>6, <4>7, WithTree
  <2>8. IsSpace(t)
    BY <1>6, <2>3, <2>4, <2>7 DEF IsSpace
  <2>9. Grown(s, t)
    BY <2>1, <2>4, <2>5 DEF Grown
  <2>10. Present(t, path)
    BY <2>1, <2>4 DEF Present
  <2>. QED
    BY <2>8, <2>9, <2>10 DEF t, path
<1>. QED
  BY <1>4, <1>5, <1>6

(* One turn: the page is found at its address, or memory ran out; no other  *)
(* page moves, and no huge page is made.                                    *)
LEMMA MapPageIs ==
  ASSUME NEW s, IsSpace(s), ~s.failed, NEW hhdm \in Nat, NEW v \in 0 .. Top - 1, v - hhdm \in Nat,
         IsIdentity(s, hhdm, v)
  PROVE  LET t == MapPage(s, v, v - hhdm)
         IN /\ IsSpace(t)
            /\ \A w \in 0 .. Top - 1 : w # v \/ t.failed => Translate(t, w) = Translate(s, w)
            /\ ~t.failed => Translate(t, v) = v - hhdm
            /\ \A w \in Nat, l \in 1 .. 3 :
                 Huge(t, Path(w, l)) => /\ Huge(s, Path(w, l))
                                        /\ t.entries[Path(w, l)] = s.entries[Path(w, l)]
<1>. DEFINE page == v - hhdm
            t == MapPage(s, v, page)
            s1 == NewTable(s, Path(v, 1))
            s2 == NewTable(s1, Path(v, 2))
            s3 == NewTable(s2, Path(v, 3))
            Kept(r) == \A w \in 0 .. Top - 1 : w # v \/ r.failed => Translate(r, w) = Translate(s, w)
            Found(r) == ~r.failed => Translate(r, v) = page
            Alike(r) == \A w \in Nat, l \in 1 .. 3 :
                          Huge(r, Path(w, l)) => /\ Huge(s, Path(w, l))
                                                 /\ r.entries[Path(w, l)] = s.entries[Path(w, l)]
            Right(r) == IsSpace(r) /\ Kept(r) /\ Found(r) /\ Alike(r)
<1>1. v \in Nat /\ 0 .. Top - 1 \subseteq Nat /\ {1, 2, 3, 4} = Level
  BY Products DEF Level
<1>2. t = IF s1.failed THEN s1
          ELSE IF Huge(s1, Path(v, 2)) THEN s1
          ELSE IF s2.failed \/ Huge(s2, Path(v, 3)) THEN s2
          ELSE IF s3.failed THEN s3
          ELSE With(s3, Path(v, 4), page)
  BY DEF MapPage
<1>. HIDE DEF t
<1>3. IsSpace(s1) /\ Grown(s, s1) /\ (~s1.failed => Present(s1, Path(v, 1)))
  <2>1. \A k \in 1 .. 1 - 1 : Leads(s, v, k)
    OBVIOUS
  <2>. QED
    BY <1>1, <2>1, NewTableIs
<1>. HIDE DEF s1
\* A space grown from the first: whole if it has failed or has the huge page.
<1>4. ASSUME NEW r, IsSpace(r), Grown(s, r)
      PROVE  /\ \A w \in 0 .. Top - 1 : Translate(r, w) = Translate(s, w)
             /\ Kept(r) /\ Alike(r)
  <2>1. ASSUME NEW w \in 0 .. Top - 1 PROVE Translate(r, w) = Translate(s, w)
    BY <1>1, <1>4, GrownSame DEF IsSpace
  <2>2. Alike(r)
    BY <1>4, GrownHuge
  <2>. QED
    BY <2>1, <2>2
<1>5. ASSUME NEW r, IsSpace(r), Grown(s, r), r.failed PROVE Right(r)
  BY <1>4, <1>5
<1>6. ASSUME NEW r, IsSpace(r), Grown(s, r), NEW l \in 2 .. 3, Huge(r, Path(v, l)) PROVE Right(r)
  <2>1. Huge(s, Path(v, l)) /\ r.entries[Path(v, l)] = s.entries[Path(v, l)]
    BY <1>6, GrownHuge
  <2>2. s.entries[Path(v, l)] + (v % Span(l)) = page
    BY <2>1 DEF IsIdentity
  <2>3. Mapped(r, v, l)
    BY <1>6 DEF Huge, Mapped
  <2>4. Translate(r, v) = r.entries[Path(v, l)] + (v % Span(l))
    BY <1>1, <1>6, <2>3, TranslateIs DEF IsSpace, Level
  <2>. QED
    BY <1>4, <1>6, <2>1, <2>2, <2>4
<1>7. ASSUME NEW r, IsSpace(r), NEW l \in 1 .. 3, Present(r, Path(v, l)), l = 1 \/ ~Huge(r, Path(v, l))
      PROVE  \A k \in 1 .. l : Leads(r, v, k)
  <2>1. Leads(r, v, l)
    <3>1. Len(Path(v, l)) = l
      <4>1. l \in Level
        BY DEF Level
      <4>. QED
        BY <1>1, <4>1, PathIs
    <3>2. CASE l = 1
      BY <1>7, <3>1, <3>2 DEF IsSpace, IsTree, Present, Leads
    <3>3. CASE l # 1
      BY <1>7, <3>1, <3>3 DEF Huge, Leads
    <3>. QED
      BY <3>2, <3>3
  <2>2. ASSUME NEW k \in 1 .. l - 1 PROVE Leads(r, v, k)
    BY <1>1, <1>7, ParentsLead DEF IsSpace, Level, Leads
  <2>. QED
    BY <2>1, <2>2
<1>. HIDE DEF Kept, Found, Alike, page
<1>. HIDE DEF Right
<1>8. ASSUME s1.failed PROVE Right(t)
  <2>1. Right(s1)
    BY <1>3, <1>5, <1>8
  <2>. QED
    BY <1>2, <1>8, <2>1
<1>9. ASSUME ~s1.failed, Huge(s1, Path(v, 2)) PROVE Right(t)
  <2>1. Right(s1)
    BY <1>3, <1>6, <1>9
  <2>. QED
    BY <1>2, <1>9, <2>1
<1>10. ASSUME ~s1.failed, ~Huge(s1, Path(v, 2)) PROVE Right(t)
  <2>1. IsSpace(s2) /\ Grown(s1, s2) /\ (~s2.failed => Present(s2, Path(v, 2)))
    <3>1. \A k \in 1 .. 1 : Leads(s1, v, k)
      BY <1>3, <1>7, <1>10
    <3>2. \A k \in 1 .. 2 - 1 : Leads(s1, v, k)
      BY <3>1
    <3>3. 2 \in 1 .. 3
      OBVIOUS
    <3>. QED
      BY ONLY <1>1, <1>3, <1>10, <3>2, <3>3, NewTableIs
  <2>. HIDE DEF s2
  <2>2. Grown(s, s2) /\ ~Huge(s2, Path(v, 2))
    BY <1>3, <1>10, <2>1, GrownTransitive, GrownHuge
  <2>3. CASE s2.failed
    <3>1. Right(s2)
      BY <1>5, <2>1, <2>2, <2>3
    <3>. QED
      BY <1>2, <1>10, <2>3, <3>1
  <2>4. CASE ~s2.failed /\ Huge(s2, Path(v, 3))
    <3>1. Right(s2)
      BY <1>6, <2>1, <2>2, <2>4
    <3>. QED
      BY <1>2, <1>10, <2>4, <3>1
  <2>5. CASE ~s2.failed /\ ~Huge(s2, Path(v, 3))
    <3>1. IsSpace(s3) /\ Grown(s2, s3) /\ (~s3.failed => Present(s3, Path(v, 3)))
      <4>1. \A k \in 1 .. 2 : Leads(s2, v, k)
        BY <1>7, <2>1, <2>2, <2>5
      <4>2. \A k \in 1 .. 3 - 1 : Leads(s2, v, k)
        BY <4>1
      <4>3. 3 \in 1 .. 3
        OBVIOUS
      <4>. QED
        BY ONLY <1>1, <2>1, <2>5, <4>2, <4>3, NewTableIs
    <3>. HIDE DEF s3
    <3>2. Grown(s, s3) /\ ~Huge(s3, Path(v, 3))
      BY <2>1, <2>2, <2>5, <3>1, GrownTransitive, GrownHuge
    <3>3. CASE s3.failed
      <4>1. Right(s3)
        BY <1>5, <3>1, <3>2, <3>3
      <4>. QED
        BY <1>2, <1>10, <2>5, <3>3, <4>1
    <3>4. CASE ~s3.failed
      <4>. DEFINE path == Path(v, 4)
                  u == With(s3, path, page)
      <4>1. t = u
        BY <1>2, <1>10, <2>5, <3>4
      <4>2. /\ u = [entries |-> u.entries, pages |-> s3.pages, failed |-> s3.failed]
            /\ u.pages = s3.pages /\ u.failed = s3.failed
            /\ DOMAIN u.entries = DOMAIN s3.entries \cup {path} /\ u.entries[path] = page
            /\ \A p \in DOMAIN s3.entries : p # path => u.entries[p] = s3.entries[p]
        BY <3>1, WithIs
      <4>. HIDE DEF u
      <4>3. /\ path \in Seq(0 .. Fan - 1) /\ Len(path) = 4
            /\ \A m \in 1 .. 4 : SubSeq(path, 1, m) = Path(v, m)
        BY <1>1, PathIs
      <4>4. \A k \in 1 .. 3 : Leads(s3, v, k)
        BY <1>7, <3>1, <3>2, <3>4
      <4>5. page \in Nat /\ page # Table
        BY DEF page, Table
      <4>6. path \in DOMAIN s3.entries => s3.entries[path] # Table
        BY <3>1, <4>3 DEF IsSpace, IsTree
      <4>7. \A k \in 1 .. Len(path) - 1 :
               SubSeq(path, 1, k) \in DOMAIN s3.entries /\ s3.entries[SubSeq(path, 1, k)] = Table
        <5>1. ASSUME NEW k \in 1 .. 3
              PROVE  SubSeq(path, 1, k) \in DOMAIN s3.entries
                     /\ s3.entries[SubSeq(path, 1, k)] = Table
          <6>1. SubSeq(path, 1, k) = Path(v, k)
            <7>1. k \in 1 .. 4
              OBVIOUS
            <7>. HIDE DEF path
            <7>. QED
              BY ONLY <4>3, <7>1
          <6>. QED
            BY <4>4, <6>1 DEF Leads, Present
        <5>2. Len(path) - 1 = 3
          BY <4>3
        <5>. QED
          BY <5>1, <5>2
      <4>. HIDE DEF path
      <4>8. IsTree(u)
        <5>1. /\ page \in Nat \cup {Table} /\ Len(path) \in 1 .. 4 /\ Len(path) # 1
              /\ path \notin DOMAIN s3.entries \/ s3.entries[path] # Table
          BY <4>3, <4>5, <4>6
        <5>. QED
          BY ONLY <3>1, <4>2, <4>3, <4>5, <4>7, <5>1, WithTree, Zenon
      <4>9. IsSpace(u)
        BY <3>1, <4>2, <4>8 DEF IsSpace
      <4>10. ASSUME NEW w \in 0 .. Top - 1, w # v PROVE Translate(u, w) = Translate(s, w)
        <5>1. \A l \in Level : Path(w, l) # path
          <6>1. ASSUME NEW l \in Level, Path(w, l) = path PROVE FALSE
            <7>1. l = 4
              BY <1>1, <4>3, <6>1, PathIs
            <7>. QED
              BY <4>10, <6>1, <7>1, PathEq DEF path
          <6>. QED
            BY <6>1
        <5>2. \A l \in Level : /\ Mapped(s3, w, l) <=> Mapped(u, w, l)
                               /\ Mapped(s3, w, l) => s3.entries[Path(w, l)] = u.entries[Path(w, l)]
          <6>1. ASSUME NEW l \in Level
                PROVE  /\ Mapped(s3, w, l) <=> Mapped(u, w, l)
                       /\ Mapped(s3, w, l) => s3.entries[Path(w, l)] = u.entries[Path(w, l)]
            <7>. DEFINE p == Path(w, l)
            <7>1. p # path
              BY <5>1
            <7>. HIDE DEF p
            <7>2. p \in DOMAIN s3.entries <=> p \in DOMAIN u.entries
              BY ONLY <4>2, <7>1
            <7>3. p \in DOMAIN s3.entries => u.entries[p] = s3.entries[p]
              BY ONLY <4>2, <7>1
            <7>. QED
              BY <7>2, <7>3 DEF Mapped, Present, p
          <6>. QED
            BY <6>1
        <5>3. Translate(s3, w) = Translate(u, w)
          <6>1. IsTree(s3) /\ IsTree(u) /\ w \in Nat
            BY <1>1, <3>1, <4>8 DEF IsSpace
          <6>. QED
            BY <5>2, <6>1, SameMapping
        <5>. QED
          BY <1>4, <3>1, <3>2, <5>3
      <4>11. Translate(u, v) = page
        <5>1. Mapped(u, v, 4)
          BY <4>2, <4>5 DEF Mapped, Present, path
        <5>2. Translate(u, v) = u.entries[path] + (v % Span(4))
          BY <1>1, <4>8, <5>1, TranslateIs DEF path
        <5>3. v % Span(4) = 0
          BY <1>1, SpanIs
        <5>. QED
          BY <4>2, <4>5, <5>2, <5>3
      <4>12. Alike(u)
        <5>1. ASSUME NEW w \in Nat, NEW l \in 1 .. 3, Huge(u, Path(w, l))
              PROVE  Huge(s, Path(w, l)) /\ u.entries[Path(w, l)] = s.entries[Path(w, l)]
          <6>1. Len(Path(w, l)) = l
            <7>1. l \in Level
              BY DEF Level
            <7>. QED
              BY <7>1, PathIs
          <6>2. Path(w, l) # path
            BY <4>3, <6>1
          <6>3. Huge(s3, Path(w, l)) /\ u.entries[Path(w, l)] = s3.entries[Path(w, l)]
            BY <4>2, <5>1, <6>2 DEF Huge, Present
          <6>. QED
            BY <3>2, <6>3, GrownHuge
        <5>. QED
          BY <5>1 DEF Alike
      <4>13. Right(u)
        BY <3>4, <4>2, <4>9, <4>10, <4>11, <4>12 DEF Right, Kept, Found
      <4>. QED
        BY <4>1, <4>13
    <3>. QED
      BY <3>3, <3>4
  <2>. QED
    BY <2>3, <2>4, <2>5
<1>11. Right(t)
  BY <1>8, <1>9, <1>10
<1>. QED
  BY <1>11 DEF Right, Kept, Found, Alike, t, page

(* The pages of a range end with that of its last byte.                     *)
LEMMA RoundUp ==
  ASSUME NEW a \in Nat, a > 0
  PROVE  (a + PageBytes - 1) \div PageBytes = (a - 1) \div PageBytes + 1
<1>. DEFINE d == PageBytes
            b == a - 1
            q == b \div d
            r == b % d
            c == a + d - 1
            p == c \div d
            s == c % d
<1>1. d \in Nat /\ d > 0 /\ b \in Nat
  BY PagingAssumption
<1>2. q \in Nat /\ r \in Nat /\ r < d /\ b = d * q + r
  BY <1>1, Division
<1>3. c \in Nat /\ c = b + d
  BY <1>1
<1>4. p \in Nat /\ s \in Nat /\ s < d /\ c = d * p + s
  BY <1>1, <1>3, Division
<1>. HIDE DEF d, q, r, p, s, c, b
<1>5. d * (q + 1) = d * q + d
  BY <1>1, <1>2, Z3
<1>6. d * (q + 1) + r = d * p + s
  BY <1>1, <1>2, <1>3, <1>4, <1>5
<1>7. q + 1 \in Nat
  BY <1>2
<1>8. q + 1 = p
  BY ONLY <1>1, <1>2, <1>4, <1>6, <1>7, Quotient
<1>. QED
  BY <1>8 DEF d, q, p, c, b

-----------------------------------------------------------------------------
(* What is so in every state of a call that maps a range.                   *)

First == Hhdm + FirstPage(call.range[1])
Turns == Pages(call.range[1], call.range[2])

MapInv ==
  call.f = "paging_map_physical" =>
    /\ call.space \in Spaces /\ call.range \in Ranges
    /\ IsSpace(space) /\ turns \in 0 .. Turns
    /\ \A w \in Nat, l \in 1 .. 3 :
         Huge(space, Path(w, l)) => /\ Huge(call.space, Path(w, l))
                                    /\ space.entries[Path(w, l)] = call.space.entries[Path(w, l)]
    /\ \A w \in 0 .. Top - 1 :
         \/ w \in First .. First + turns - 1 /\ Translate(space, w) = w - Hhdm
         \/ /\ w \notin First .. First + turns - 1 \/ space.failed
            /\ Translate(space, w) = Translate(call.space, w)
    /\ done => space.failed \/ turns = Turns

ClockInv ==
  call.f = "rtc_read_ist" => call.dt \in Dates /\ call.mode \in Modes /\ IsDate(call.dt)

\* The clock, the page tables and the terminal of a call.
Inv == ClockInv /\ MapInv /\ TermInv(term, user) /\ done \in BOOLEAN

(* A range has a page and lies under the direct map.                        *)
LEMMA RangeIs ==
  ASSUME NEW range \in Ranges
  PROVE  LET first == FirstPage(range[1])
             n == Pages(range[1], range[2])
         IN /\ first \in Nat /\ n \in Nat /\ Hhdm \in Nat /\ Hhdm + first + n <= Top
            /\ first + n = (range[1] + range[2] - 1) \div PageBytes + 1
<1>. DEFINE phys == range[1]
            len == range[2]
            first == FirstPage(phys)
            n == Pages(phys, len)
            a == phys + len
            last == (a - 1) \div PageBytes
<1>1. phys \in Nat /\ len \in Nat /\ len > 0 /\ Hhdm \in Nat /\ Hhdm + first + n <= Top
  BY RangeAssumption
<1>2. PageBytes \in Nat /\ PageBytes > 0
  BY PagingAssumption
<1>3. a \in Nat /\ a > 0 /\ a - 1 \in Nat
  BY <1>1
<1>4. n = (a + PageBytes - 1) \div PageBytes - first
  BY DEF Pages
<1>5. (a + PageBytes - 1) \div PageBytes = last + 1
  BY <1>3, RoundUp
<1>6. first \in Nat /\ last \in Nat
  BY <1>1, <1>2, <1>3, Division DEF FirstPage
<1>7. first <= last
  <2>. DEFINE d == PageBytes
              q == phys \div d
              r == phys % d
              p == (a - 1) \div d
              s == (a - 1) % d
  <2>1. q \in Nat /\ r \in Nat /\ r < d /\ phys = d * q + r
    BY <1>1, <1>2, Division
  <2>2. p \in Nat /\ s \in Nat /\ s < d /\ a - 1 = d * p + s
    BY <1>2, <1>3, Division
  <2>3. phys <= a - 1
    BY <1>1
  <2>4. d \in Nat
    BY <1>2
  <2>. HIDE DEF d, q, r, p, s, a, phys
  <2>5. ASSUME p < q PROVE FALSE
    <3>1. d * p + d <= d * q
      BY <2>1, <2>2, <2>4, <2>5, Monotone
    <3>2. d * p \in Nat /\ d * q \in Nat
      BY <2>1, <2>2, <2>4, Z3
    <3>3. a - 1 \in Nat /\ phys \in Nat
      BY <1>1, <1>3 DEF phys
    <3>. QED
      BY <2>1, <2>2, <2>3, <2>4, <3>1, <3>2, <3>3
  <2>6. q <= p
    BY <2>1, <2>2, <2>5
  <2>. QED
    BY <2>6 DEF q, p, d, FirstPage, a, phys
<1>. HIDE DEF first, n, last, a, phys
<1>8. n \in Nat /\ first + n = last + 1
  BY <1>4, <1>5, <1>6, <1>7
<1>. QED
  BY <1>1, <1>6, <1>8 DEF first, n, last, a, phys

(* The page of a turn is where it should be, and those before it still are. *)
LEMMA MapTurnInv ==
  ASSUME MapInv, MapTurn
  PROVE  MapInv'
<1>. DEFINE first == FirstPage(call.range[1])
            page == first + turns
            v == Hhdm + page
            before == call.space
<1>1. /\ call.f = "paging_map_physical" /\ ~space.failed /\ turns < Turns
      /\ space' = MapPage(space, v, page) /\ turns' = turns + 1 /\ UNCHANGED <<call, done>>
  BY DEF MapTurn, Turns
<1>2. /\ before \in Spaces /\ call.range \in Ranges /\ IsSpace(space) /\ turns \in 0 .. Turns
      /\ done => space.failed \/ turns = Turns
      /\ \A w \in Nat, l \in 1 .. 3 :
           Huge(space, Path(w, l)) => /\ Huge(before, Path(w, l))
                                      /\ space.entries[Path(w, l)] = before.entries[Path(w, l)]
  BY <1>1 DEF MapInv
<1>3. \A w \in 0 .. Top - 1 :
         \/ w \in First .. First + turns - 1 /\ Translate(space, w) = w - Hhdm
         \/ /\ w \notin First .. First + turns - 1 \/ space.failed
            /\ Translate(space, w) = Translate(before, w)
  BY <1>1 DEF MapInv
<1>4. /\ first \in Nat /\ Turns \in Nat /\ Hhdm \in Nat /\ Hhdm + first + Turns <= Top
      /\ First = Hhdm + first
  BY <1>2, RangeIs DEF Turns, First
<1>5. IsIdentity(before, Hhdm, v)
  <2>1. turns \in 0 .. Pages(call.range[1], call.range[2]) - 1
    BY <1>1, <1>2, <1>4 DEF Turns
  <2>2. IsIdentity(before, Hhdm, Hhdm + FirstPage(call.range[1]) + turns)
    BY <1>2, <2>1, RangeAssumption
  <2>3. Hhdm + FirstPage(call.range[1]) + turns = v
    BY <1>2, <1>4
  <2>. QED
    BY <2>2, <2>3
<1>. HIDE DEF first
<1>6. /\ turns \in Nat /\ page \in Nat /\ v \in 0 .. Top - 1 /\ v \in Nat /\ v - Hhdm = page
      /\ v = First + turns /\ First \in Nat
  BY <1>1, <1>2, <1>4, Products
<1>. HIDE DEF page, v
<1>7. IsIdentity(space, Hhdm, v)
  BY <1>2, <1>5, <1>6 DEF IsIdentity
<1>8. /\ IsSpace(space')
      /\ \A w \in 0 .. Top - 1 : w # v \/ space'.failed => Translate(space', w) = Translate(space, w)
      /\ ~space'.failed => Translate(space', v) = v - Hhdm
      /\ \A w \in Nat, l \in 1 .. 3 :
           Huge(space', Path(w, l)) => /\ Huge(space, Path(w, l))
                                       /\ space'.entries[Path(w, l)] = space.entries[Path(w, l)]
  <2>1. v - Hhdm \in Nat /\ space' = MapPage(space, v, v - Hhdm)
    BY <1>1, <1>6
  <2>. QED
    <3>1. IsSpace(space) /\ ~space.failed /\ Hhdm \in Nat /\ v \in 0 .. Top - 1
      BY <1>1, <1>2, <1>4, <1>6
    <3>2. LET t == MapPage(space, v, v - Hhdm)
          IN /\ IsSpace(t)
             /\ \A w \in 0 .. Top - 1 : w # v \/ t.failed => Translate(t, w) = Translate(space, w)
             /\ ~t.failed => Translate(t, v) = v - Hhdm
             /\ \A w \in Nat, l \in 1 .. 3 :
                  Huge(t, Path(w, l)) => /\ Huge(space, Path(w, l))
                                         /\ t.entries[Path(w, l)] = space.entries[Path(w, l)]
      BY ONLY <1>7, <2>1, <3>1, MapPageIs
    <3>. QED
      BY ONLY <2>1, <3>2, Zenon
<1>9. ASSUME NEW w \in 0 .. Top - 1
      PROVE  \/ w \in First .. First + (turns + 1) - 1 /\ Translate(space', w) = w - Hhdm
             \/ /\ w \notin First .. First + (turns + 1) - 1 \/ space'.failed
                /\ Translate(space', w) = Translate(before, w)
  <2>1. w \in Nat /\ Hhdm \in Nat
    BY <1>4, Products
  <2>2. CASE w = v
    <3>1. w \notin First .. First + turns - 1
      BY <1>6, <2>2
    <3>2. Translate(space, w) = Translate(before, w)
      BY <1>3, <3>1
    <3>3. w \in First .. First + (turns + 1) - 1
      BY <1>6, <2>2
    <3>. QED
      BY <1>8, <2>2, <3>2, <3>3
  <2>3. CASE w # v
    <3>1. Translate(space', w) = Translate(space, w)
      BY <1>8, <2>3
    <3>2. w \in First .. First + turns - 1 <=> w \in First .. First + (turns + 1) - 1
      BY <1>6, <2>1, <2>3
    <3>. QED
      BY <1>1, <1>3, <3>1, <3>2
  <2>. QED
    BY <2>2, <2>3
<1>10. First' = First /\ Turns' = Turns
  BY <1>1 DEF First, Turns
<1>11. turns' \in 0 .. Turns' /\ (done' => space'.failed \/ turns' = Turns')
  BY <1>1, <1>2, <1>4, <1>10
<1>12. \A w \in Nat, l \in 1 .. 3 :
         Huge(space', Path(w, l)) => /\ Huge(before, Path(w, l))
                                     /\ space'.entries[Path(w, l)] = before.entries[Path(w, l)]
  BY <1>2, <1>8
<1>13. call' = call
  BY <1>1
<1>. QED
  BY <1>1, <1>2, <1>8, <1>9, <1>10, <1>11, <1>12, <1>13 DEF MapInv

LEMMA InitInv == Init => Inv
<1>. SUFFICES ASSUME Init PROVE Inv
  OBVIOUS
<1>1. done = FALSE /\ turns = 0
  BY DEF Init
<1>2. TermInv(term, user)
  <2>. DEFINE lines == [k \in Slots |-> Blank]
  <2>1. Blank \in Lines
    BY DEF Blank, Lines
  <2>2. lines \in [Slots -> Lines]
    BY <2>1
  <2>3. term = TermOpen(lines) /\ user = LogOpen
    BY DEF Init, Slots
  <2>. QED
    BY <2>2, <2>3, OpenInv
<1>3. CASE \E s \in Spaces, range \in Ranges :
             call = [f |-> "paging_map_physical", space |-> s, range |-> range] /\ space = s
  <2>1. PICK s \in Spaces, range \in Ranges :
               call = [f |-> "paging_map_physical", space |-> s, range |-> range] /\ space = s
    BY <1>3
  <2>2. call.f = "paging_map_physical" /\ call.space = s /\ call.range = range
    BY <2>1
  <2>3. IsSpace(s)
    <3>1. s = Space(s.entries, s.pages) /\ s.pages \in Nat /\ IsTree(s)
      BY RangeAssumption
    <3>2. s.failed = FALSE
      BY <3>1 DEF Space
    <3>3. s.failed \in BOOLEAN /\ s = [entries |-> s.entries, pages |-> s.pages, failed |-> s.failed]
      BY <3>1, <3>2 DEF Space
    <3>. QED
      BY ONLY <3>1, <3>3, Zenon DEF IsSpace
  <2>4. Turns \in Nat /\ First \in Nat
    BY <2>2, RangeIs DEF Turns, First
  <2>5. MapInv
    BY <1>1, <2>1, <2>2, <2>3, <2>4 DEF MapInv
  <2>6. ClockInv
    BY <2>2 DEF ClockInv
  <2>. QED
    BY <1>1, <1>2, <2>5, <2>6 DEF Inv
<1>4. CASE \E dt \in Dates, mode \in Modes :
             IsDate(dt) /\ call = [f |-> "rtc_read_ist", dt |-> dt, mode |-> mode]
  <2>1. call.f = "rtc_read_ist" /\ call.dt \in Dates /\ call.mode \in Modes /\ IsDate(call.dt)
    BY <1>4
  <2>. QED
    BY <1>1, <1>2, <2>1 DEF Inv, MapInv, ClockInv
<1>5. CASE call \in CodeCalls \cup InflateCalls \cup RowCalls \/ call = [f |-> "term_feed"]
  <2>1. ASSUME call \in CodeCalls PROVE call.f = "huff_dec"
    BY <2>1 DEF CodeCalls
  <2>2. ASSUME call \in InflateCalls PROVE call.f = "inflate"
    BY <2>2 DEF InflateCalls, InflateCall
  <2>3. ASSUME call \in RowCalls PROVE call.f = "png_decode"
    BY <2>3 DEF RowCalls
  <2>4. call.f \in {"huff_dec", "inflate", "png_decode", "term_feed"}
    BY <1>5, <2>1, <2>2, <2>3
  <2>. QED
    BY <1>1, <1>2, <2>4 DEF Inv, MapInv, ClockInv
<1>. QED
  BY <1>3, <1>4, <1>5 DEF Init

LEMMA NextInv == Inv /\ [Next]_vars => Inv'
<1>. SUFFICES ASSUME Inv, [Next]_vars PROVE Inv'
  OBVIOUS
<1>1. ClockInv /\ MapInv /\ TermInv(term, user) /\ done \in BOOLEAN
  BY DEF Inv
<1>2. ASSUME UNCHANGED <<call, space, turns>>, done' = done PROVE MapInv'
  BY <1>1, <1>2 DEF MapInv, First, Turns
<1>3. ASSUME call' = call PROVE ClockInv'
  BY <1>1, <1>3 DEF ClockInv
<1>4. ASSUME UNCHANGED <<term, user>> PROVE TermInv(term', user')
  BY <1>1, <1>4
<1>5. CASE MapTurn
  <2>1. MapInv'
    BY <1>1, <1>5, MapTurnInv
  <2>2. UNCHANGED <<call, done, term, user>>
    BY <1>5 DEF MapTurn
  <2>. QED
    BY <1>1, <1>3, <1>4, <2>1, <2>2 DEF Inv
<1>6. CASE Return
  <2>1. /\ done' = TRUE /\ UNCHANGED <<call, space, turns, term, user>>
        /\ call.f = "paging_map_physical" => space.failed \/ turns = Turns
    BY <1>6 DEF Return, tables, Turns
  <2>2. MapInv'
    BY <1>1, <2>1 DEF MapInv, First, Turns
  <2>. QED
    BY <1>3, <1>4, <2>1, <2>2 DEF Inv
<1>7. ASSUME NEW key \in Keys, Key(key) PROVE Inv'
  <2>1. /\ term' = TermFeed(term, key) /\ user' = LogFeed(user, key)
        /\ UNCHANGED <<call, done, space, turns>>
    BY <1>7 DEF Key, tables
  <2>2. TermInv(term', user')
    BY <1>1, <2>1, FeedInv
  <2>. QED
    BY <1>1, <1>2, <1>3, <2>1, <2>2 DEF Inv
<1>8. CASE Reopen
  <2>1. /\ term' = TermOpen(term.lines) /\ user' = [LogOpen EXCEPT !.cleared = TRUE]
        /\ UNCHANGED <<call, done, space, turns>>
    BY <1>8 DEF Reopen, tables
  <2>2. term.lines \in [Slots -> Lines]
    BY <1>1 DEF TermInv, TermSet
  <2>3. TermInv(term', user')
    BY <2>1, <2>2, OpenInv
  <2>. QED
    BY <1>1, <1>2, <1>3, <2>1, <2>3 DEF Inv
<1>9. CASE UNCHANGED vars \/ InflateBlock \/ InflateLens \/ InflateCodes \/ DecodeRow
  <2>1. UNCHANGED <<call, done, space, turns, term, user>>
    BY <1>9 DEF vars, tables, InflateBlock, InflateLens, InflateCodes, DecodeRow
  <2>. QED
    BY <1>1, <1>2, <1>3, <1>4, <2>1 DEF Inv
<1>. QED
  BY <1>5, <1>6, <1>7, <1>8, <1>9 DEF Next

LEMMA Invariant == Spec => []Inv
<1>. QED
  BY InitInv, NextInv, PTL DEF Spec

-----------------------------------------------------------------------------
(* The Indian time is the clock's 330 minutes later, whatever date of this  *)
(* century the chip holds and in every mode it can be in (rtc_read,         *)
(* rtc_read_ist).                                                           *)
THEOREM IstCorrect == Spec => []IstExact
<1>1. Inv => IstExact
  <2>. SUFFICES ASSUME Inv, call.f = "rtc_read_ist"
                PROVE  LET ist == RtcReadIst(Cmos(call.dt, call.mode[1], call.mode[2]))
                       IN /\ IsDate(ist) /\ ist.second = call.dt.second
                          /\ Minutes(ist) = Minutes(call.dt) + IstOffset
    BY DEF IstExact
  <2>. DEFINE dt == call.dt
              cmos == Cmos(dt, call.mode[1], call.mode[2])
  <2>1. dt \in DateSet /\ call.mode \in ModeSet /\ IsDate(dt)
    <3>1. call.dt \in Dates /\ call.mode \in Modes /\ IsDate(call.dt)
      BY DEF Inv, ClockInv
    <3>2. Dates \subseteq DateSet /\ Modes \subseteq ModeSet
      BY ClockAssumption, Zenon DEF DateSet, ModeSet
    <3>. QED
      BY ONLY <3>1, <3>2, Zenon
  <2>2. RtcRead(cmos) = dt
    BY <2>1, ReadBack
  <2>3. dt \in Dated
    BY <2>1 DEF DateSet, Dated
  <2>. HIDE DEF cmos, dt
  <2>4. LET ist == RtcReadIst(cmos)
        IN /\ IsDate(ist) /\ ist.second = dt.second
           /\ Minutes(ist) = Minutes(dt) + IstOffset
    BY <2>1, <2>2, <2>3, IstOf
  <2>. QED
    BY <2>4 DEF cmos, dt
<1>. QED
  BY <1>1, Invariant, PTL

(* A range is mapped page for page and nothing else moves, whatever was     *)
(* mapped, wherever the range begins, and when memory for tables runs out   *)
(* in the middle (paging_map_physical, paging_new_table).                   *)
THEOREM MapCorrect == Spec => []MapExact
<1>1. Inv => MapExact
  <2>. SUFFICES ASSUME Inv, done, call.f = "paging_map_physical"
                PROVE  MapsRange(call.space, space, Hhdm, call.range[1], call.range[2])
    BY DEF MapExact
  <2>. DEFINE phys == call.range[1]
              len == call.range[2]
              first == FirstPage(phys)
              last == (phys + len - 1) \div PageBytes
              range == first .. last
  <2>1. /\ call.range \in Ranges /\ turns \in 0 .. Turns /\ (space.failed \/ turns = Turns)
        /\ \A w \in 0 .. Top - 1 :
             \/ w \in First .. First + turns - 1 /\ Translate(space, w) = w - Hhdm
             \/ /\ w \notin First .. First + turns - 1 \/ space.failed
                /\ Translate(space, w) = Translate(call.space, w)
    BY DEF Inv, MapInv
  <2>2. /\ first \in Nat /\ Turns \in Nat /\ Hhdm \in Nat /\ first + Turns = last + 1
        /\ First = Hhdm + first
    BY <2>1, RangeIs DEF Turns, First
  <2>. HIDE DEF first, last
  <2>3. last \in Int /\ First \in Nat /\ turns \in Nat /\ turns <= Turns
    <3>1. last = first + Turns - 1
      <4>1. last \in Int
        <5>1. phys \in Nat /\ len \in Nat /\ len > 0 /\ PageBytes \in Nat /\ PageBytes > 0
          BY <2>1, RangeAssumption, PagingAssumption
        <5>2. phys + len - 1 \in Nat
          BY <5>1
        <5>. QED
          BY <5>1, <5>2, Division DEF last
      <4>. QED
        BY <2>2, <4>1
    <3>. QED
      BY <2>1, <2>2, <3>1
  <2>4. ASSUME NEW v \in 0 .. Top - 1
        PROVE  \/ v - Hhdm \in range /\ Translate(space, v) = v - Hhdm
               \/ /\ v - Hhdm \notin range \/ space.failed
                  /\ Translate(space, v) = Translate(call.space, v)
    <3>1. v \in Nat
      BY Products
    <3>2. v \in First .. First + turns - 1 => v - Hhdm \in range
      BY <2>2, <2>3, <3>1
    <3>3. turns = Turns /\ v - Hhdm \in range => v \in First .. First + turns - 1
      BY <2>2, <2>3, <3>1
    <3>. QED
      BY <2>1, <3>2, <3>3
  <2>. QED
    BY <2>4 DEF MapsRange, first, last
<1>. QED
  BY <1>1, Invariant, PTL

(* In a window of any size the rows drawn up to the last slot are the lines *)
(* printed, cut at its width, and the input row and its caret are what was  *)
(* typed, for every sequence of keys and however the windows are opened and *)
(* closed (term_append_line, term_feed, term_exec, term_render).            *)
THEOREM TerminalCorrect == Spec => []TerminalExact
<1>1. Inv => TerminalExact
  BY InvShows DEF Inv, TerminalExact
<1>. QED
  BY <1>1, Invariant, PTL
=============================================================================
