------------------------------ MODULE DateTime ------------------------------
(***************************************************************************)
(* SRL::Date, SRL::Time and SRL::DateTime (cpp/src/Date.cpp, Time.cpp,     *)
(* DateTime.cpp): one object that keeps the same day twice, as a julian    *)
(* day number and as day, month and year, and the seconds of the day       *)
(* beside it.  Fractions of a second and time zones are left out.          *)
(***************************************************************************)
EXTENDS Integers

CONSTANTS Dates,       \* the <<day, month, year>> constructors are given
          Stamps,      \* the time_t they are given
          Days, Months, Years, Seconds,  \* what is added, also below zero
          MinDay, MaxDay,                \* bound: the julian days explored
          Decembers    \* whether months are added that lead to a December

Day == 86400
Unix == 2440588        \* the julian day of 1 January 1970

VARIABLES julian, day, month, year,  \* Date
          time,                      \* Time: seconds since midnight
          moment                     \* history: seconds since MinDay, by the calendar

date == <<julian, day, month, year>>
vars == <<date, time, moment>>

-----------------------------------------------------------------------------
\* the quotient and the remainder of C
quo(a, b) == IF a < 0 THEN -((-a) \div b) ELSE a \div b
rem(a, b) == a - b * quo(a, b)

isLeapYear(y) == (y % 4 = 0 /\ y % 100 # 0) \/ y % 400 = 0
daysInMonth(m, y) ==
    LET n == <<31, 28, 31, 30, 31, 30, 31, 31, 30, 31, 30, 31>> IN
    IF m = 0 THEN 0 ELSE IF m = 2 /\ isLeapYear(y) THEN 29 ELSE n[m]
dayOfYear(d, m, y) ==
    LET n == <<0, 31, 59, 90, 120, 151, 181, 212, 243, 273, 304, 334>> IN
    IF m = 0 THEN d ELSE n[m] + d + (IF isLeapYear(y) /\ m > 2 THEN 1 ELSE 0)
dayOfWeek(j) == (j % 7) + 1

\* _update_julian()
toJulian(d, m, y) ==
    LET a == quo(m - 14, 12) IN
    d - 32075 + quo(1461 * (y + 4800 + a), 4) + quo(367 * (m - 2 - a * 12), 12)
      - quo(3 * quo(y + 4900 + a, 100), 4)

\* _update_ymd()
ofJulian(j) ==
    LET A == j + 32045
        B == (4 * (A + 36524)) \div 146097 - 1
        C == A - (146097 * B) \div 4
        D == (4 * (C + 365)) \div 1461 - 1
        E == C - (1461 * D) \div 4
        M == (5 * (E - 1) + 2) \div 153 IN
    [day |-> E - (153 * M + 2) \div 5, month |-> M + 3 - 12 * (M \div 10),
     year |-> 100 * B + D - 4800 + M \div 10]

\* An error: the days are not taken from the seconds.
rescale_KeepsTime(t) == [days |-> IF t > Day \/ t < 0 THEN quo(t, Day) ELSE 0, time |-> t]

\* rescale(): what is left of a negative time stays negative.
rescale(t) ==
    LET n == IF t > Day \/ t < 0 THEN quo(t, Day) ELSE 0 IN
    [days |-> n, time |-> t - n * Day]

-----------------------------------------------------------------------------
(* The calendar, by counting days: what the conversions are checked        *)
(* against.                                                                *)

count(d, m, y) ==
    LET years[k \in 1970..y] == IF k = 1970 THEN 0
                                ELSE years[k - 1] + (IF isLeapYear(k - 1) THEN 366 ELSE 365)
        months[k \in 1..m] == IF k = 1 THEN 0 ELSE months[k - 1] + daysInMonth(k - 1, y) IN
    Unix + years[y] + months[m] + d - 1

since(j, t) == (j - MinDay) * Day + t

-----------------------------------------------------------------------------
inRange(j) == j \in MinDay..MaxDay
setYmd(d, m, y) == day' = d /\ month' = m /\ year' = y /\ julian' = toJulian(d, m, y) /\ inRange(julian')
setJulian(j) ==
    /\ inRange(j)
    /\ julian' = j
    /\ day' = ofJulian(j).day /\ month' = ofJulian(j).month /\ year' = ofJulian(j).year

Init ==
    /\ \E d \in Dates :
          /\ day = d[1] /\ month = d[2] /\ year = d[3]
          /\ julian = toJulian(d[1], d[2], d[3])
          /\ moment = since(count(d[1], d[2], d[3]), 0)
    /\ time = 0

\* DateTime(time_t): the date from gmtime(), the time from _update()
FromUnix(ts) ==
    LET t == IF ts > Day THEN ts % Day ELSE ts
        r == rescale(t)
        d == ofJulian(Unix + ts \div Day) IN
    /\ setJulian(toJulian(d.day, d.month, d.year) + r.days)
    /\ time' = r.time
    /\ moment' = since(Unix, 0) + ts

\* addToDay(), operators ++, --, += and -= of Date
AddToDay(n) ==
    /\ setJulian(julian + n)
    /\ moment' = moment + n * Day
    /\ UNCHANGED time

\* addToMonth(): the remainder of twelve months is month 0.
AddToMonth(n) ==
    LET total == month + n
        back == rem(total, 12) < 0
        m == IF back THEN 12 + rem(total, 12) ELSE rem(total, 12)
        y == year + quo(total, 12) - (IF back THEN 1 ELSE 0)
        last == daysInMonth(m, y)
        \* by the calendar
        cy == year + (month + n - 1) \div 12
        cm == ((month + n - 1) % 12) + 1
        cd == IF day > daysInMonth(cm, cy) THEN daysInMonth(cm, cy) ELSE day IN
    /\ Decembers \/ m # 0
    /\ setYmd(IF day > last THEN last ELSE day, m, y)
    /\ moment' = since(count(cd, cm, cy), time)
    /\ UNCHANGED time

\* addToYear()
AddToYear(n) ==
    LET d == IF month = 2 /\ day = 29 /\ ~isLeapYear(year + n) THEN 28 ELSE day IN
    /\ setYmd(d, month, year + n)
    /\ moment' = since(count(d, month, year + n), time)
    /\ UNCHANGED time

\* addToHour(), addToMinute(), operators ++, --, += and -= of DateTime
AddSeconds(n) ==
    LET r == rescale(time + n) IN
    /\ setJulian(julian + r.days)
    /\ time' = r.time
    /\ moment' = moment + n

Next ==
    \/ \E ts \in Stamps : FromUnix(ts)
    \/ \E n \in Days : AddToDay(n)
    \/ \E n \in Months : AddToMonth(n)
    \/ \E n \in Years : AddToYear(n)
    \/ \E n \in Seconds : AddSeconds(n)

Spec == Init /\ [][Next]_vars

-----------------------------------------------------------------------------
(* The julian day and day, month and year name the same day of the         *)
(* calendar whatever was added in whatever order, and days of the year and *)
(* of the week count on from one day to the next.                          *)
SameDay ==
    /\ month \in 1..12 /\ day \in 1..daysInMonth(month, year)
    /\ julian = count(day, month, year)
    /\ dayOfYear(day, month, year) = julian - count(1, 1, year) + 1
    /\ dayOfWeek(julian + 1) = (dayOfWeek(julian) % 7) + 1

\* No second is lost or gained when the time of the day runs over.
KeepsMoment == since(julian, time) = moment
=============================================================================
