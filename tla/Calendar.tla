------------------------------ MODULE Calendar ------------------------------
(***************************************************************************)
(* time.c: the civil date and time of a number of seconds since 1970, and  *)
(* how many bytes the formatters write.  A number of seconds t is the      *)
(* record [day |-> t \div 86400, sec |-> t % 86400]: every divisor of      *)
(* time_to_tm above a day is a whole number of days.                       *)
(*                                                                         *)
(* The state is a clock, which goes from one second of interest to the     *)
(* next, and beside it the date in Moscow, which goes by the rules of the  *)
(* calendar.                                                               *)
(***************************************************************************)
EXTENDS Integers, Sequences, FiniteSets, FiniteSetsExt

CONSTANTS
  FirstYear,    \* bound: the clock starts in one of these years
  LastYear,
  SecondsOfDay  \* bound: the seconds of a day (UTC) the clock is looked at

ASSUME CalendarAssumption ==
  /\ FirstYear \in Nat /\ LastYear \in Nat /\ 1970 <= FirstYear
  /\ SecondsOfDay # {} /\ \A s \in SecondsOfDay : s \in Nat /\ s < 86400

VARIABLES
  now,   \* the clock
  date   \* the date in Moscow

calendarVars == <<now, date>>

-----------------------------------------------------------------------------
(***************************************************************************)
(* time_to_tm.                                                             *)
(***************************************************************************)

days_since_jan_1st ==
  [leap \in BOOLEAN |->
     IF leap THEN <<0, 31, 60, 91, 121, 152, 182, 213, 244, 274, 305, 335, 366>>
             ELSE <<0, 31, 59, 90, 120, 151, 181, 212, 243, 273, 304, 334, 365>>]

MSK_Seconds == 3 * 60 * 60
\* 11644473600 seconds, from 1601 to 1970.
EraDays == 134774

\* t += 3 * 60 * 60; sec = t + 11644473600
Shifted(t) ==
  [day |-> t.day + (t.sec + MSK_Seconds) \div 86400 + EraDays,
   sec |-> (t.sec + MSK_Seconds) % 86400]

\* The number of periods of the given length in days, no more than most.
Periods_Unlimited(days, length, most) == days \div length
Periods(days, length, most) ==
  LET n == days \div length IN IF n > most THEN most ELSE n

LeapYear(year) == year % 4 = 0 /\ (year % 100 # 0 \/ year % 400 = 0)

\* The loop over the months: 13 if it finds none.
MonthOf(yday, leap) ==
  LET later == {m \in 1 .. 12 : yday < days_since_jan_1st[leap][m + 1]}
  IN  IF later = {} THEN 13 ELSE Min(later)

time_to_tm(t) ==
  LET s     == Shifted(t)
      in400 == s.day % 146097
      c     == Periods(in400, 36524, 3)
      in100 == in400 - c * 36524
      q     == Periods(in100, 1461, 24)
      in4   == in100 - q * 1461
      a     == Periods(in4, 365, 3)
      yday  == in4 - a * 365
      year  == 1601 + (s.day \div 146097) * 400 + c * 100 + q * 4 + a
      leap  == LeapYear(year)
      month == MonthOf(yday, leap)
  IN  [tm_sec  |-> s.sec % 60,
       tm_min  |-> (s.sec % 3600) \div 60,
       tm_hour |-> s.sec \div 3600,
       tm_mday |-> IF month = 13 THEN 1
                   ELSE 1 + yday - days_since_jan_1st[leap][month],
       tm_mon  |-> month - 1,
       tm_year |-> year - 1900,
       tm_wday |-> (s.day + 1) % 7,
       tm_yday |-> yday]

-----------------------------------------------------------------------------
(***************************************************************************)
(* The formatters, by the number of bytes they write.  Only int_in_slice   *)
(* looks at the slice's size; the bytes between the numbers are written    *)
(* unchecked.                                                              *)
(***************************************************************************)

\* int_in_slice with room enough, for 0 <= n < 100000.
Digits(n) ==
  IF n < 10 THEN 1 ELSE IF n < 100 THEN 2 ELSE IF n < 1000 THEN 3
  ELSE IF n < 10000 THEN 4 ELSE 5

Padded_Ten(n) == IF n <= 10 THEN 1 + Digits(n) ELSE Digits(n)
Padded(n) == IF n < 10 THEN 1 + Digits(n) ELSE Digits(n)

\* hh:mm:ss behind the hour.
MinutesAndSeconds(tm) == 1 + Padded(tm.tm_min) + 1 + Padded(tm.tm_sec)

tm_rfc822_in_slice(tm) ==
  3 + 2 + Padded(tm.tm_mday) + 1 + 3 + 1 + Digits(tm.tm_year + 1900) + 1
    + Padded(tm.tm_hour) + MinutesAndSeconds(tm) + 6
tm_in_slice(tm) ==
  Padded(tm.tm_mday) + 1 + Padded(tm.tm_mon + 1) + 1 + Digits(tm.tm_year + 1900) + 1
    + Padded(tm.tm_hour) + MinutesAndSeconds(tm) + 4
tm_in_slice2(tm) == Digits(tm.tm_hour) + MinutesAndSeconds(tm) + 4

\* What check_line_and_send keeps in msg beside the name and the line, and what it
\* puts there: " (", the time and "): ".
StampRoom == 17
StampBytes(tm) == 2 + tm_in_slice2(tm) + 3

-----------------------------------------------------------------------------
(***************************************************************************)
(* The calendar: months have their lengths, weeks go on.                   *)
(***************************************************************************)

LastDay(year, mon) ==
  CASE mon \in {3, 5, 8, 10} -> 30
    [] mon = 1 -> IF year % 400 = 0 \/ (year % 4 = 0 /\ year % 100 # 0) THEN 29 ELSE 28
    [] OTHER -> 31

NextDate(d) ==
  LET week == (d.wday + 1) % 7
  IN  IF d.mday < LastDay(d.year, d.mon)
      THEN [d EXCEPT !.mday = @ + 1, !.yday = @ + 1, !.wday = week]
      ELSE IF d.mon < 11
      THEN [d EXCEPT !.mday = 1, !.mon = @ + 1, !.yday = @ + 1, !.wday = week]
      ELSE [year |-> d.year + 1, mon |-> 0, mday |-> 1, yday |-> 0, wday |-> week]

\* Days from 1 January 1970, a Thursday, to 1 January of the year.
DaysBefore(year) ==
  365 * (year - 1970) + Cardinality({y \in 1970 .. year - 1 : LastDay(y, 1) = 29})

MoscowSecond(t) == (t.sec + 3 * 3600) % 86400

-----------------------------------------------------------------------------

CalendarInit ==
  \E year \in FirstYear .. LastYear :
    /\ now = [day |-> DaysBefore(year), sec |-> 0]
    /\ date = [year |-> year, mon |-> 0, mday |-> 1, yday |-> 0,
               wday |-> (4 + DaysBefore(year)) % 7]

NextSecond ==
  LET later == {s \in SecondsOfDay : s > now.sec}
  IN  IF later # {} THEN [now EXCEPT !.sec = Min(later)]
      ELSE [day |-> now.day + 1, sec |-> Min(SecondsOfDay)]

\* At most a day goes by, and midnight if the hand went back.
Tick ==
  /\ date.year <= LastYear
  /\ now' = NextSecond
  /\ date' = IF MoscowSecond(now') <= MoscowSecond(now) THEN NextDate(date) ELSE date

CalendarSpec == CalendarInit /\ [][Tick]_calendarVars

-----------------------------------------------------------------------------

\* time_to_tm gives the date and time in Moscow: over leap years and centuries, at midnight
\* there and not at midnight UTC, on the last days of periods of 4, 100 and 400
\* years, where a quotient is one more than the number of periods.
TimeAgrees ==
  LET tm == time_to_tm(now)
  IN  /\ tm.tm_hour * 3600 + tm.tm_min * 60 + tm.tm_sec = MoscowSecond(now)
      /\ tm.tm_min \in 0 .. 59 /\ tm.tm_sec \in 0 .. 59
      /\ tm.tm_year + 1900 = date.year
      /\ tm.tm_mon = date.mon /\ tm.tm_mday = date.mday
      /\ tm.tm_wday = date.wday /\ tm.tm_yday = date.yday

\* The bytes written without a check stay in the room the callers count on: the
\* stamp of a line fits beside name and line in check_line_and_send, and the two
\* dates are as long as their comments show, "Sat, 04 Nov 2023 17:47:03 +0300" and
\* "08.10.2023 15:13:54 MSK".
StampsFit ==
  LET tm == time_to_tm(now)
  IN  /\ StampBytes(tm) <= StampRoom
      /\ tm_rfc822_in_slice(tm) = 31
      /\ tm_in_slice(tm) = 23
=============================================================================
