---------------------------- MODULE ReportPeriod ----------------------------
(***************************************************************************)
(* The calendar of the statistics report: which periods                    *)
(* LinkStatisticsService.resolvePeriod accepts, and the dates and months   *)
(* that eachUtcDate and eachUtcMonth list for one.  A date is the record   *)
(* of the numbers in "YYYY-MM-DD", whether a calendar has it or not; a     *)
(* JavaScript Date is the number of days since 0000-01-01.                 *)
(***************************************************************************)
EXTENDS Integers

MaxInclusiveCalendarMonths == 12

DefaultPeriodDays == 30

-----------------------------------------------------------------------------
(* Date of ECMAScript: the proleptic Gregorian calendar.                   *)

LeapYear(y) == y % 4 = 0 /\ (y % 100 # 0 \/ y % 400 = 0)

DaysIn(y, m) ==
  CASE m = 2 -> IF LeapYear(y) THEN 29 ELSE 28
    [] m \in {4, 6, 9, 11} -> 30
    [] OTHER -> 31

YearStart(y) ==
  365 * y + (y + 3) \div 4 - (y + 99) \div 100 + (y + 399) \div 400

DaysBefore == <<0, 31, 59, 90, 120, 151, 181, 212, 243, 273, 304, 334>>

MonthStart(y, m) ==
  YearStart(y) + DaysBefore[m] + IF m > 2 /\ LeapYear(y) THEN 1 ELSE 0

\* new Date("YYYY-MM-DDT00:00:00.000Z")
DayNumber(date) == MonthStart(date.y, date.m) + date.d - 1

\* Date.UTC: months and days roll over, a year below 100 is one of the 1900s.
DateUTC(y, m, d) ==
  LET year == (IF y \in 0..99 THEN 1900 + y ELSE y) + (m - 1) \div 12
  IN  MonthStart(year, ((m - 1) % 12) + 1) + d - 1

\* 400 years have 146097 days.
\* getUTCFullYear, getUTCMonth and getUTCDate; toISOString().slice(0, 10)
CalendarDate(n) ==
  LET guess == (400 * n) \div 146097
      y == CHOOSE y \in (guess - 1)..(guess + 1) :
             YearStart(y) <= n /\ n < YearStart(y + 1)
      m == CHOOSE m \in 1..12 :
             MonthStart(y, m) <= n /\ n < MonthStart(y, m) + DaysIn(y, m)
  IN  [y |-> y, m |-> m, d |-> n - MonthStart(y, m) + 1]

-----------------------------------------------------------------------------
(* LinkStatisticsService                                                   *)

\* A check of the ranges alone, without the comparison after Date.UTC.
InRange(date) == date.m \in 1..12 /\ date.d \in 1..31

IsValidUtcCalendarDate(date) ==
  CalendarDate(DateUTC(date.y, date.m, date.d)) = date

\* The strings compare like the numbers in them, from the year on.
Later(a, b) ==
  \/ a.y > b.y
  \/ (a.y = b.y /\ a.m > b.m)
  \/ (a.y = b.y /\ a.m = b.m /\ a.d > b.d)

InclusiveCalendarMonths(from, to) == (to.y - from.y) * 12 + (to.m - from.m) + 1

AddUtcDays(date, n) == CalendarDate(DayNumber(date) + n)

DefaultPeriod(today) ==
  [from |-> AddUtcDays(today, -(DefaultPeriodDays - 1)), to |-> today]

\* The checks of an explicit period, in the order of the code.
PeriodAccepted(from, to) ==
  /\ IsValidUtcCalendarDate(from) /\ IsValidUtcCalendarDate(to)
  /\ ~Later(from, to)
  /\ InclusiveCalendarMonths(from, to) <= MaxInclusiveCalendarMonths

-----------------------------------------------------------------------------
(* TypeormLinkStatisticsRepository                                         *)

\* The cursor moves from day to day until it has passed the end.
EachUtcDate(from, to) ==
  [i \in 1..(DayNumber(to) - DayNumber(from) + 1) |->
     CalendarDate(DayNumber(from) + i - 1)]

MonthOfDate(date) == [y |-> date.y, m |-> date.m]

\* A month after December without the step to the next year.
SameYear(month) == [month EXCEPT !.m = IF @ = 12 THEN 1 ELSE @ + 1]

NextMonth(month) ==
  IF month.m = 12 THEN [y |-> month.y + 1, m |-> 1]
                  ELSE [month EXCEPT !.m = @ + 1]

MonthNotAfter(a, b) == a.y < b.y \/ (a.y = b.y /\ a.m <= b.m)

\* At most one month more than a period may have is looked at.
EachUtcMonth(from, to) ==
  LET month[i \in 1..(MaxInclusiveCalendarMonths + 1)] ==
        IF i = 1 THEN from ELSE NextMonth(month[i - 1])
  IN  [i \in {i \in DOMAIN month : MonthNotAfter(month[i], to)} |-> month[i]]
=============================================================================
