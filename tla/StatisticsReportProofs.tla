----------------------- MODULE StatisticsReportProofs -----------------------
(***************************************************************************)
(* Proofs about StatisticsReport: which queries resolvePeriod accepts, and *)
(* what four statements that run one after the other can say of tables     *)
(* that grow between them.                                                 *)
(*                                                                         *)
(* The first half is the calendar that Date.UTC keeps: the day number of a *)
(* date and the date of a day number are inverse, dates are ordered as     *)
(* their numbers, and a period has at most twelve calendar months exactly  *)
(* when it ends before the month it began in comes round.  The second half *)
(* compares each statement's result with the rows as they are: the rows    *)
(* only grow, a month is the sum of its days, and the sums over the days,  *)
(* the countries and the whole period group the same rows.                 *)
(***************************************************************************)
EXTENDS StatisticsReport, SumTheorems, FunctionTheorems

\* What the proofs need of the days and the countries.
LEMMA DaysAndCountries ==
  (\A d \in Days : d \in Nat) /\ IsFiniteSet(Days) /\ IsFiniteSet(Countries)
BY ReportAssumption

-----------------------------------------------------------------------------
(* Years                                                                   *)

LEMMA YearLength ==
  ASSUME NEW y \in Int
  PROVE  /\ YearStart(y) \in Int
         /\ YearStart(y + 1) = YearStart(y) + IF LeapYear(y) THEN 366 ELSE 365
BY SMTT(60) DEF YearStart, LeapYear

LEMMA YearsAdvance ==
  ASSUME NEW y \in Int, NEW z \in Int, y < z
  PROVE  YearStart(y + 1) <= YearStart(z)
BY SMTT(60) DEF YearStart

LEMMA YearsFromZero ==
  ASSUME NEW y \in Int
  PROVE  0 <= YearStart(y) <=> 0 <= y
BY SMTT(60) DEF YearStart

LEMMA GuessIsNear ==
  ASSUME NEW n \in Int, NEW g \in Int, g = (400 * n) \div 146097
  PROVE  YearStart(g - 1) <= n /\ n < YearStart(g + 2)
BY SMTT(60) DEF YearStart

IsYearOf(n, y) == YearStart(y) <= n /\ n < YearStart(y + 1)

LEMMA YearIsUnique ==
  ASSUME NEW n \in Int, NEW y \in Int, NEW z \in Int, IsYearOf(n, y), IsYearOf(n, z)
  PROVE  y = z
<1>1. ~(y < z)
  <2> SUFFICES ASSUME y < z PROVE FALSE
    OBVIOUS
  <2>1. YearStart(y + 1) <= YearStart(z)
    BY YearsAdvance
  <2>2. y + 1 \in Int
    OBVIOUS
  <2>3. YearStart(y + 1) \in Int /\ YearStart(z) \in Int
    BY <2>2, YearLength
  <2> QED BY <2>1, <2>3 DEF IsYearOf
<1>2. ~(z < y)
  <2> SUFFICES ASSUME z < y PROVE FALSE
    OBVIOUS
  <2>1. YearStart(z + 1) <= YearStart(y)
    BY YearsAdvance
  <2>2. z + 1 \in Int
    OBVIOUS
  <2>3. YearStart(z + 1) \in Int /\ YearStart(y) \in Int
    BY <2>2, YearLength
  <2> QED BY <2>1, <2>3 DEF IsYearOf
<1> QED BY <1>1, <1>2

\* Every day lies in a year next to the one guessed for it.
LEMMA YearIsNearGuess ==
  ASSUME NEW n \in Int, NEW g \in Int, g = (400 * n) \div 146097
  PROVE  /\ \E y \in (g - 1)..(g + 1) : IsYearOf(n, y)
         /\ \A y \in Int : IsYearOf(n, y) => y \in (g - 1)..(g + 1)
<1>1. YearStart(g - 1) <= n /\ n < YearStart(g + 2)
  BY GuessIsNear
<1>2. PICK y \in (g - 1)..(g + 1) : IsYearOf(n, y)
  <2>1. /\ (g - 1) + 1 = g /\ (g + 1) + 1 = g + 2
        /\ g - 1 \in Int /\ g + 1 \in Int /\ g + 2 \in Int
    OBVIOUS
  <2>2. /\ YearStart(g - 1) \in Int /\ YearStart(g) \in Int
        /\ YearStart(g + 1) \in Int /\ YearStart(g + 2) \in Int
    BY <2>1, YearLength
  <2>3. CASE n < YearStart(g)
    <3>1. IsYearOf(n, g - 1)
      BY <1>1, <2>1, <2>3 DEF IsYearOf
    <3> QED BY <2>1, <3>1
  <2>4. CASE YearStart(g) <= n /\ n < YearStart(g + 1)
    BY <2>4 DEF IsYearOf
  <2>5. CASE YearStart(g + 1) <= n
    <3>1. IsYearOf(n, g + 1)
      BY <1>1, <2>1, <2>5 DEF IsYearOf
    <3> QED BY <2>1, <3>1
  <2> QED BY <2>2, <2>3, <2>4, <2>5
<1>3. y \in Int
  OBVIOUS
<1>4. \A z \in Int : IsYearOf(n, z) => z = y
  BY <1>2, <1>3, YearIsUnique
<1> QED BY <1>2, <1>4

-----------------------------------------------------------------------------
(* Months                                                                  *)

IsMonthOf(n, y, m) ==
  MonthStart(y, m) <= n /\ n < MonthStart(y, m) + DaysIn(y, m)

LEMMA MonthLength ==
  ASSUME NEW y \in Int, NEW m \in 1..12
  PROVE  /\ MonthStart(y, m) \in Int
         /\ DaysIn(y, m) \in 28..31
         /\ MonthStart(y, 1) = YearStart(y)
         /\ m < 12 => MonthStart(y, m + 1) = MonthStart(y, m) + DaysIn(y, m)
         /\ MonthStart(y, 12) + DaysIn(y, 12) = YearStart(y + 1)
<1>1. YearStart(y) \in Int
      /\ YearStart(y + 1) = YearStart(y) + IF LeapYear(y) THEN 366 ELSE 365
  BY YearLength
<1>2. /\ DaysBefore[1] = 0 /\ DaysBefore[2] = 31 /\ DaysBefore[3] = 59
      /\ DaysBefore[4] = 90 /\ DaysBefore[5] = 120 /\ DaysBefore[6] = 151
      /\ DaysBefore[7] = 181 /\ DaysBefore[8] = 212 /\ DaysBefore[9] = 243
      /\ DaysBefore[10] = 273 /\ DaysBefore[11] = 304 /\ DaysBefore[12] = 334
  BY DEF DaysBefore
<1>3. m = 1 \/ m = 2 \/ m = 3 \/ m = 4 \/ m = 5 \/ m = 6 \/ m = 7 \/ m = 8 \/ m = 9
      \/ m = 10 \/ m = 11 \/ m = 12
  OBVIOUS
<1>4. DaysIn(y, m) \in 28..31
  BY DEF DaysIn
<1>5. MonthStart(y, m) \in Int /\ MonthStart(y, 1) = YearStart(y)
  BY <1>1, <1>2, <1>3 DEF MonthStart
<1>6. MonthStart(y, 12) + DaysIn(y, 12) = YearStart(y + 1)
  BY <1>1, <1>2 DEF MonthStart, DaysIn
<1>7. m < 12 => MonthStart(y, m + 1) = MonthStart(y, m) + DaysIn(y, m)
  BY <1>1, <1>2, <1>3 DEF MonthStart, DaysIn
<1> QED BY <1>4, <1>5, <1>6, <1>7

LEMMA MonthTypes ==
  ASSUME NEW y \in Int, NEW m \in 1..12
  PROVE  MonthStart(y, m) \in Int /\ DaysIn(y, m) \in Int /\ DaysIn(y, m) \in 28..31
<1>1. MonthStart(y, m) \in Int /\ DaysIn(y, m) \in 28..31
  BY MonthLength
<1> QED BY <1>1

LEMMA MonthsAdvance ==
  ASSUME NEW y \in Int, NEW m \in 1..12, NEW k \in 1..12, m < k
  PROVE  MonthStart(y, m) + DaysIn(y, m) <= MonthStart(y, k)
<1>1. YearStart(y) \in Int
  BY YearLength
<1>2. /\ DaysBefore[1] = 0 /\ DaysBefore[2] = 31 /\ DaysBefore[3] = 59
      /\ DaysBefore[4] = 90 /\ DaysBefore[5] = 120 /\ DaysBefore[6] = 151
      /\ DaysBefore[7] = 181 /\ DaysBefore[8] = 212 /\ DaysBefore[9] = 243
      /\ DaysBefore[10] = 273 /\ DaysBefore[11] = 304 /\ DaysBefore[12] = 334
  BY DEF DaysBefore
<1>3. /\ m = 1 \/ m = 2 \/ m = 3 \/ m = 4 \/ m = 5 \/ m = 6 \/ m = 7 \/ m = 8 \/ m = 9
         \/ m = 10 \/ m = 11 \/ m = 12
      /\ k = 1 \/ k = 2 \/ k = 3 \/ k = 4 \/ k = 5 \/ k = 6 \/ k = 7 \/ k = 8 \/ k = 9
         \/ k = 10 \/ k = 11 \/ k = 12
  OBVIOUS
<1> QED BY <1>1, <1>2, <1>3, SMTT(60) DEF MonthStart, DaysIn

LEMMA MonthIsUnique ==
  ASSUME NEW n \in Int, NEW y \in Int, NEW m \in 1..12, NEW k \in 1..12,
         IsMonthOf(n, y, m), IsMonthOf(n, y, k)
  PROVE  m = k
<1>1. /\ MonthStart(y, m) \in Int /\ DaysIn(y, m) \in Int
      /\ MonthStart(y, k) \in Int /\ DaysIn(y, k) \in Int
  BY MonthTypes
<1>2. ~(m < k)
  BY <1>1, MonthsAdvance DEF IsMonthOf
<1>3. ~(k < m)
  BY <1>1, MonthsAdvance DEF IsMonthOf
<1> QED BY <1>2, <1>3

LEMMA MonthExists ==
  ASSUME NEW n \in Int, NEW y \in Int, IsYearOf(n, y)
  PROVE  \E m \in 1..12 : IsMonthOf(n, y, m)
<1> DEFINE S(m) == MonthStart(y, m)
           D(m) == DaysIn(y, m)
<1>1. \A m \in 1..12 : S(m) \in Int /\ D(m) \in Int
  BY MonthTypes
<1>2. /\ S(1) <= n /\ n < S(12) + D(12)
      /\ S(2) = S(1) + D(1) /\ S(3) = S(2) + D(2) /\ S(4) = S(3) + D(3)
      /\ S(5) = S(4) + D(4) /\ S(6) = S(5) + D(5) /\ S(7) = S(6) + D(6)
      /\ S(8) = S(7) + D(7) /\ S(9) = S(8) + D(8) /\ S(10) = S(9) + D(9)
      /\ S(11) = S(10) + D(10) /\ S(12) = S(11) + D(11)
  <2>1. \A m \in 1..12 : m < 12 => S(m + 1) = S(m) + D(m)
    BY MonthLength
  <2>2. S(1) = YearStart(y) /\ S(12) + D(12) = YearStart(y + 1)
    BY MonthLength
  <2> QED BY <2>1, <2>2 DEF IsYearOf
<1> SUFFICES ASSUME \A m \in 1..12 : ~(S(m) <= n /\ n < S(m) + D(m)) PROVE FALSE
  BY DEF IsMonthOf
<1> HIDE DEF S, D
<1> QED BY <1>1, <1>2, SMTT(60)

-----------------------------------------------------------------------------
(* Dates and day numbers                                                   *)

\* A date some calendar has, in a year from 0 on.
IsDate(date) ==
  /\ date \in [y: Nat, m: 1..12, d: Nat]
  /\ date.d \in 1..DaysIn(date.y, date.m)

LEMMA DayNumberIsInMonth ==
  ASSUME NEW date, IsDate(date)
  PROVE  /\ DayNumber(date) \in Nat
         /\ IsYearOf(DayNumber(date), date.y)
         /\ IsMonthOf(DayNumber(date), date.y, date.m)
<1> DEFINE y == date.y
           m == date.m
           n == DayNumber(date)
<1>1. y \in Int /\ 0 <= y /\ m \in 1..12 /\ 1 \in 1..12 /\ 12 \in 1..12
  BY DEF IsDate
<1>2. /\ MonthStart(y, m) \in Int /\ DaysIn(y, m) \in Int
      /\ MonthStart(y, 1) \in Int /\ MonthStart(y, 12) \in Int
      /\ DaysIn(y, 1) \in 28..31 /\ DaysIn(y, 12) \in 28..31
      /\ MonthStart(y, 1) = YearStart(y)
      /\ MonthStart(y, 12) + DaysIn(y, 12) = YearStart(y + 1)
  <2>1. 1 \in 1..12
    OBVIOUS
  <2> QED BY <1>1, <2>1, MonthTypes, MonthLength
<1>3. n \in Int /\ IsMonthOf(n, y, m)
  BY <1>2 DEF DayNumber, IsMonthOf, IsDate
<1>4. YearStart(y) <= MonthStart(y, m)
  <2>1. m = 1 => MonthStart(y, m) = YearStart(y)
    BY <1>2
  <2>2. 1 < m => MonthStart(y, 1) + DaysIn(y, 1) <= MonthStart(y, m)
    BY <1>1, MonthsAdvance
  <2> QED BY <1>1, <1>2, <2>1, <2>2
<1>5. MonthStart(y, m) + DaysIn(y, m) <= YearStart(y + 1)
  <2>1. m = 12 => MonthStart(y, m) + DaysIn(y, m) = YearStart(y + 1)
    BY <1>2
  <2>2. m < 12 => MonthStart(y, m) + DaysIn(y, m) <= MonthStart(y, 12)
    BY <1>1, MonthsAdvance
  <2> QED BY <1>1, <1>2, <2>1, <2>2
<1>6. YearStart(y) \in Int /\ 0 <= YearStart(y) /\ YearStart(y + 1) \in Int
  <2>1. y + 1 \in Int
    BY <1>1
  <2> QED BY <1>1, <2>1, YearLength, YearsFromZero
<1> HIDE DEF n, y, m
<1>7. n \in Nat /\ IsYearOf(n, y)
  BY <1>2, <1>3, <1>4, <1>5, <1>6 DEF IsYearOf, IsMonthOf
<1> QED BY <1>3, <1>7 DEF n, y, m

LEMMA CalendarDateOf ==
  ASSUME NEW n \in Int, NEW y \in Int, NEW m \in 1..12,
         IsYearOf(n, y), IsMonthOf(n, y, m)
  PROVE  CalendarDate(n) = [y |-> y, m |-> m, d |-> n - MonthStart(y, m) + 1]
<1> DEFINE g == (400 * n) \div 146097
           z == CHOOSE x \in (g - 1)..(g + 1) :
                  YearStart(x) <= n /\ n < YearStart(x + 1)
           k == CHOOSE x \in 1..12 :
                  MonthStart(z, x) <= n /\ n < MonthStart(z, x) + DaysIn(z, x)
<1>1. g \in Int
  OBVIOUS
<1>2. CalendarDate(n) = [y |-> z, m |-> k, d |-> n - MonthStart(z, k) + 1]
  BY DEF CalendarDate
<1>3. z = y
  <2> HIDE DEF g
  <2>1. \E x \in (g - 1)..(g + 1) : IsYearOf(n, x)
    BY <1>1, YearIsNearGuess DEF g
  <2>2. z \in (g - 1)..(g + 1) /\ IsYearOf(n, z)
    BY <2>1 DEF IsYearOf
  <2> HIDE DEF z
  <2>3. z \in Int
    BY <1>1, <2>2
  <2> QED BY <2>2, <2>3, YearIsUnique
<1>4. k = m
  <2> HIDE DEF z
  <2>1. k \in 1..12 /\ IsMonthOf(n, z, k)
    BY <1>3 DEF IsMonthOf
  <2> HIDE DEF k
  <2> QED BY <1>3, <2>1, MonthIsUnique
<1> HIDE DEF z, k
<1> QED BY <1>2, <1>3, <1>4

\* A date has one day number, and a day number one date.
LEMMA CalendarDateIsInverse ==
  ASSUME NEW date, IsDate(date)
  PROVE  CalendarDate(DayNumber(date)) = date
<1> DEFINE n == DayNumber(date)
<1>1. /\ n \in Int /\ date.y \in Int /\ date.m \in 1..12
      /\ IsYearOf(n, date.y) /\ IsMonthOf(n, date.y, date.m)
  BY DayNumberIsInMonth DEF IsDate
<1> HIDE DEF n
<1>2. CalendarDate(n)
        = [y |-> date.y, m |-> date.m, d |-> n - MonthStart(date.y, date.m) + 1]
  BY <1>1, CalendarDateOf
<1>3. n - MonthStart(date.y, date.m) + 1 = date.d
  <2>1. MonthStart(date.y, date.m) \in Int
    BY <1>1, MonthTypes
  <2>2. date.d \in Int
    BY DEF IsDate
  <2> QED BY <2>1, <2>2 DEF n, DayNumber
<1>4. date = [y |-> date.y, m |-> date.m, d |-> date.d]
  BY DEF IsDate
<1> QED BY <1>2, <1>3, <1>4 DEF n

LEMMA CalendarDateIsDate ==
  ASSUME NEW n \in Nat
  PROVE  IsDate(CalendarDate(n)) /\ DayNumber(CalendarDate(n)) = n
<1> DEFINE g == (400 * n) \div 146097
<1>1. g \in Int
  OBVIOUS
<1>2. PICK y \in (g - 1)..(g + 1) : IsYearOf(n, y)
  BY <1>1, YearIsNearGuess
<1> HIDE DEF g
<1>3. y \in Int
  BY <1>1
<1>4. PICK m \in 1..12 : IsMonthOf(n, y, m)
  BY <1>2, <1>3, MonthExists
<1>5. CalendarDate(n) = [y |-> y, m |-> m, d |-> n - MonthStart(y, m) + 1]
  BY <1>2, <1>3, <1>4, CalendarDateOf
<1>6. MonthStart(y, m) \in Int /\ DaysIn(y, m) \in Int
  BY <1>3, MonthTypes
<1>7. 0 <= y
  <2>1. y + 1 \in Int /\ YearStart(y + 1) \in Int /\ 0 <= YearStart(y + 1)
    <3>1. y + 1 \in Int
      BY <1>3
    <3> QED BY <1>2, <3>1, YearLength DEF IsYearOf
  <2>2. 0 <= y + 1
    BY <2>1, YearsFromZero
  <2>3. y # -1
    <3> SUFFICES ASSUME y = -1 PROVE FALSE
      OBVIOUS
    <3>1. YearStart(y + 1) = 0
      BY DEF YearStart
    <3> QED BY <1>2, <3>1 DEF IsYearOf
  <2> QED BY <1>3, <2>2, <2>3
<1> QED BY <1>3, <1>4, <1>5, <1>6, <1>7 DEF IsDate, DayNumber, IsMonthOf

LEMMA LaterIsGreater ==
  ASSUME NEW a, NEW b, IsDate(a), IsDate(b), Later(a, b)
  PROVE  DayNumber(b) < DayNumber(a)
<1>1. /\ a.y \in Int /\ a.m \in 1..12 /\ a.d \in Int
      /\ b.y \in Int /\ b.m \in 1..12 /\ b.d \in Int
  BY DEF IsDate
<1>2. DayNumber(a) \in Nat /\ DayNumber(b) \in Nat
  BY DayNumberIsInMonth
<1>3. CASE a.y > b.y
  <2>1. /\ IsYearOf(DayNumber(a), a.y) /\ IsYearOf(DayNumber(b), b.y)
    BY DayNumberIsInMonth
  <2>2. YearStart(b.y + 1) <= YearStart(a.y)
    BY <1>1, <1>3, YearsAdvance
  <2>3. YearStart(b.y + 1) \in Int /\ YearStart(a.y) \in Int
    <3>1. b.y + 1 \in Int
      BY <1>1
    <3> QED BY <1>1, <3>1, YearLength
  <2> QED BY <1>2, <2>1, <2>2, <2>3 DEF IsYearOf
<1>4. CASE a.y = b.y /\ a.m > b.m
  <2>1. /\ IsMonthOf(DayNumber(a), a.y, a.m) /\ IsMonthOf(DayNumber(b), a.y, b.m)
    BY <1>4, DayNumberIsInMonth
  <2>2. MonthStart(a.y, b.m) + DaysIn(a.y, b.m) <= MonthStart(a.y, a.m)
    BY <1>1, <1>4, MonthsAdvance
  <2>3. /\ MonthStart(a.y, a.m) \in Int /\ MonthStart(a.y, b.m) \in Int
        /\ DaysIn(a.y, b.m) \in Int
    BY <1>1, MonthTypes
  <2> QED BY <1>2, <2>1, <2>2, <2>3 DEF IsMonthOf
<1>5. CASE a.y = b.y /\ a.m = b.m /\ a.d > b.d
  <2>1. MonthStart(a.y, a.m) \in Int
    BY <1>1, MonthTypes
  <2> QED BY <1>1, <1>5, <2>1 DEF DayNumber
<1> QED BY <1>3, <1>4, <1>5 DEF Later

\* Dates compare like their day numbers.
LEMMA DateOrder ==
  ASSUME NEW a, NEW b, IsDate(a), IsDate(b)
  PROVE  /\ Later(a, b) <=> DayNumber(b) < DayNumber(a)
         /\ DayNumber(a) = DayNumber(b) => a = b
<1>1. DayNumber(a) \in Nat /\ DayNumber(b) \in Nat
  BY DayNumberIsInMonth
<1>2. Later(a, b) => DayNumber(b) < DayNumber(a)
  BY LaterIsGreater
<1>3. Later(b, a) => DayNumber(a) < DayNumber(b)
  BY LaterIsGreater
<1>4. ~Later(a, b) /\ ~Later(b, a) => a = b
  BY DEF Later, IsDate
<1> QED BY <1>1, <1>2, <1>3, <1>4

QueryDate == [y: Nat, m: Nat, d: Nat]

\* The comparison after Date.UTC accepts exactly the dates of the calendar, from the
\* year 100 on.
LEMMA ValidityIsExact ==
  ASSUME NEW date \in QueryDate
  PROVE  IsValidUtcCalendarDate(date) <=> RealDate(date)
<1> DEFINE n == DateUTC(date.y, date.m, date.d)
<1>1. /\ date.y \in Nat /\ date.m \in Nat /\ date.d \in Nat
      /\ date = [y |-> date.y, m |-> date.m, d |-> date.d]
  BY DEF QueryDate
<1>2. ASSUME RealDate(date) PROVE IsValidUtcCalendarDate(date)
  <2>1. date.y >= 100 /\ date.m \in 1..12
    BY <1>2 DEF RealDate
  <2>2. (date.m - 1) \div 12 = 0 /\ ((date.m - 1) % 12) + 1 = date.m
    BY <2>1
  <2>3. n = DayNumber(date)
    <3>1. date.y \notin 0..99 /\ date.y + 0 = date.y
      BY <1>1, <2>1
    <3> QED BY <2>2, <3>1 DEF DateUTC, DayNumber
  <2>4. IsDate(date)
    <3>1. date \in [y: Nat, m: 1..12, d: Nat]
      BY <1>1, <2>1
    <3> QED BY <1>2, <3>1 DEF IsDate, RealDate
  <2> QED BY <2>3, <2>4, CalendarDateIsInverse DEF IsValidUtcCalendarDate
<1>3. ASSUME IsValidUtcCalendarDate(date) PROVE RealDate(date)
  <2> DEFINE c == IF date.y \in 0..99 THEN 1900 + date.y ELSE date.y
             y == c + (date.m - 1) \div 12
             m == ((date.m - 1) % 12) + 1
  <2>1. c \in Nat /\ c >= 100 /\ y \in Int /\ y >= 99 /\ m \in 1..12
    BY <1>1
  <2>2. n = MonthStart(y, m) + date.d - 1
    BY DEF DateUTC
  <2> HIDE DEF y, m, c, n
  <2>3. n \in Nat
    <3> DEFINE e == [y |-> y, m |-> m, d |-> 1]
    <3>1. DaysIn(y, m) \in 28..31 /\ MonthStart(y, m) \in Int
      BY <2>1, MonthTypes
    <3>2. IsDate(e)
      BY <2>1, <3>1 DEF IsDate
    <3>3. DayNumber(e) \in Nat /\ DayNumber(e) = MonthStart(y, m)
      <4>1. DayNumber(e) \in Nat
        BY <3>2, DayNumberIsInMonth
      <4>2. DayNumber(e) = MonthStart(y, m) + 1 - 1
        BY DEF DayNumber
      <4> QED BY <3>1, <4>1, <4>2
    <3>4. MonthStart(y, m) >= 28
      <4> DEFINE z == [y |-> 0, m |-> 1, d |-> 29]
      <4>1. IsDate(z)
        BY DEF IsDate, DaysIn
      <4>2. Later(e, z)
        BY <2>1 DEF Later
      <4>3. DayNumber(z) < DayNumber(e)
        BY <3>2, <4>1, <4>2, LaterIsGreater
      <4>4. DayNumber(z) = 28
        BY DEF DayNumber, MonthStart, YearStart, DaysBefore
      <4> HIDE DEF e, z
      <4> QED BY <3>3, <4>3, <4>4
    <3> QED BY <1>1, <2>2, <3>1, <3>4
  <2>4. CalendarDate(n) = date
    BY <1>3 DEF IsValidUtcCalendarDate, n
  <2>5. IsDate(date) /\ DayNumber(date) = n
    BY <2>3, <2>4, CalendarDateIsDate
  <2>6. date.m \in 1..12 /\ date.d \in 1..DaysIn(date.y, date.m)
    BY <2>5 DEF IsDate
  <2>7. y = c /\ m = date.m
    BY <1>1, <2>1, <2>6 DEF y, m
  <2>8. date.y = c
    <3>1. IsYearOf(n, date.y)
      BY <2>5, DayNumberIsInMonth
    <3>2. date.y # c => date.y \in 0..99 /\ c = 1900 + date.y
      BY DEF c
    <3>3. SUFFICES ASSUME date.y \in 0..99, c = 1900 + date.y PROVE FALSE
      BY <3>2
    <3> DEFINE e == [y |-> c, m |-> date.m, d |-> 1]
    <3>4. DaysIn(c, date.m) \in 28..31 /\ MonthStart(c, date.m) \in Int
      <4>1. c \in Int
        BY <2>1
      <4> QED BY <4>1, <2>6, MonthTypes
    <3>5. IsDate(e)
      BY <2>1, <2>6, <3>4 DEF IsDate
    <3>6. Later(e, date)
      BY <3>3 DEF Later
    <3>7. DayNumber(date) < DayNumber(e)
      BY <2>5, <3>5, <3>6, LaterIsGreater
    <3>8. DayNumber(e) = MonthStart(c, date.m) /\ n >= MonthStart(c, date.m)
      <4>1. DayNumber(e) = MonthStart(c, date.m) + 1 - 1
        BY DEF DayNumber
      <4>2. MonthStart(c, date.m) \in Int
        BY <3>4
      <4>3. date.d >= 1 /\ date.d \in Int
        BY <1>1, <2>6, <3>3
      <4> QED BY <2>2, <2>7, <4>1, <4>2, <4>3
    <3>9. DayNumber(e) \in Nat
      BY <3>5, DayNumberIsInMonth
    <3> HIDE DEF e
    <3> QED BY <2>3, <2>5, <3>7, <3>8, <3>9
  <2> QED BY <2>1, <2>6, <2>8 DEF RealDate
<1> QED BY <1>2, <1>3

LEMMA RealQueryIsDate ==
  ASSUME NEW date \in QueryDate, RealDate(date)
  PROVE  IsDate(date)
<1>1. date.y \in Nat /\ date = [y |-> date.y, m |-> date.m, d |-> date.d]
  BY DEF QueryDate
<1>2. date.m \in 1..12 /\ date.d \in 1..DaysIn(date.y, date.m) /\ date.d \in Nat
  BY DEF QueryDate, RealDate
<1> QED BY <1>1, <1>2 DEF IsDate

\* At most twelve calendar months are the dates before the month that begins a year
\* after the first.
LEMMA TwelveMonths ==
  ASSUME NEW from, NEW to, IsDate(from), IsDate(to)
  PROVE  InclusiveCalendarMonths(from, to) <= MaxInclusiveCalendarMonths
           <=> DayNumber(to) < MonthStart(from.y + 1, from.m)
<1> DEFINE e == [y |-> from.y + 1, m |-> from.m, d |-> 1]
<1>1. /\ from.y \in Nat /\ from.m \in 1..12 /\ from.y + 1 \in Nat /\ from.y + 1 \in Int
      /\ to.y \in Nat /\ to.m \in 1..12 /\ to.d \in Nat /\ to.d >= 1
  BY DEF IsDate
<1>2. DaysIn(from.y + 1, from.m) \in 28..31 /\ MonthStart(from.y + 1, from.m) \in Int
  BY <1>1, MonthTypes
<1>3. IsDate(e)
  BY <1>1, <1>2 DEF IsDate
<1>4. DayNumber(e) = MonthStart(from.y + 1, from.m)
  <2>1. DayNumber(e) = MonthStart(from.y + 1, from.m) + 1 - 1
    BY DEF DayNumber
  <2> QED BY <1>2, <2>1
<1>5. InclusiveCalendarMonths(from, to) <= MaxInclusiveCalendarMonths <=> Later(e, to)
  <2>1. Later(e, to) <=> (to.y < from.y + 1 \/ (to.y = from.y + 1 /\ to.m < from.m))
    BY <1>1 DEF Later
  <2>2. \A a, b \in Nat, m, k \in 1..12 :
          (b - a) * 12 + (k - m) + 1 <= 12 <=> (b < a + 1 \/ (b = a + 1 /\ k < m))
    BY SMTT(60)
  <2> HIDE DEF e
  <2>3. InclusiveCalendarMonths(from, to) <= MaxInclusiveCalendarMonths
          <=> (to.y < from.y + 1 \/ (to.y = from.y + 1 /\ to.m < from.m))
    BY <1>1, <2>2 DEF InclusiveCalendarMonths, MaxInclusiveCalendarMonths
  <2> QED BY <2>1, <2>3
<1> HIDE DEF e
<1>6. Later(e, to) <=> DayNumber(to) < DayNumber(e)
  BY <1>3, DateOrder
<1> QED BY <1>4, <1>5, <1>6

-----------------------------------------------------------------------------
(* The default period                                                      *)

LEMMA YearAfterIsLater ==
  ASSUME NEW y \in Int, NEW m \in 1..12
  PROVE  MonthStart(y + 1, m) \in Int /\ MonthStart(y + 1, m) >= MonthStart(y, m) + 365
<1>1. y + 1 \in Int
  OBVIOUS
<1>2. YearStart(y) \in Int /\ YearStart(y + 1) \in Int
  BY <1>1, YearLength
<1>3. YearStart(y + 1) = YearStart(y) + IF LeapYear(y) THEN 366 ELSE 365
  BY YearLength
<1>4. DaysBefore[m] \in Int
  BY DEF DaysBefore
<1>5. MonthStart(y + 1, m) \in Int
  BY <1>1, MonthTypes
<1> HIDE DEF DaysBefore
<1>6. ~(LeapYear(y) /\ LeapYear(y + 1))
  BY SMTT(60) DEF LeapYear
<1> QED BY <1>2, <1>3, <1>4, <1>5 DEF MonthStart

\* What the report can be asked for: a period of real dates in order, of at most
\* twelve calendar months.
IsPeriod(from, to) ==
  /\ IsDate(from) /\ IsDate(to)
  /\ RealDate(from) /\ RealDate(to)
  /\ DayNumber(from) <= DayNumber(to)
  /\ InclusiveCalendarMonths(from, to) <= MaxInclusiveCalendarMonths

First == [y |-> 100, m |-> 1, d |-> 1]

\* The year 100 began long before the clock.
LEMMA FirstDates ==
  /\ IsDate(First) /\ DayNumber(First) \in Nat
  /\ Epoch \in Nat
  /\ DayNumber(First) + 29 <= Epoch
<1> DEFINE epoch == [y |-> 1970, m |-> 1, d |-> 1]
<1>1. DaysIn(100, 1) = 31 /\ DaysIn(1970, 1) = 31
  BY DEF DaysIn
<1>2. IsDate(First) /\ IsDate(epoch)
  BY <1>1 DEF IsDate, First
<1>3. DayNumber(First) \in Nat /\ DayNumber(epoch) \in Nat
  BY <1>2, DayNumberIsInMonth
<1>4. YearStart(100) + 29 <= YearStart(1970)
  BY SMT DEF YearStart
<1>5. MonthStart(100, 1) = YearStart(100) /\ MonthStart(1970, 1) = YearStart(1970)
  <2>1. 1 \in 1..12
    OBVIOUS
  <2> QED BY <2>1, MonthLength
<1>6. DayNumber(First) = YearStart(100) + 1 - 1 /\ DayNumber(epoch) = YearStart(1970) + 1 - 1
  BY <1>5 DEF DayNumber, First
<1>7. YearStart(100) \in Int /\ YearStart(1970) \in Int
  BY YearLength
<1> HIDE DEF epoch
<1>8. DayNumber(First) + 29 <= DayNumber(epoch)
  BY <1>4, <1>6, <1>7
<1> QED BY <1>2, <1>3, <1>8 DEF epoch, Epoch

LEMMA LateDatesAreReal ==
  ASSUME NEW n \in Nat, n >= DayNumber(First)
  PROVE  /\ IsDate(CalendarDate(n)) /\ RealDate(CalendarDate(n))
         /\ DayNumber(CalendarDate(n)) = n
<1> DEFINE date == CalendarDate(n)
<1>1. IsDate(date) /\ DayNumber(date) = n
  BY CalendarDateIsDate
<1>2. IsDate(First) /\ DayNumber(First) \in Nat
  BY FirstDates
<1>4. ~Later(First, date)
  <2> HIDE DEF date
  <2>1. Later(First, date) => DayNumber(date) < DayNumber(First)
    BY <1>1, <1>2, LaterIsGreater
  <2> QED BY <1>1, <1>2, <2>1
<1>5. date.y \in Nat /\ date.m \in 1..12 /\ date.d \in 1..DaysIn(date.y, date.m)
  BY <1>1 DEF IsDate
<1> HIDE DEF date
<1>6. date.y >= 100
  BY <1>4, <1>5 DEF Later, First
<1> QED BY <1>1, <1>5, <1>6 DEF date, RealDate

LEMMA ThirtyDaysFit ==
  ASSUME NEW from, NEW to, IsDate(from), IsDate(to),
         DayNumber(to) <= DayNumber(from) + 29
  PROVE  InclusiveCalendarMonths(from, to) <= MaxInclusiveCalendarMonths
<1> DEFINE y == from.y
           m == from.m
           day == from.d
           next == MonthStart(y + 1, m)
<1>1. y \in Int /\ m \in 1..12
  BY DEF IsDate
<1>2. day \in Int /\ day <= DaysIn(y, m)
  BY DEF IsDate
<1>3. DayNumber(from) = MonthStart(y, m) + day - 1
  BY DEF DayNumber
<1>4. DayNumber(from) \in Nat /\ DayNumber(to) \in Nat
  BY DayNumberIsInMonth
<1> HIDE DEF y, m, day
<1>5. MonthStart(y, m) \in Int /\ DaysIn(y, m) \in 28..31
  BY <1>1, MonthTypes
<1>6. next \in Int /\ next >= MonthStart(y, m) + 365
  BY <1>1, YearAfterIsLater
<1> HIDE DEF next
<1>7. DayNumber(to) < next
  BY <1>2, <1>3, <1>4, <1>5, <1>6
<1> QED BY <1>7, TwelveMonths DEF y, m, next

\* The thirty days up to a day since 1970.
LEMMA DefaultPeriodIsPeriod ==
  ASSUME NEW n \in Nat, n >= Epoch
  PROVE  /\ IsPeriod(DefaultPeriod(CalendarDate(n)).from,
                     DefaultPeriod(CalendarDate(n)).to)
         /\ DayNumber(DefaultPeriod(CalendarDate(n)).from) = n - 29
         /\ DayNumber(DefaultPeriod(CalendarDate(n)).to) = n
<1> DEFINE k == n - 29
           from == CalendarDate(k)
           to == CalendarDate(n)
<1>1. /\ k \in Nat /\ k >= DayNumber(First) /\ n >= DayNumber(First)
      /\ n + (-(30 - 1)) = k
  BY FirstDates
<1>2. IsDate(from) /\ RealDate(from) /\ DayNumber(from) = k
  <2> HIDE DEF k
  <2> QED BY <1>1, LateDatesAreReal
<1>3. IsDate(to) /\ RealDate(to) /\ DayNumber(to) = n
  BY <1>1, LateDatesAreReal
<1>4. DefaultPeriod(CalendarDate(n)) = [from |-> from, to |-> to]
  <2>1. DayNumber(CalendarDate(n)) + (-(DefaultPeriodDays - 1)) = k
    BY <1>1, <1>3 DEF DefaultPeriodDays
  <2> QED BY <2>1 DEF DefaultPeriod, AddUtcDays
<1> HIDE DEF from, to
<1>5. InclusiveCalendarMonths(from, to) <= MaxInclusiveCalendarMonths
  <2>1. DayNumber(to) <= DayNumber(from) + 29
    BY <1>1, <1>2, <1>3
  <2> QED BY <1>2, <1>3, <2>1, ThirtyDaysFit
<1> QED BY <1>1, <1>2, <1>3, <1>4, <1>5 DEF IsPeriod

-----------------------------------------------------------------------------
(* The months and dates of a period                                        *)

Month == [y: Nat, m: 1..12]

\* Months by their number since January of the year 0.
MonthNumber(x) == 12 * x.y + (x.m - 1)

MonthAt(k) == [y |-> k \div 12, m |-> (k % 12) + 1]

LEMMA MonthNumbers ==
  /\ \A x \in Month : MonthNumber(x) \in Nat /\ MonthAt(MonthNumber(x)) = x
  /\ \A k \in Nat : /\ MonthAt(k) \in Month /\ MonthNumber(MonthAt(k)) = k
                    /\ NextMonth(MonthAt(k)) = MonthAt(k + 1)
  /\ \A a, b \in Month : MonthNotAfter(a, b) <=> MonthNumber(a) <= MonthNumber(b)
<1>1. ASSUME NEW x \in Month
      PROVE  MonthNumber(x) \in Nat /\ MonthAt(MonthNumber(x)) = x
  <2>1. PICK y \in Nat, m \in 1..12 : x = [y |-> y, m |-> m]
    BY DEF Month
  <2>2. x.y = y /\ x.m = m
    BY <2>1
  <2>3. \A c \in Nat, e \in 1..12 :
          /\ 12 * c + (e - 1) \in Nat /\ (12 * c + (e - 1)) \div 12 = c
          /\ (12 * c + (e - 1)) % 12 = e - 1
    BY SMTT(60)
  <2> DEFINE k == 12 * y + (m - 1)
  <2>4. k \in Nat /\ k \div 12 = y /\ k % 12 = m - 1
    BY <2>3
  <2>5. MonthNumber(x) = k
    BY <2>2 DEF MonthNumber
  <2> HIDE DEF k
  <2>6. MonthAt(k) = [y |-> y, m |-> m]
    BY <2>4 DEF MonthAt
  <2> QED BY <2>1, <2>4, <2>5, <2>6
<1>2. ASSUME NEW k \in Nat
      PROVE  /\ MonthAt(k) \in Month /\ MonthNumber(MonthAt(k)) = k
             /\ NextMonth(MonthAt(k)) = MonthAt(k + 1)
  <2> DEFINE y == k \div 12
             r == k % 12
  <2>1. y \in Nat /\ r \in 0..11 /\ k = 12 * y + r
    BY SMTT(60)
  <2>2. /\ r < 11 => (k + 1) \div 12 = y /\ (k + 1) % 12 = r + 1
        /\ r = 11 => (k + 1) \div 12 = y + 1 /\ (k + 1) % 12 = 0
    BY SMTT(60)
  <2> HIDE DEF y, r
  <2>3. MonthAt(k) = [y |-> y, m |-> r + 1]
    BY DEF MonthAt, y, r
  <2>4. MonthAt(k).y = y /\ MonthAt(k).m = r + 1 /\ r + 1 \in 1..12
    BY <2>1, <2>3
  <2>5. MonthAt(k) \in Month
    BY <2>1, <2>3, <2>4 DEF Month
  <2>6. MonthNumber(MonthAt(k)) = k
    <3>1. MonthNumber(MonthAt(k)) = 12 * y + ((r + 1) - 1)
      BY <2>4 DEF MonthNumber
    <3> QED BY <2>1, <3>1
  <2>7. CASE r < 11
    <3>1. MonthAt(k + 1) = [y |-> y, m |-> (r + 1) + 1]
      BY <2>2, <2>7 DEF MonthAt
    <3>2. r + 1 # 12
      BY <2>1, <2>7
    <3>3. NextMonth(MonthAt(k)) = [MonthAt(k) EXCEPT !.m = @ + 1]
      BY <2>4, <3>2 DEF NextMonth
    <3>4. NextMonth(MonthAt(k)) = [y |-> y, m |-> (r + 1) + 1]
      BY <2>3, <3>3
    <3> QED BY <2>5, <2>6, <3>1, <3>4
  <2>8. CASE r = 11
    <3>1. MonthAt(k + 1) = [y |-> y + 1, m |-> 1]
      BY <2>2, <2>8 DEF MonthAt
    <3>2. NextMonth(MonthAt(k)) = [y |-> y + 1, m |-> 1]
      BY <2>4, <2>8 DEF NextMonth
    <3> QED BY <2>5, <2>6, <3>1, <3>2
  <2> QED BY <2>1, <2>7, <2>8
<1>3. ASSUME NEW a \in Month, NEW b \in Month
      PROVE  MonthNotAfter(a, b) <=> MonthNumber(a) <= MonthNumber(b)
  <2>1. a.y \in Nat /\ a.m \in 1..12 /\ b.y \in Nat /\ b.m \in 1..12
    BY DEF Month
  <2> QED BY <2>1, SMTT(60) DEF MonthNotAfter, MonthNumber
<1> QED BY <1>1, <1>2, <1>3

\* The months the cursor of eachUtcMonth stops at, and its thirteen at most.
LEMMA MonthsListed ==
  ASSUME NEW from \in Month, NEW to \in Month
  PROVE  EachUtcMonth(from, to) =
           [i \in {j \in 1..13 : MonthNumber(from) + j - 1 <= MonthNumber(to)} |->
              MonthAt(MonthNumber(from) + i - 1)]
<1> DEFINE k == MonthNumber(from)
           month[i \in 1..(MaxInclusiveCalendarMonths + 1)] ==
             IF i = 1 THEN from ELSE NextMonth(month[i - 1])
           g == [i \in 1..13 |-> MonthAt(k + i - 1)]
<1>1. EachUtcMonth(from, to) =
        [i \in {j \in DOMAIN month : MonthNotAfter(month[j], to)} |-> month[i]]
  BY DEF EachUtcMonth
<1>2. k \in Nat /\ MonthAt(k) = from /\ k + 1 - 1 = k
  BY MonthNumbers
<1>3. g = [i \in 1..13 |-> IF i = 1 THEN from ELSE NextMonth(g[i - 1])]
  <2> SUFFICES ASSUME NEW i \in 1..13
               PROVE  g[i] = IF i = 1 THEN from ELSE NextMonth(g[i - 1])
    OBVIOUS
  <2> HIDE DEF k
  <2>1. CASE i = 1
    BY <1>2, <2>1
  <2>2. CASE i # 1
    <3>1. i - 1 \in 1..13 /\ k + (i - 1) - 1 \in Nat
          /\ k + (i - 1) - 1 + 1 = k + i - 1
      BY <1>2, <2>2
    <3>2. g[i - 1] = MonthAt(k + (i - 1) - 1)
      BY <3>1
    <3>3. NextMonth(g[i - 1]) = MonthAt(k + i - 1)
      BY <3>1, <3>2, MonthNumbers
    <3> QED BY <2>2, <3>3
  <2> QED BY <2>1, <2>2
<1>4. MaxInclusiveCalendarMonths + 1 = 13
  BY DEF MaxInclusiveCalendarMonths
<1>5. month = [i \in 1..13 |-> IF i = 1 THEN from ELSE NextMonth(month[i - 1])]
  <2> HIDE DEF g
  <2> QED BY <1>3, <1>4, ZenonT(60)
<1> HIDE DEF month, g, k
<1>6. DOMAIN month = 1..13
  BY <1>5
<1>7. month[1] = MonthAt(k + 1 - 1)
  BY <1>2, <1>5
<1>8. ASSUME NEW i \in 1..12, month[i] = MonthAt(k + i - 1)
      PROVE  month[i + 1] = MonthAt(k + (i + 1) - 1)
  <2>1. /\ i + 1 \in 1..13 /\ i + 1 # 1 /\ (i + 1) - 1 = i
        /\ k + i - 1 \in Nat /\ (k + i - 1) + 1 = k + (i + 1) - 1
    BY <1>2
  <2>2. month[i + 1] = NextMonth(month[i])
    BY <1>5, <2>1
  <2> QED BY <1>8, <2>1, <2>2, MonthNumbers
<1>9. \A i \in 1..13 : month[i] = MonthAt(k + i - 1)
  <2> DEFINE T == {n \in Nat : n + 1 \in 1..13 => month[n + 1] = MonthAt(k + (n + 1) - 1)}
  <2>1. 0 \in T
    BY <1>7
  <2>2. \A n \in T : n + 1 \in T
    <3> TAKE n \in T
    <3>1. SUFFICES ASSUME (n + 1) + 1 \in 1..13
                   PROVE  month[(n + 1) + 1] = MonthAt(k + ((n + 1) + 1) - 1)
      OBVIOUS
    <3>2. n + 1 \in 1..12 /\ n + 1 \in 1..13
      BY <3>1
    <3> QED BY <1>8, <3>2
  <2> HIDE DEF T
  <2>3. T = Nat
    <3>1. T \in SUBSET Nat
      BY DEF T
    <3> QED BY <2>1, <2>2, <3>1, SetInduction
  <2>4. ASSUME NEW i \in 1..13 PROVE month[i] = MonthAt(k + i - 1)
    <3>1. i - 1 \in Nat /\ (i - 1) + 1 = i
      OBVIOUS
    <3> QED BY <2>3, <3>1 DEF T
  <2> QED BY <2>4
<1>10. \A i \in 1..13 : MonthNotAfter(month[i], to) <=> k + i - 1 <= MonthNumber(to)
  <2> TAKE i \in 1..13
  <2>1. k + i - 1 \in Nat
    BY <1>2
  <2> QED BY <1>9, <2>1, MonthNumbers
<1> QED BY <1>1, <1>6, <1>9, <1>10 DEF k

\* The day after a date, over month ends, leap days and new years.
LEMMA NextDate ==
  ASSUME NEW date, IsDate(date)
  PROVE  IsDate(Tomorrow(date)) /\ DayNumber(Tomorrow(date)) = DayNumber(date) + 1
<1> DEFINE y == date.y
           m == date.m
           e == date.d
<1>1. /\ y \in Nat /\ m \in 1..12 /\ e \in Nat /\ e \in 1..DaysIn(y, m)
      /\ date = [y |-> y, m |-> m, d |-> e]
  BY DEF IsDate
<1>2. MonthStart(y, m) \in Int /\ DaysIn(y, m) \in 28..31
  BY <1>1, MonthTypes
<1>3. DayNumber(date) = MonthStart(y, m) + e - 1
  BY DEF DayNumber
<1> HIDE DEF y, m, e
<1>4. CASE e < DaysIn(y, m)
  <2>1. Tomorrow(date) = [y |-> y, m |-> m, d |-> e + 1]
    <3>1. Tomorrow(date) = [date EXCEPT !.d = e + 1]
      BY <1>4 DEF Tomorrow, y, m, e
    <3> QED BY <1>1, <3>1
  <2>2. e + 1 \in Nat /\ e + 1 \in 1..DaysIn(y, m)
    BY <1>1, <1>2, <1>4
  <2>3. IsDate(Tomorrow(date))
    BY <1>1, <2>1, <2>2 DEF IsDate
  <2>4. DayNumber(Tomorrow(date)) = MonthStart(y, m) + (e + 1) - 1
    BY <2>1 DEF DayNumber
  <2> QED BY <1>1, <1>2, <1>3, <2>3, <2>4
<1>5. CASE e = DaysIn(y, m) /\ m < 12
  <2>1. Tomorrow(date) = [y |-> y, m |-> m + 1, d |-> 1]
    <3>1. ~(e < DaysIn(y, m)) /\ m < 12
      BY <1>1, <1>2, <1>5
    <3>2. Tomorrow(date) = [date EXCEPT !.m = m + 1, !.d = 1]
      BY <3>1 DEF Tomorrow, y, m, e
    <3>3. ASSUME NEW q, NEW r, r = [y |-> y, m |-> m, d |-> e],
                 q = [r EXCEPT !.m = m + 1, !.d = 1]
          PROVE  q = [y |-> y, m |-> m + 1, d |-> 1]
      BY <3>3
    <3> QED BY <1>1, <3>2, <3>3
  <2>2. /\ m + 1 \in 1..12 /\ DaysIn(y, m + 1) \in 28..31 /\ y \in Int
        /\ MonthStart(y, m + 1) \in Int
        /\ MonthStart(y, m + 1) = MonthStart(y, m) + DaysIn(y, m)
    <3>1. m + 1 \in 1..12 /\ y \in Int
      BY <1>1, <1>5
    <3> QED BY <1>1, <1>5, <3>1, MonthTypes, MonthLength
  <2>3. IsDate(Tomorrow(date))
    BY <1>1, <2>1, <2>2 DEF IsDate
  <2>4. DayNumber(Tomorrow(date)) = MonthStart(y, m + 1) + 1 - 1
    BY <2>1 DEF DayNumber
  <2> QED BY <1>1, <1>2, <1>3, <1>5, <2>2, <2>3, <2>4
<1>6. CASE e = DaysIn(y, m) /\ m = 12
  <2>1. Tomorrow(date) = [y |-> y + 1, m |-> 1, d |-> 1]
    BY <1>1, <1>2, <1>6 DEF Tomorrow, y, m, e
  <2>2. /\ 1 \in 1..12 /\ y \in Int /\ y + 1 \in Nat /\ y + 1 \in Int
    BY <1>1
  <2>3. /\ DaysIn(y + 1, 1) \in 28..31 /\ MonthStart(y + 1, 1) \in Int
        /\ MonthStart(y + 1, 1) = YearStart(y + 1)
        /\ MonthStart(y, 12) + DaysIn(y, 12) = YearStart(y + 1)
    BY <2>2, MonthTypes, MonthLength
  <2>4. IsDate(Tomorrow(date))
    BY <2>1, <2>2, <2>3 DEF IsDate
  <2>5. DayNumber(Tomorrow(date)) = MonthStart(y + 1, 1) + 1 - 1
    BY <2>1 DEF DayNumber
  <2> QED BY <1>1, <1>2, <1>3, <1>6, <2>3, <2>4, <2>5
<1> QED BY <1>1, <1>2, <1>4, <1>5, <1>6

\* Consecutive day numbers are consecutive dates.
LEMMA DatesAdvance ==
  ASSUME NEW n \in Nat
  PROVE  CalendarDate(n + 1) = Tomorrow(CalendarDate(n))
<1>1. IsDate(CalendarDate(n)) /\ DayNumber(CalendarDate(n)) = n
  BY CalendarDateIsDate
<1>2. IsDate(Tomorrow(CalendarDate(n))) /\ DayNumber(Tomorrow(CalendarDate(n))) = n + 1
  BY <1>1, NextDate
<1> QED BY <1>2, CalendarDateIsInverse

\* The dates between two dates lie in the months between theirs, and in each of them.
LEMMA MonthsOfDates ==
  ASSUME NEW from, NEW to, IsDate(from), IsDate(to), DayNumber(from) <= DayNumber(to)
  PROVE  /\ MonthOfDate(from) \in Month /\ MonthOfDate(to) \in Month
         /\ \A n \in DayNumber(from)..DayNumber(to) :
              /\ MonthOfDate(CalendarDate(n)) \in Month
              /\ MonthNumber(MonthOfDate(from)) <= MonthNumber(MonthOfDate(CalendarDate(n)))
              /\ MonthNumber(MonthOfDate(CalendarDate(n))) <= MonthNumber(MonthOfDate(to))
         /\ \A x \in Month :
              MonthNumber(MonthOfDate(from)) <= MonthNumber(x)
                /\ MonthNumber(x) <= MonthNumber(MonthOfDate(to))
              => \E n \in DayNumber(from)..DayNumber(to) :
                   MonthOfDate(CalendarDate(n)) = x
<1>1. \A date : IsDate(date) =>
        /\ MonthOfDate(date) \in Month /\ DayNumber(date) \in Nat
        /\ MonthOfDate(date) = [y |-> date.y, m |-> date.m]
        /\ MonthOfDate(date).y = date.y /\ MonthOfDate(date).m = date.m
        /\ date.y \in Nat /\ date.m \in 1..12 /\ date.d \in Nat /\ date.d >= 1
  BY DayNumberIsInMonth DEF IsDate, MonthOfDate, Month
<1>2. \A a, b : IsDate(a) /\ IsDate(b) /\ DayNumber(a) <= DayNumber(b)
                => MonthNumber(MonthOfDate(a)) <= MonthNumber(MonthOfDate(b))
  <2> SUFFICES ASSUME NEW a, NEW b, IsDate(a), IsDate(b), DayNumber(a) <= DayNumber(b)
               PROVE  MonthNumber(MonthOfDate(a)) <= MonthNumber(MonthOfDate(b))
    OBVIOUS
  <2>1. Later(a, b) => DayNumber(b) < DayNumber(a)
    BY LaterIsGreater
  <2>2. ~Later(a, b)
    BY <1>1, <2>1
  <2>3. MonthNotAfter(MonthOfDate(a), MonthOfDate(b))
    BY <1>1, <2>2 DEF MonthNotAfter, Later
  <2> QED BY <1>1, <2>3, MonthNumbers
<1>3. ASSUME NEW n \in DayNumber(from)..DayNumber(to)
      PROVE  IsDate(CalendarDate(n)) /\ DayNumber(CalendarDate(n)) = n
  <2>1. n \in Nat
    BY <1>1
  <2> QED BY <2>1, CalendarDateIsDate
<1>4. ASSUME NEW n \in DayNumber(from)..DayNumber(to)
      PROVE  /\ MonthOfDate(CalendarDate(n)) \in Month
             /\ MonthNumber(MonthOfDate(from)) <= MonthNumber(MonthOfDate(CalendarDate(n)))
             /\ MonthNumber(MonthOfDate(CalendarDate(n))) <= MonthNumber(MonthOfDate(to))
  <2>1. DayNumber(from) <= n /\ n <= DayNumber(to)
    BY <1>1
  <2> QED BY <1>1, <1>2, <1>3, <2>1
<1>5. ASSUME NEW x \in Month,
             MonthNumber(MonthOfDate(from)) <= MonthNumber(x),
             MonthNumber(x) <= MonthNumber(MonthOfDate(to))
      PROVE  \E n \in DayNumber(from)..DayNumber(to) : MonthOfDate(CalendarDate(n)) = x
  <2>1. CASE x = MonthOfDate(from)
    <3>1. CalendarDate(DayNumber(from)) = from
      BY CalendarDateIsInverse
    <3>2. DayNumber(from) \in DayNumber(from)..DayNumber(to)
      BY <1>1
    <3> QED BY <2>1, <3>1, <3>2
  <2>2. CASE x # MonthOfDate(from)
    <3> DEFINE e == [y |-> x.y, m |-> x.m, d |-> 1]
    <3>1. /\ x.y \in Nat /\ x.m \in 1..12 /\ x = [y |-> x.y, m |-> x.m]
          /\ x.y \in Int
      BY DEF Month
    <3>2. IsDate(e)
      <4>1. DaysIn(x.y, x.m) \in 28..31
        BY <3>1, MonthTypes
      <4> QED BY <3>1, <4>1 DEF IsDate
    <3>3. MonthOfDate(e) = x /\ e.d = 1 /\ e.y = x.y /\ e.m = x.m
      BY <3>1 DEF MonthOfDate
    <3> HIDE DEF e
    <3>4. /\ MonthNotAfter(MonthOfDate(from), x)
          /\ MonthNotAfter(x, MonthOfDate(to))
      BY <1>1, <1>5, MonthNumbers
    <3>5. ~(x.y = from.y /\ x.m = from.m)
      BY <1>1, <2>2, <3>1
    <3>6. Later(e, from)
      BY <1>1, <3>1, <3>3, <3>4, <3>5 DEF MonthNotAfter, Later
    <3>7. ~Later(e, to)
      BY <1>1, <3>1, <3>3, <3>4 DEF MonthNotAfter, Later
    <3>8. DayNumber(from) < DayNumber(e) /\ ~(DayNumber(to) < DayNumber(e))
      BY <3>2, <3>6, <3>7, DateOrder
    <3>9. DayNumber(e) \in DayNumber(from)..DayNumber(to)
      BY <1>1, <3>2, <3>8
    <3>10. CalendarDate(DayNumber(e)) = e
      BY <3>2, CalendarDateIsInverse
    <3> QED BY <3>3, <3>9, <3>10
  <2> QED BY <2>1, <2>2
<1> QED BY <1>1, <1>4, <1>5

-----------------------------------------------------------------------------
(* The steps of a report                                                   *)

IsReport ==
  report = [at |-> report.at, user |-> report.user, link |-> report.link,
            from |-> report.from, to |-> report.to, period |-> report.period,
            daily |-> report.daily, monthly |-> report.monthly,
            countries |-> report.countries, totals |-> report.totals]

\* The request and the period resolved for it do not change.
SameRequest ==
  /\ report'.user = report.user /\ report'.link = report.link
  /\ report'.from = report.from /\ report'.to = report.to
  /\ report'.period = report.period

LEMMA ReadDailyStep ==
  ASSUME IsReport, ReadDaily
  PROVE  /\ IsReport' /\ SameRequest /\ report.at = "daily" /\ report'.at = "monthly"
         /\ report'.daily = [d \in {k[2] : k \in DailyRows} |->
                               Sum(daily, {k \in DailyRows : k[2] = d})]
         /\ report'.monthly = report.monthly /\ report'.countries = report.countries
         /\ report'.totals = report.totals
         /\ quiet' = TRUE /\ ledger' = ledger
<1> DEFINE rows == [d \in {k[2] : k \in DailyRows} |->
                      Sum(daily, {k \in DailyRows : k[2] = d})]
<1>1. /\ report.at = "daily" /\ quiet' = TRUE /\ ledger' = ledger
      /\ report' = [report EXCEPT !.at = After("daily"), !.daily = rows]
  BY DEF ReadDaily
<1>2. After("daily") = "monthly"
  BY DEF After
<1> HIDE DEF rows
<1>3. report' = [at |-> "monthly", user |-> report.user, link |-> report.link,
                 from |-> report.from, to |-> report.to, period |-> report.period,
                 daily |-> rows, monthly |-> report.monthly,
                 countries |-> report.countries, totals |-> report.totals]
  BY <1>1, <1>2 DEF IsReport
<1>4. /\ report'.at = "monthly" /\ SameRequest /\ report'.daily = rows
      /\ report'.monthly = report.monthly /\ report'.countries = report.countries
      /\ report'.totals = report.totals
  BY <1>3 DEF SameRequest
<1>5. IsReport'
  BY <1>3, <1>4 DEF IsReport, SameRequest
<1> QED BY <1>1, <1>4, <1>5 DEF rows

\* The months the third statement finds.
MonthlyRows ==
  {x \in Ledger!Months :
     /\ MonthNotAfter(MonthOfDate(report.period.from), x)
     /\ MonthNotAfter(x, MonthOfDate(report.period.to))
     /\ monthly[<<report.link, x>>].accesses > 0}

LEMMA ReadMonthlyStep ==
  ASSUME IsReport, ReadMonthly
  PROVE  /\ IsReport' /\ SameRequest /\ report.at = "monthly" /\ report'.at = "countries"
         /\ report'.monthly = [m \in MonthlyRows |-> monthly[<<report.link, m>>]]
         /\ report'.daily = report.daily /\ report'.countries = report.countries
         /\ report'.totals = report.totals
         /\ quiet' = quiet /\ ledger' = ledger
<1> DEFINE rows == [m \in MonthlyRows |-> monthly[<<report.link, m>>]]
<1>1. /\ report.at = "monthly" /\ quiet' = quiet /\ ledger' = ledger
      /\ report' = [report EXCEPT !.at = After("monthly"), !.monthly = rows]
  BY DEF ReadMonthly, MonthlyRows
<1>2. After("monthly") = "countries"
  BY DEF After
<1> HIDE DEF rows
<1>3. report' = [at |-> "countries", user |-> report.user, link |-> report.link,
                 from |-> report.from, to |-> report.to, period |-> report.period,
                 daily |-> report.daily, monthly |-> rows,
                 countries |-> report.countries, totals |-> report.totals]
  BY <1>1, <1>2 DEF IsReport
<1>4. /\ report'.at = "countries" /\ SameRequest /\ report'.monthly = rows
      /\ report'.daily = report.daily /\ report'.countries = report.countries
      /\ report'.totals = report.totals
  BY <1>3 DEF SameRequest
<1>5. IsReport'
  BY <1>3, <1>4 DEF IsReport, SameRequest
<1> QED BY <1>1, <1>4, <1>5 DEF rows

LEMMA ReadCountriesStep ==
  ASSUME IsReport, ReadCountries
  PROVE  /\ IsReport' /\ SameRequest /\ report.at = "countries" /\ report'.at = "totals"
         /\ report'.countries = [c \in {k[3] : k \in DailyRows} |->
                                      Sum(daily, {k \in DailyRows : k[3] = c})]
         /\ report'.daily = report.daily /\ report'.monthly = report.monthly
         /\ report'.totals = report.totals
         /\ quiet' = quiet /\ ledger' = ledger
<1> DEFINE rows == [c \in {k[3] : k \in DailyRows} |->
                      Sum(daily, {k \in DailyRows : k[3] = c})]
<1>1. /\ report.at = "countries" /\ quiet' = quiet /\ ledger' = ledger
      /\ report' = [report EXCEPT !.at = After("countries"), !.countries = rows]
  BY DEF ReadCountries
<1>2. After("countries") = "totals"
  BY DEF After
<1> HIDE DEF rows
<1>3. report' = [at |-> "totals", user |-> report.user, link |-> report.link,
                 from |-> report.from, to |-> report.to, period |-> report.period,
                 daily |-> report.daily, monthly |-> report.monthly,
                 countries |-> rows, totals |-> report.totals]
  BY <1>1, <1>2 DEF IsReport
<1>4. /\ report'.at = "totals" /\ SameRequest /\ report'.countries = rows
      /\ report'.daily = report.daily /\ report'.monthly = report.monthly
      /\ report'.totals = report.totals
  BY <1>3 DEF SameRequest
<1>5. IsReport'
  BY <1>3, <1>4 DEF IsReport, SameRequest
<1> QED BY <1>1, <1>4, <1>5 DEF rows

LEMMA ReadTotalsStep ==
  ASSUME IsReport, ReadTotals
  PROVE  /\ IsReport' /\ SameRequest /\ report.at = "totals" /\ report'.at = "answered"
         /\ report'.totals = Sum(daily, DailyRows)
         /\ report'.daily = report.daily /\ report'.monthly = report.monthly
         /\ report'.countries = report.countries
         /\ quiet' = quiet /\ ledger' = ledger
<1> DEFINE rows == Sum(daily, DailyRows)
<1>1. /\ report.at = "totals" /\ quiet' = quiet /\ ledger' = ledger
      /\ report' = [report EXCEPT !.at = After("totals"), !.totals = rows]
  BY DEF ReadTotals
<1>2. After("totals") = "answered"
  BY DEF After
<1> HIDE DEF rows
<1>3. report' = [at |-> "answered", user |-> report.user, link |-> report.link,
                 from |-> report.from, to |-> report.to, period |-> report.period,
                 daily |-> report.daily, monthly |-> report.monthly,
                 countries |-> report.countries, totals |-> rows]
  BY <1>1, <1>2 DEF IsReport
<1>4. /\ report'.at = "answered" /\ SameRequest /\ report'.totals = rows
      /\ report'.daily = report.daily /\ report'.monthly = report.monthly
      /\ report'.countries = report.countries
  BY <1>3 DEF SameRequest
<1>5. IsReport'
  BY <1>3, <1>4 DEF IsReport, SameRequest
<1> QED BY <1>1, <1>4, <1>5 DEF rows

LEMMA NoReportStep ==
  ASSUME report' = NoReport
  PROVE  /\ IsReport' /\ report'.at = "idle" /\ report'.link = None
         /\ report'.daily = <<>> /\ report'.monthly = <<>> /\ report'.countries = <<>>
         /\ report'.totals = NoFigures
<1>1. /\ report'.at = "idle" /\ report'.user = None /\ report'.link = None
      /\ report'.from = None /\ report'.to = None /\ report'.period = None
      /\ report'.daily = <<>> /\ report'.monthly = <<>> /\ report'.countries = <<>>
      /\ report'.totals = NoFigures
  BY DEF NoReport
<1>2. IsReport'
  BY <1>1 DEF IsReport, NoReport
<1> QED BY <1>1, <1>2

LEMMA FindLinkStep ==
  ASSUME IsReport, FindLink
  PROVE  /\ report.at = "link" /\ quiet' = quiet /\ ledger' = ledger
         /\ \/ report' = NoReport
            \/ /\ IsReport' /\ SameRequest /\ report'.at = "daily"
               /\ report.link # None
               /\ report'.daily = report.daily /\ report'.monthly = report.monthly
               /\ report'.countries = report.countries
               /\ report'.totals = report.totals
<1>1. /\ report.at = "link" /\ quiet' = quiet /\ ledger' = ledger
      /\ \/ report' = NoReport
         \/ report.link # None /\ report' = [report EXCEPT !.at = "daily"]
  BY DEF FindLink
<1>2. SUFFICES ASSUME report.link # None, report' = [report EXCEPT !.at = "daily"]
      PROVE  /\ IsReport' /\ SameRequest /\ report'.at = "daily"
             /\ report'.daily = report.daily /\ report'.monthly = report.monthly
             /\ report'.countries = report.countries
             /\ report'.totals = report.totals
  BY <1>1
<1>3. report' = [at |-> "daily", user |-> report.user, link |-> report.link,
                 from |-> report.from, to |-> report.to, period |-> report.period,
                 daily |-> report.daily, monthly |-> report.monthly,
                 countries |-> report.countries, totals |-> report.totals]
  BY <1>2 DEF IsReport
<1>4. /\ report'.at = "daily" /\ SameRequest
      /\ report'.daily = report.daily /\ report'.monthly = report.monthly
      /\ report'.countries = report.countries /\ report'.totals = report.totals
  BY <1>3 DEF SameRequest
<1>5. IsReport'
  BY <1>3, <1>4 DEF IsReport, SameRequest
<1> QED BY <1>4, <1>5

LEMMA ResolvePeriodStep ==
  ASSUME NEW u \in Users, NEW l \in Links \cup {None},
         NEW from \in QueryDates \cup {None}, NEW to \in QueryDates \cup {None},
         ResolvePeriod(u, l, from, to)
  PROVE  /\ IsReport' /\ quiet' = quiet /\ ledger' = ledger
         /\ report'.link = l /\ report'.from = from /\ report'.to = to
         /\ report'.daily = <<>> /\ report'.monthly = <<>> /\ report'.countries = <<>>
         /\ report'.totals = NoFigures
         /\ \/ /\ from = None /\ to = None /\ report'.at = "link"
               /\ report'.period = DefaultPeriod(CalendarDate(today))
            \/ /\ from # None /\ to # None /\ PeriodAccepted(from, to)
               /\ report'.at = "link"
               /\ report'.period = [from |-> from, to |-> to]
            \/ /\ ~(from = None /\ to = None)
               /\ ~(from # None /\ to # None /\ PeriodAccepted(from, to))
               /\ report'.at = "refused"
<1> DEFINE Asked(at, p) ==
             [at |-> at, user |-> u, link |-> l, from |-> from, to |-> to,
              period |-> p, daily |-> <<>>, monthly |-> <<>>, countries |-> <<>>,
              totals |-> NoFigures]
<1>1. quiet' = quiet /\ ledger' = ledger
  BY DEF ResolvePeriod
<1>2. ASSUME NEW at, NEW p, report' = Asked(at, p)
      PROVE  /\ IsReport' /\ report'.at = at /\ report'.period = p
             /\ report'.link = l /\ report'.from = from /\ report'.to = to
             /\ report'.daily = <<>> /\ report'.monthly = <<>>
             /\ report'.countries = <<>> /\ report'.totals = NoFigures
  <2>1. /\ report'.at = at /\ report'.period = p /\ report'.user = u
        /\ report'.link = l /\ report'.from = from /\ report'.to = to
        /\ report'.daily = <<>> /\ report'.monthly = <<>>
        /\ report'.countries = <<>> /\ report'.totals = NoFigures
    BY <1>2
  <2> QED BY <1>2, <2>1 DEF IsReport
<1> DEFINE asked == [NoReport EXCEPT !.user = u, !.link = l, !.from = from, !.to = to]
<1>3. asked = Asked("idle", None)
  <2>1. ASSUME NEW q, NEW r, r = NoReport,
               q = [r EXCEPT !.user = u, !.link = l, !.from = from, !.to = to]
        PROVE  q = Asked("idle", None)
    BY <2>1 DEF NoReport
  <2>2. PICK r : r = NoReport
    OBVIOUS
  <2>3. asked = [r EXCEPT !.user = u, !.link = l, !.from = from, !.to = to]
    BY <2>2
  <2> HIDE DEF asked, Asked
  <2> QED BY <2>1, <2>2, <2>3
<1> HIDE DEF asked
<1>4. CASE from = None /\ to = None
  <2>1. report' = [asked EXCEPT !.at = "link", !.period = DefaultPeriod(CalendarDate(today))]
    BY <1>4, Zenon DEF ResolvePeriod, asked
  <2>2. report' = Asked("link", DefaultPeriod(CalendarDate(today)))
    BY <1>3, <2>1
  <2> HIDE DEF Asked
  <2> QED BY <1>1, <1>2, <1>4, <2>2
<1>5. CASE from # None /\ to # None /\ PeriodAccepted(from, to)
  <2>1. report' = [asked EXCEPT !.at = "link", !.period = [from |-> from, to |-> to]]
    BY <1>5, Zenon DEF ResolvePeriod, asked
  <2>2. report' = Asked("link", [from |-> from, to |-> to])
    BY <1>3, <2>1
  <2> HIDE DEF Asked
  <2> QED BY <1>1, <1>2, <1>5, <2>2
<1>6. CASE /\ ~(from = None /\ to = None)
           /\ ~(from # None /\ to # None /\ PeriodAccepted(from, to))
  <2>1. report' = [asked EXCEPT !.at = "refused"]
    BY <1>6, Zenon DEF ResolvePeriod, asked
  <2>2. report' = Asked("refused", None)
    BY <1>3, <2>1
  <2> HIDE DEF Asked
  <2> QED BY <1>1, <1>2, <1>6, <2>2
<1> QED BY <1>4, <1>5, <1>6

-----------------------------------------------------------------------------
(* Which queries are answered                                              *)

\* The checks of resolvePeriod accept what AllowedQuery allows.
LEMMA AcceptedIsAllowed ==
  ASSUME NEW from \in QueryDates, NEW to \in QueryDates
  PROVE  /\ PeriodAccepted(from, to)
              <=> /\ RealDate(from) /\ RealDate(to)
                  /\ DayNumber(from) <= DayNumber(to)
                  /\ DayNumber(to) < MonthStart(from.y + 1, from.m)
         /\ PeriodAccepted(from, to) => IsPeriod(from, to)
<1>1. from \in QueryDate /\ to \in QueryDate
  BY ReportAssumption DEF QueryDate
<1>2. /\ IsValidUtcCalendarDate(from) <=> RealDate(from)
      /\ IsValidUtcCalendarDate(to) <=> RealDate(to)
  BY <1>1, ValidityIsExact
<1>3. CASE ~(RealDate(from) /\ RealDate(to))
  BY <1>2, <1>3 DEF PeriodAccepted
<1>4. CASE RealDate(from) /\ RealDate(to)
  <2>1. IsDate(from) /\ IsDate(to)
    BY <1>1, <1>4, RealQueryIsDate
  <2>2. DayNumber(from) \in Nat /\ DayNumber(to) \in Nat
    BY <2>1, DayNumberIsInMonth
  <2>3. Later(from, to) <=> DayNumber(to) < DayNumber(from)
    BY <2>1, DateOrder
  <2>4. ~Later(from, to) <=> DayNumber(from) <= DayNumber(to)
    BY <2>2, <2>3
  <2>5. InclusiveCalendarMonths(from, to) <= MaxInclusiveCalendarMonths
          <=> DayNumber(to) < MonthStart(from.y + 1, from.m)
    BY <2>1, TwelveMonths
  <2>6. PeriodAccepted(from, to)
          <=> /\ ~Later(from, to)
              /\ InclusiveCalendarMonths(from, to) <= MaxInclusiveCalendarMonths
    BY <1>2, <1>4 DEF PeriodAccepted
  <2> QED BY <1>4, <2>1, <2>4, <2>5, <2>6 DEF IsPeriod
<1> QED BY <1>3, <1>4

PeriodFits ==
  report.at \notin {"idle", "refused"} =>
    /\ IsPeriod(report.period.from, report.period.to)
    /\ report.from = None =>
         DayNumber(report.period.to) = DayNumber(report.period.from) + 29

RequestFits == IsReport /\ PeriodFits /\ ValidationIsExact

\* Whatever is not the first step of a request leaves the answer to its query alone.
LEMMA QueryIsKept ==
  ASSUME RequestFits, SameRequest, IsReport',
         report.at \notin {"idle", "refused"},
         report'.at \notin {"idle", "refused"}
  PROVE  RequestFits'
<1>1. AllowedQuery' <=> AllowedQuery
  BY DEF AllowedQuery, SameRequest
<1>2. AllowedQuery
  BY DEF RequestFits, ValidationIsExact
<1>3. ValidationIsExact'
  BY <1>1, <1>2 DEF ValidationIsExact
<1>4. PeriodFits'
  BY DEF RequestFits, PeriodFits, SameRequest
<1> QED BY <1>3, <1>4 DEF RequestFits

LEMMA NoRequest ==
  ASSUME report' = NoReport
  PROVE  RequestFits'
BY NoReportStep DEF RequestFits, PeriodFits, ValidationIsExact

LEMMA ResolvedQuery ==
  ASSUME today \in Days,
         NEW u \in Users, NEW l \in Links \cup {None},
         NEW from \in QueryDates \cup {None}, NEW to \in QueryDates \cup {None},
         ResolvePeriod(u, l, from, to)
  PROVE  RequestFits'
<1>1. IsReport' /\ report'.from = from /\ report'.to = to
  BY ResolvePeriodStep, Zenon
<1>2. AllowedQuery'
        <=> \/ from = None /\ to = None
            \/ /\ from # None /\ to # None /\ RealDate(from) /\ RealDate(to)
               /\ DayNumber(from) <= DayNumber(to)
               /\ DayNumber(to) < MonthStart(from.y + 1, from.m)
  BY <1>1 DEF AllowedQuery
<1>3. CASE /\ from = None /\ to = None /\ report'.at = "link"
           /\ report'.period = DefaultPeriod(CalendarDate(today))
  <2>1. /\ IsPeriod(report'.period.from, report'.period.to)
        /\ DayNumber(report'.period.to) = DayNumber(report'.period.from) + 29
    <3>1. today \in Nat /\ today >= Epoch
      BY ReportAssumption
    <3>2. /\ IsPeriod(report'.period.from, report'.period.to)
          /\ DayNumber(report'.period.from) = today - 29
          /\ DayNumber(report'.period.to) = today
      BY <1>3, <3>1, DefaultPeriodIsPeriod
    <3> QED BY <3>1, <3>2
  <2>2. AllowedQuery'
    BY <1>2, <1>3
  <2> QED BY <1>1, <1>3, <2>1, <2>2 DEF RequestFits, PeriodFits, ValidationIsExact
<1>4. CASE /\ from # None /\ to # None /\ PeriodAccepted(from, to)
           /\ report'.at = "link" /\ report'.period = [from |-> from, to |-> to]
  <2>1. from \in QueryDates /\ to \in QueryDates
    BY <1>4
  <2>2. /\ RealDate(from) /\ RealDate(to)
        /\ DayNumber(from) <= DayNumber(to)
        /\ DayNumber(to) < MonthStart(from.y + 1, from.m)
        /\ IsPeriod(from, to)
    BY <1>4, <2>1, AcceptedIsAllowed
  <2>3. AllowedQuery'
    BY <1>2, <1>4, <2>2, Zenon
  <2>4. report'.period.from = from /\ report'.period.to = to
    BY <1>4
  <2> QED BY <1>1, <1>4, <2>2, <2>3, <2>4 DEF RequestFits, PeriodFits, ValidationIsExact
<1>5. CASE /\ ~(from = None /\ to = None)
           /\ ~(from # None /\ to # None /\ PeriodAccepted(from, to))
           /\ report'.at = "refused"
  <2>1. ~AllowedQuery'
    <3>1. CASE from = None \/ to = None
      BY <1>2, <1>5, <3>1, Zenon
    <3>2. CASE from # None /\ to # None
      <4>1. from \in QueryDates /\ to \in QueryDates
        BY <3>2
      <4>2. ~(/\ RealDate(from) /\ RealDate(to)
              /\ DayNumber(from) <= DayNumber(to)
              /\ DayNumber(to) < MonthStart(from.y + 1, from.m))
        BY <1>5, <3>2, <4>1, AcceptedIsAllowed
      <4> QED BY <1>2, <3>2, <4>2, Zenon
    <3> QED BY <3>1, <3>2
  <2> QED BY <1>1, <1>5, <2>1 DEF RequestFits, PeriodFits, ValidationIsExact
<1> QED BY <1>3, <1>4, <1>5, ResolvePeriodStep

-----------------------------------------------------------------------------
(* Sums of figures                                                         *)

AccessesOf(f, K) == [k \in K |-> f[k].accesses]
UniquesOf(f, K) == [k \in K |-> f[k].uniques]

IsTable(f, K) == IsFiniteSet(K) /\ \A k \in K : f[k] \in Figures

LEMMA FiguresAreNumbers ==
  ASSUME NEW x \in Figures
  PROVE  /\ x.accesses \in Nat /\ x.uniques \in Nat
         /\ x = [accesses |-> x.accesses, uniques |-> x.uniques]
BY DEF Figures

LEMMA SumIsTotals ==
  ASSUME NEW f, NEW K
  PROVE  /\ Sum(f, K).accesses = Total(AccessesOf(f, K), K)
         /\ Sum(f, K).uniques = Total(UniquesOf(f, K), K)
         /\ Sum(f, K) = [accesses |-> Total(AccessesOf(f, K), K),
                         uniques |-> Total(UniquesOf(f, K), K)]
BY DEF Sum, SumOf, Total, AccessesOf, UniquesOf

LEMMA ColumnsAreNumbers ==
  ASSUME NEW f, NEW K, IsTable(f, K)
  PROVE  \A k \in K : /\ AccessesOf(f, K)[k] = f[k].accesses /\ f[k].accesses \in Nat
                      /\ UniquesOf(f, K)[k] = f[k].uniques /\ f[k].uniques \in Nat
BY FiguresAreNumbers DEF IsTable, AccessesOf, UniquesOf

LEMMA SumType ==
  ASSUME NEW f, NEW K, IsTable(f, K)
  PROVE  Sum(f, K) \in Figures
<1>1. \A k \in K : AccessesOf(f, K)[k] \in Nat /\ UniquesOf(f, K)[k] \in Nat
  BY ColumnsAreNumbers
<1>2. IsFiniteSet(K)
  BY DEF IsTable
<1>3. Total(AccessesOf(f, K), K) \in Nat /\ Total(UniquesOf(f, K), K) \in Nat
  BY <1>1, <1>2, TotalType
<1> QED BY <1>3, SumIsTotals DEF Figures

LEMMA SumOfNone == ASSUME NEW f PROVE Sum(f, {}) = NoFigures
BY SumIsTotals, TotalOfEmpty DEF NoFigures

LEMMA SumMonotone ==
  ASSUME NEW f, NEW g, NEW K, NEW R \in SUBSET K, IsTable(f, R), IsTable(g, K),
         \A k \in R : AtMost(f[k], g[k])
  PROVE  AtMost(Sum(f, R), Sum(g, K))
<1>1. IsFiniteSet(K)
  BY DEF IsTable
<1>2. \A k \in R : /\ AccessesOf(f, R)[k] = f[k].accesses /\ f[k].accesses \in Nat
                   /\ UniquesOf(f, R)[k] = f[k].uniques /\ f[k].uniques \in Nat
  BY ColumnsAreNumbers
<1>3. \A k \in K : /\ AccessesOf(g, K)[k] = g[k].accesses /\ g[k].accesses \in Nat
                   /\ UniquesOf(g, K)[k] = g[k].uniques /\ g[k].uniques \in Nat
  BY ColumnsAreNumbers
<1>4. \A k \in R : f[k].accesses <= g[k].accesses /\ f[k].uniques <= g[k].uniques
  BY DEF AtMost
<1>5. /\ \A k \in R : /\ AccessesOf(f, R)[k] \in Nat
                      /\ AccessesOf(f, R)[k] <= AccessesOf(g, K)[k]
      /\ \A k \in R : /\ UniquesOf(f, R)[k] \in Nat
                      /\ UniquesOf(f, R)[k] <= UniquesOf(g, K)[k]
      /\ \A k \in K : AccessesOf(g, K)[k] \in Nat
      /\ \A k \in K : UniquesOf(g, K)[k] \in Nat
  BY <1>2, <1>3, <1>4
<1>6. Total(AccessesOf(f, R), R) <= Total(AccessesOf(g, K), K)
  BY <1>1, <1>5, TotalMonotone
<1>7. Total(UniquesOf(f, R), R) <= Total(UniquesOf(g, K), K)
  BY <1>1, <1>5, TotalMonotone
<1> QED BY <1>6, <1>7, SumIsTotals DEF AtMost

\* Rows without figures can be left out.
LEMMA SumWithZeros ==
  ASSUME NEW f, NEW g, NEW K, NEW R \in SUBSET K, IsTable(g, K),
         \A k \in R : f[k] = g[k],
         \A k \in K \ R : g[k] = NoFigures
  PROVE  Sum(g, K) = Sum(f, R)
<1>1. IsFiniteSet(K)
  BY DEF IsTable
<1>2. \A k \in K : /\ AccessesOf(g, K)[k] = g[k].accesses /\ g[k].accesses \in Nat
                   /\ UniquesOf(g, K)[k] = g[k].uniques /\ g[k].uniques \in Nat
  BY ColumnsAreNumbers
<1>3. \A k \in R : /\ AccessesOf(f, R)[k] = g[k].accesses
                   /\ UniquesOf(f, R)[k] = g[k].uniques
  BY DEF AccessesOf, UniquesOf
<1>4. \A k \in K \ R : g[k].accesses = 0 /\ g[k].uniques = 0
  BY DEF NoFigures
<1>5. /\ \A k \in R : /\ AccessesOf(f, R)[k] \in Nat
                      /\ AccessesOf(g, K)[k] = AccessesOf(f, R)[k]
      /\ \A k \in R : /\ UniquesOf(f, R)[k] \in Nat
                      /\ UniquesOf(g, K)[k] = UniquesOf(f, R)[k]
      /\ \A k \in K \ R : AccessesOf(g, K)[k] = 0
      /\ \A k \in K \ R : UniquesOf(g, K)[k] = 0
  BY <1>2, <1>3, <1>4
<1>6. Total(AccessesOf(g, K), K) = Total(AccessesOf(f, R), R)
  BY <1>1, <1>5, TotalWithZeros
<1>7. Total(UniquesOf(g, K), K) = Total(UniquesOf(f, R), R)
  BY <1>1, <1>5, TotalWithZeros
<1> QED BY <1>6, <1>7, SumIsTotals

LEMMA SumAgrees ==
  ASSUME NEW f, NEW g, NEW K, IsTable(g, K), \A k \in K : f[k] = g[k]
  PROVE  Sum(f, K) = Sum(g, K)
BY SumWithZeros

Keyed(key, K, d) == {k \in K : key[k] = d}

\* The figures of groups add up to the figures of all.
LEMMA SumByGroups ==
  ASSUME NEW f, NEW K, IsTable(f, K), NEW D, IsFiniteSet(D),
         NEW key, \A k \in K : key[k] \in D,
         NEW h, \A d \in D : h[d] = Sum(f, Keyed(key, K, d))
  PROVE  Sum(h, D) = Sum(f, K)
<1> DEFINE Group(d) == {k \in K : key[k] = d}
<1>1. IsFiniteSet(K)
  BY DEF IsTable
<1>2. \A k \in K : /\ AccessesOf(f, K)[k] = f[k].accesses /\ f[k].accesses \in Nat
                   /\ UniquesOf(f, K)[k] = f[k].uniques /\ f[k].uniques \in Nat
  BY ColumnsAreNumbers
<1>3. ASSUME NEW d \in D
      PROVE  /\ AccessesOf(h, D)[d] = Total(AccessesOf(f, K), Group(d))
             /\ UniquesOf(h, D)[d] = Total(UniquesOf(f, K), Group(d))
  <2>1. Group(d) \in SUBSET K
    OBVIOUS
  <2>2. h[d] = Sum(f, Group(d))
    BY DEF Keyed
  <2> HIDE DEF Group
  <2>3. IsFiniteSet(Group(d))
    BY <1>1, <2>1, FS_Subset
  <2>4. \A k \in Group(d) :
          /\ AccessesOf(f, Group(d))[k] = f[k].accesses
          /\ UniquesOf(f, Group(d))[k] = f[k].uniques
    BY DEF AccessesOf, UniquesOf
  <2>5. /\ \A k \in Group(d) : /\ AccessesOf(f, K)[k] \in Nat
                               /\ AccessesOf(f, Group(d))[k] = AccessesOf(f, K)[k]
        /\ \A k \in Group(d) : /\ UniquesOf(f, K)[k] \in Nat
                               /\ UniquesOf(f, Group(d))[k] = UniquesOf(f, K)[k]
    BY <1>2, <2>1, <2>4
  <2>6. Total(AccessesOf(f, Group(d)), Group(d)) = Total(AccessesOf(f, K), Group(d))
    <3>1. Group(d) \in SUBSET Group(d) /\ Group(d) \ Group(d) = {}
      OBVIOUS
    <3> QED BY <2>3, <2>5, <3>1, TotalWithZeros
  <2>7. Total(UniquesOf(f, Group(d)), Group(d)) = Total(UniquesOf(f, K), Group(d))
    <3>1. Group(d) \in SUBSET Group(d) /\ Group(d) \ Group(d) = {}
      OBVIOUS
    <3> QED BY <2>3, <2>5, <3>1, TotalWithZeros
  <2>8. /\ h[d].accesses = Total(AccessesOf(f, K), Group(d))
        /\ h[d].uniques = Total(UniquesOf(f, K), Group(d))
    BY <2>2, <2>6, <2>7, SumIsTotals
  <2> QED BY <2>8 DEF AccessesOf, UniquesOf
<1>4. Total(AccessesOf(h, D), D) = Total(AccessesOf(f, K), K)
  <2>1. \A d \in D : AccessesOf(h, D)[d] = Total(AccessesOf(f, K), {k \in K : key[k] = d})
    BY <1>3
  <2>2. \A k \in K : AccessesOf(f, K)[k] \in Nat
    BY <1>2
  <2> HIDE DEF Group
  <2> QED BY <1>1, <2>1, <2>2, TotalByGroups
<1>5. Total(UniquesOf(h, D), D) = Total(UniquesOf(f, K), K)
  <2>1. \A d \in D : UniquesOf(h, D)[d] = Total(UniquesOf(f, K), {k \in K : key[k] = d})
    BY <1>3
  <2>2. \A k \in K : UniquesOf(f, K)[k] \in Nat
    BY <1>2
  <2> HIDE DEF Group
  <2> QED BY <1>1, <2>1, <2>2, TotalByGroups
<1> QED BY <1>4, <1>5, SumIsTotals

\* One more access in one row is one more in the sum of every set with the row.
LEMMA SumOfOneMore ==
  ASSUME NEW f, NEW g, NEW K, IsTable(f, K), NEW row \in K, NEW new \in BOOLEAN,
         g[row] = Ledger!Plus(f[row], new),
         \A k \in K \ {row} : g[k] = f[k]
  PROVE  Sum(g, K) = Ledger!Plus(Sum(f, K), new)
<1> DEFINE R == K \ {row}
           n == IF new THEN 1 ELSE 0
<1>1. IsFiniteSet(K) /\ IsFiniteSet(R) /\ R \in SUBSET K /\ R \in SUBSET R /\ R \ R = {}
  <2>1. IsFiniteSet(K) /\ R \in SUBSET K
    BY DEF IsTable
  <2> QED BY <2>1, FS_Subset
<1>2. \A k \in K : /\ AccessesOf(f, K)[k] = f[k].accesses /\ f[k].accesses \in Nat
                   /\ UniquesOf(f, K)[k] = f[k].uniques /\ f[k].uniques \in Nat
  BY ColumnsAreNumbers
<1>3. /\ g[row].accesses = f[row].accesses + 1 /\ g[row].uniques = f[row].uniques + n
      /\ f[row].accesses \in Nat /\ f[row].uniques \in Nat /\ n \in Nat
  BY <1>2 DEF Ledger!Plus
<1>4. \A k \in K : /\ AccessesOf(g, K)[k] = g[k].accesses
                   /\ UniquesOf(g, K)[k] = g[k].uniques
  BY DEF AccessesOf, UniquesOf
<1> HIDE DEF n
<1>5. /\ \A k \in R : /\ AccessesOf(f, K)[k] \in Nat
                      /\ AccessesOf(g, K)[k] = AccessesOf(f, K)[k]
      /\ \A k \in R : /\ UniquesOf(f, K)[k] \in Nat
                      /\ UniquesOf(g, K)[k] = UniquesOf(f, K)[k]
      /\ \A k \in K : AccessesOf(f, K)[k] \in Nat
      /\ \A k \in K : UniquesOf(f, K)[k] \in Nat
      /\ \A k \in K : AccessesOf(g, K)[k] \in Nat
      /\ \A k \in K : UniquesOf(g, K)[k] \in Nat
      /\ AccessesOf(g, K)[row] = AccessesOf(f, K)[row] + 1
      /\ UniquesOf(g, K)[row] = UniquesOf(f, K)[row] + n
  <2>1. \A k \in K : k = row \/ k \in R
    OBVIOUS
  <2>2. \A k \in R : g[k] = f[k] /\ k \in K
    OBVIOUS
  <2> HIDE DEF R
  <2> QED BY <1>2, <1>3, <1>4, <2>1, <2>2
<1>6. /\ Total(AccessesOf(f, K), K) = AccessesOf(f, K)[row] + Total(AccessesOf(f, K), R)
      /\ Total(AccessesOf(g, K), K) = AccessesOf(g, K)[row] + Total(AccessesOf(g, K), R)
      /\ Total(UniquesOf(f, K), K) = UniquesOf(f, K)[row] + Total(UniquesOf(f, K), R)
      /\ Total(UniquesOf(g, K), K) = UniquesOf(g, K)[row] + Total(UniquesOf(g, K), R)
  BY <1>1, <1>5, TotalWithout
<1>7. /\ Total(AccessesOf(g, K), R) = Total(AccessesOf(f, K), R)
      /\ Total(UniquesOf(g, K), R) = Total(UniquesOf(f, K), R)
  <2> HIDE DEF R
  <2> QED BY <1>1, <1>5, TotalWithZeros
<1>8. /\ Total(AccessesOf(f, K), R) \in Nat /\ Total(UniquesOf(f, K), R) \in Nat
      /\ AccessesOf(f, K)[row] \in Nat /\ UniquesOf(f, K)[row] \in Nat
  <2>1. /\ \A k \in R : AccessesOf(f, K)[k] \in Nat
        /\ \A k \in R : UniquesOf(f, K)[k] \in Nat
    BY <1>5
  <2> HIDE DEF R
  <2> QED BY <1>1, <1>5, <2>1, TotalType
<1> HIDE DEF R
<1>9. /\ Total(AccessesOf(g, K), K) = Total(AccessesOf(f, K), K) + 1
      /\ Total(UniquesOf(g, K), K) = Total(UniquesOf(f, K), K) + n
  BY <1>3, <1>5, <1>6, <1>7, <1>8
<1> QED BY <1>9, SumIsTotals DEF Ledger!Plus, n

-----------------------------------------------------------------------------
(* The rows of the tables                                                  *)

Payload == [link: Links, day: Days, country: Countries, visitor: Visitors]

Rows(l) == {l} \X Days \X Countries

MonthRows(l, m) == {k \in Rows(l) : MonthOf[k[2]] = m}

PeriodRows == {report.link} \X DaysWithin \X Countries

DayRows(d) == {k \in PeriodRows : k[2] = d}

LEMMA RowsAreFinite ==
  ASSUME NEW l, NEW K \in SUBSET Rows(l)
  PROVE  IsFiniteSet(K)
<1> DEFINE f == [z \in Days \X Countries |-> <<l, z[1], z[2]>>]
<1>1. IsFiniteSet(Days \X Countries)
  BY DaysAndCountries, FS_Product
<1>2. f \in [Days \X Countries -> Rows(l)]
  BY DEF Rows
<1>3. ASSUME NEW k \in Rows(l) PROVE \E z \in Days \X Countries : f[z] = k
  <2>1. /\ k[1] = l /\ k[2] \in Days /\ k[3] \in Countries /\ k = <<k[1], k[2], k[3]>>
        /\ <<k[2], k[3]>> \in Days \X Countries
    BY DEF Rows
  <2>2. f[<<k[2], k[3]>>] = <<l, k[2], k[3]>>
    BY <2>1
  <2> HIDE DEF f
  <2> QED BY <2>1, <2>2
<1>4. f \in Surjection(Days \X Countries, Rows(l))
  <2> HIDE DEF f
  <2> QED BY <1>2, <1>3, Fun_IsSurj
<1> HIDE DEF f
<1>5. IsFiniteSet(Rows(l))
  BY <1>1, <1>4, FS_Surjection
<1> QED BY <1>5, FS_Subset

\* GROUP BY "occurredOn" and GROUP BY "country".
LEMMA DaysAddUp ==
  ASSUME NEW f, NEW K, IsTable(f, K), NEW D, IsFiniteSet(D), \A k \in K : k[2] \in D,
         NEW h, \A d \in D : h[d] = Sum(f, {k \in K : k[2] = d})
  PROVE  Sum(h, D) = Sum(f, K)
<1> DEFINE key == [k \in K |-> k[2]]
<1>1. \A d \in D : {k \in K : k[2] = d} = Keyed(key, K, d)
  BY DEF Keyed
<1>2. \A k \in K : key[k] \in D
  OBVIOUS
<1>3. \A d \in D : h[d] = Sum(f, Keyed(key, K, d))
  BY <1>1
<1> HIDE DEF key
<1> QED BY <1>2, <1>3, SumByGroups

LEMMA CountriesAddUp ==
  ASSUME NEW f, NEW K, IsTable(f, K), NEW D, IsFiniteSet(D), \A k \in K : k[3] \in D,
         NEW h, \A c \in D : h[c] = Sum(f, {k \in K : k[3] = c})
  PROVE  Sum(h, D) = Sum(f, K)
<1> DEFINE key == [k \in K |-> k[3]]
<1>1. \A d \in D : {k \in K : k[3] = d} = Keyed(key, K, d)
  BY DEF Keyed
<1>2. \A k \in K : key[k] \in D
  OBVIOUS
<1>3. \A d \in D : h[d] = Sum(f, Keyed(key, K, d))
  BY <1>1
<1> HIDE DEF key
<1> QED BY <1>2, <1>3, SumByGroups

\* No row has more visitors than accesses, and so no sum has.
FewerVisitors(x) == x.uniques <= x.accesses

LEMMA SumHasFewerVisitors ==
  ASSUME NEW f, NEW K, IsTable(f, K), \A k \in K : FewerVisitors(f[k])
  PROVE  FewerVisitors(Sum(f, K))
<1>1. IsFiniteSet(K)
  BY DEF IsTable
<1>2. \A k \in K : /\ AccessesOf(f, K)[k] = f[k].accesses /\ f[k].accesses \in Nat
                   /\ UniquesOf(f, K)[k] = f[k].uniques /\ f[k].uniques \in Nat
  BY ColumnsAreNumbers
<1>3. /\ \A k \in K : /\ UniquesOf(f, K)[k] \in Nat
                      /\ UniquesOf(f, K)[k] <= AccessesOf(f, K)[k]
      /\ \A k \in K : AccessesOf(f, K)[k] \in Nat
  BY <1>2 DEF FewerVisitors
<1>4. K \in SUBSET K
  OBVIOUS
<1>5. Total(UniquesOf(f, K), K) <= Total(AccessesOf(f, K), K)
  BY <1>1, <1>3, <1>4, TotalMonotone
<1> QED BY <1>5, SumIsTotals DEF FewerVisitors

-----------------------------------------------------------------------------
(* The ledger                                                              *)

LedgerType ==
  /\ today \in Days
  /\ access \in [Accesses -> Payload \cup {None}]
  /\ daily \in [Links \X Days \X Countries -> Figures]
  /\ monthly \in [Links \X Ledger!Months -> Figures]

\* A month is the sum of its days.
LedgerFits ==
  /\ LedgerType
  /\ \A k \in Links \X Days \X Countries : FewerVisitors(daily[k])
  /\ \A l \in Links, m \in Ledger!Months :
       monthly[<<l, m>>] = Sum(daily, MonthRows(l, m))

\* Access e is added to the tables.
Recorded(e, new) ==
  LET p == access[e]
  IN  /\ p \in Payload /\ e \notin counted /\ counted' = counted \cup {e}
      /\ access' = access
      /\ daily' = [daily EXCEPT ![<<p.link, p.day, p.country>>] =
                                  Ledger!Plus(daily[<<p.link, p.day, p.country>>], new)]
      /\ monthly' = [monthly EXCEPT ![<<p.link, MonthOf[p.day]>>] =
                                      Ledger!Plus(monthly[<<p.link, MonthOf[p.day]>>], new)]

LEMMA LedgerMoves ==
  ASSUME LedgerType, Ledger!Next
  PROVE  /\ today' \in Days /\ access' \in [Accesses -> Payload \cup {None}]
         /\ \/ daily' = daily /\ monthly' = monthly
            \/ \E e \in Accesses, new \in BOOLEAN : Recorded(e, new)
<1>1. CASE Ledger!NextDay
  BY <1>1 DEF Ledger!NextDay, LedgerType
<1>2. ASSUME NEW e \in Accesses, Ledger!Redirected(e)
      PROVE  /\ today' \in Days /\ access' \in [Accesses -> Payload \cup {None}]
             /\ daily' = daily /\ monthly' = monthly
  <2>1. PICK l \in Links, c \in Countries, v \in Visitors :
          access' = [access EXCEPT ![e] =
                       [link |-> l, day |-> today, country |-> c, visitor |-> v]]
    BY <1>2 DEF Ledger!Redirected
  <2>2. [link |-> l, day |-> today, country |-> c, visitor |-> v] \in Payload
    BY DEF Payload, LedgerType
  <2>3. access' \in [Accesses -> Payload \cup {None}]
    BY <2>1, <2>2 DEF LedgerType
  <2> QED BY <1>2, <2>3 DEF Ledger!Redirected, LedgerType
<1>3. ASSUME NEW e \in Accesses, Ledger!Count(e)
      PROVE  /\ today' \in Days /\ access' \in [Accesses -> Payload \cup {None}]
             /\ \E new \in BOOLEAN : Recorded(e, new)
  <2> DEFINE p == access[e]
             new == Ledger!FirstVisit(p)
  <2>1. p \in Payload
    BY <1>3 DEF Ledger!Count, LedgerType
  <2>2. /\ e \notin counted /\ counted' = counted \cup {e}
        /\ today' = today /\ access' = access
        /\ daily' = [daily EXCEPT ![<<p.link, p.day, p.country>>] =
                       Ledger!Plus(daily[<<p.link, p.day, p.country>>], new)]
        /\ monthly' = [monthly EXCEPT ![<<p.link, MonthOf[p.day]>>] =
                         Ledger!Plus(monthly[<<p.link, MonthOf[p.day]>>], new)]
    BY <1>3 DEF Ledger!Count
  <2>3. new \in BOOLEAN
    BY DEF Ledger!FirstVisit
  <2>4. Recorded(e, new)
    <3> HIDE DEF new
    <3> QED BY <2>1, <2>2 DEF Recorded
  <2>5. \E x \in BOOLEAN : Recorded(e, x)
    <3> HIDE DEF new
    <3> QED BY <2>3, <2>4
  <2> QED BY <2>2, <2>5 DEF LedgerType
<1>4. ASSUME NEW l \in Links, NEW d \in Days, Ledger!Close(l, d)
      PROVE  /\ today' \in Days /\ access' \in [Accesses -> Payload \cup {None}]
             /\ daily' = daily /\ monthly' = monthly
  BY <1>4 DEF Ledger!Close, LedgerType
<1> QED BY <1>1, <1>2, <1>3, <1>4 DEF Ledger!Next

\* What recording one access does to the rows.
LEMMA RecordedRows ==
  ASSUME LedgerType, NEW e \in Accesses, NEW new \in BOOLEAN, Recorded(e, new)
  PROVE  /\ access[e] \in Payload /\ access[e].link \in Links
         /\ access[e].day \in Days /\ access[e].country \in Countries
         /\ daily' \in [Links \X Days \X Countries -> Figures]
         /\ monthly' \in [Links \X Ledger!Months -> Figures]
         /\ \A k \in Links \X Days \X Countries :
              daily'[k] = IF k = <<access[e].link, access[e].day, access[e].country>>
                            THEN Ledger!Plus(daily[k], new) ELSE daily[k]
         /\ \A k \in Links \X Ledger!Months :
              monthly'[k] = IF k = <<access[e].link, MonthOf[access[e].day]>>
                              THEN Ledger!Plus(monthly[k], new) ELSE monthly[k]
<1> DEFINE p == access[e]
           row == <<p.link, p.day, p.country>>
           month == <<p.link, MonthOf[p.day]>>
<1>1. /\ p \in Payload
      /\ daily' = [daily EXCEPT ![row] = Ledger!Plus(daily[row], new)]
      /\ monthly' = [monthly EXCEPT ![month] = Ledger!Plus(monthly[month], new)]
  BY DEF Recorded
<1>2. p.link \in Links /\ p.day \in Days /\ p.country \in Countries
  BY <1>1 DEF Payload
<1>3. row \in Links \X Days \X Countries
  BY <1>2
<1>4. month \in Links \X Ledger!Months
  BY <1>2 DEF Ledger!Months
<1>5. \A x \in Figures : Ledger!Plus(x, new) \in Figures
  BY DEF Figures, Ledger!Plus
<1>6. /\ daily \in [Links \X Days \X Countries -> Figures]
      /\ monthly \in [Links \X Ledger!Months -> Figures]
  BY DEF LedgerType
<1> HIDE DEF row, month
<1>7. /\ daily' \in [Links \X Days \X Countries -> Figures]
      /\ \A k \in Links \X Days \X Countries :
           daily'[k] = IF k = row THEN Ledger!Plus(daily[k], new) ELSE daily[k]
  BY <1>1, <1>3, <1>5, <1>6
<1>8. /\ monthly' \in [Links \X Ledger!Months -> Figures]
      /\ \A k \in Links \X Ledger!Months :
           monthly'[k] = IF k = month THEN Ledger!Plus(monthly[k], new) ELSE monthly[k]
  BY <1>1, <1>4, <1>5, <1>6
<1> QED BY <1>1, <1>2, <1>7, <1>8 DEF row, month

LEMMA LedgerStep ==
  ASSUME LedgerFits, Ledger!Next
  PROVE  LedgerFits'
<1>1. LedgerType
  BY DEF LedgerFits
<1>2. CASE daily' = daily /\ monthly' = monthly
  <2>1. LedgerType'
    BY <1>1, <1>2, LedgerMoves DEF LedgerType
  <2>2. /\ \A k \in Links \X Days \X Countries : FewerVisitors(daily'[k])
        /\ \A l \in Links, m \in Ledger!Months :
             monthly'[<<l, m>>] = Sum(daily', MonthRows(l, m))
    BY <1>2 DEF LedgerFits
  <2> QED BY <2>1, <2>2 DEF LedgerFits
<1>3. ASSUME NEW e \in Accesses, NEW new \in BOOLEAN, Recorded(e, new)
      PROVE  LedgerFits'
  <2> DEFINE p == access[e]
             row == <<p.link, p.day, p.country>>
  <2>1. /\ p.link \in Links /\ p.day \in Days /\ p.country \in Countries
        /\ daily' \in [Links \X Days \X Countries -> Figures]
        /\ monthly' \in [Links \X Ledger!Months -> Figures]
        /\ \A k \in Links \X Days \X Countries :
              daily'[k] = IF k = row THEN Ledger!Plus(daily[k], new) ELSE daily[k]
        /\ \A k \in Links \X Ledger!Months :
              monthly'[k] = IF k = <<p.link, MonthOf[p.day]>>
                              THEN Ledger!Plus(monthly[k], new) ELSE monthly[k]
    BY <1>1, <1>3, RecordedRows, Zenon
  <2>2. LedgerType'
    BY <1>1, <2>1, LedgerMoves DEF LedgerType
  <2>3. ASSUME NEW k \in Links \X Days \X Countries PROVE FewerVisitors(daily'[k])
    <3>1. FewerVisitors(daily[k]) /\ daily[k] \in Figures
      BY <1>1 DEF LedgerFits, LedgerType
    <3>2. daily'[k] = Ledger!Plus(daily[k], new) \/ daily'[k] = daily[k]
      BY <2>1
    <3>3. \A x \in Figures : FewerVisitors(x) => FewerVisitors(Ledger!Plus(x, new))
      BY DEF Figures, FewerVisitors, Ledger!Plus
    <3> QED BY <3>1, <3>2, <3>3
  <2>4. ASSUME NEW l \in Links, NEW m \in Ledger!Months
        PROVE  monthly'[<<l, m>>] = Sum(daily', MonthRows(l, m))
    <3> DEFINE K == MonthRows(l, m)
    <3>1. K \in SUBSET Rows(l)
      BY DEF MonthRows
    <3>2. K \in SUBSET (Links \X Days \X Countries)
      BY DEF MonthRows, Rows
    <3>3. IsTable(daily, K)
      <4>1. IsFiniteSet(K)
        BY <3>1, RowsAreFinite
      <4> HIDE DEF K
      <4> QED BY <1>1, <3>2, <4>1 DEF IsTable, LedgerType
    <3>4. row \in K <=> <<l, m>> = <<p.link, MonthOf[p.day]>>
      BY <2>1 DEF MonthRows, Rows
    <3>5. monthly[<<l, m>>] = Sum(daily, K)
      BY DEF LedgerFits
    <3>6. <<l, m>> \in Links \X Ledger!Months
      OBVIOUS
    <3> HIDE DEF K, row
    <3>7. CASE row \in K
      <4>1. /\ daily'[row] = Ledger!Plus(daily[row], new)
            /\ \A k \in K \ {row} : daily'[k] = daily[k]
        BY <2>1, <3>2, <3>7
      <4>2. Sum(daily', K) = Ledger!Plus(Sum(daily, K), new)
        BY <3>3, <3>7, <4>1, SumOfOneMore
      <4>3. monthly'[<<l, m>>] = Ledger!Plus(monthly[<<l, m>>], new)
        BY <2>1, <3>4, <3>6, <3>7
      <4> QED BY <3>5, <4>2, <4>3 DEF K
    <3>8. CASE row \notin K
      <4>1. \A k \in K : daily'[k] = daily[k]
        BY <2>1, <3>2, <3>8
      <4>2. Sum(daily', K) = Sum(daily, K)
        BY <3>3, <4>1, SumAgrees
      <4>3. monthly'[<<l, m>>] = monthly[<<l, m>>]
        BY <2>1, <3>4, <3>6, <3>8
      <4> QED BY <3>5, <4>2, <4>3 DEF K
    <3> QED BY <3>7, <3>8
  <2> QED BY <2>2, <2>3, <2>4 DEF LedgerFits
<1> QED BY <1>1, <1>2, <1>3, LedgerMoves

-----------------------------------------------------------------------------
(* The months of a period                                                  *)

DaysOf(m) == {d \in DaysWithin : MonthOf[d] = m}

LEMMA PeriodDays ==
  /\ DaysWithin \in SUBSET Days /\ IsFiniteSet(DaysWithin)
  /\ \A m : DaysOf(m) \in SUBSET DaysWithin /\ IsFiniteSet(DaysOf(m))
<1>1. DaysWithin \in SUBSET Days /\ \A m : DaysOf(m) \in SUBSET DaysWithin
  BY DEF DaysWithin, DaysOf
<1>2. IsFiniteSet(DaysWithin)
  <2>1. IsFiniteSet(Days)
    BY DaysAndCountries
  <2> QED BY <1>1, <2>1, FS_Subset
<1> QED BY <1>1, <1>2, FS_Subset

LEMMA MonthOfDay ==
  ASSUME NEW d \in Days
  PROVE  /\ IsDate(CalendarDate(d)) /\ DayNumber(CalendarDate(d)) = d
         /\ MonthOf[d] = [y |-> CalendarDate(d).y, m |-> CalendarDate(d).m]
         /\ MonthOf[d] \in Ledger!Months
         /\ MonthOf[d].y \in Nat /\ MonthOf[d].m \in 1..12
         /\ IsMonthOf(d, MonthOf[d].y, MonthOf[d].m)
<1>1. d \in Nat
  BY DaysAndCountries
<1>2. IsDate(CalendarDate(d)) /\ DayNumber(CalendarDate(d)) = d
  BY <1>1, CalendarDateIsDate
<1>3. MonthOf[d] = [y |-> CalendarDate(d).y, m |-> CalendarDate(d).m]
  BY DEF MonthOf, MonthOfDate
<1>4. MonthOf[d].y = CalendarDate(d).y /\ MonthOf[d].m = CalendarDate(d).m
  BY <1>3
<1>5. CalendarDate(d).y \in Nat /\ CalendarDate(d).m \in 1..12
  BY <1>2 DEF IsDate
<1>6. IsMonthOf(d, CalendarDate(d).y, CalendarDate(d).m)
  BY <1>2, DayNumberIsInMonth
<1>7. MonthOf[d] \in Ledger!Months
  BY DEF Ledger!Months
<1> QED BY <1>2, <1>3, <1>4, <1>5, <1>6, <1>7

\* A day of the period lies in one of the months the third statement selects.
LEMMA MonthsOfPeriod ==
  ASSUME IsPeriod(report.period.from, report.period.to), NEW d \in DaysWithin
  PROVE  /\ MonthNotAfter(MonthOfDate(report.period.from), MonthOf[d])
         /\ MonthNotAfter(MonthOf[d], MonthOfDate(report.period.to))
<1> DEFINE date == CalendarDate(d)
           from == report.period.from
           to == report.period.to
<1>1. /\ d \in Days /\ DayNumber(from) <= d /\ d <= DayNumber(to)
      /\ IsDate(from) /\ IsDate(to)
  BY DEF DaysWithin, IsPeriod
<1>2. /\ IsDate(date) /\ DayNumber(date) = d
      /\ MonthOf[d] = [y |-> date.y, m |-> date.m]
  BY <1>1, MonthOfDay
<1>3. DayNumber(from) \in Nat /\ DayNumber(to) \in Nat /\ DayNumber(date) \in Nat
  BY <1>1, <1>2, DayNumberIsInMonth
<1> HIDE DEF date, from, to
<1>4. Later(from, date) => DayNumber(date) < DayNumber(from)
  BY <1>1, <1>2, LaterIsGreater
<1>5. Later(date, to) => DayNumber(to) < DayNumber(date)
  BY <1>1, <1>2, LaterIsGreater
<1>6. ~Later(from, date) /\ ~Later(date, to)
  BY <1>1, <1>2, <1>3, <1>4, <1>5
<1>7. /\ from.y \in Nat /\ from.m \in 1..12 /\ date.y \in Nat /\ date.m \in 1..12
      /\ to.y \in Nat /\ to.m \in 1..12
  BY <1>1, <1>2 DEF IsDate
<1>8. /\ from.y < date.y \/ (from.y = date.y /\ from.m <= date.m)
      /\ date.y < to.y \/ (date.y = to.y /\ date.m <= to.m)
  BY <1>6, <1>7 DEF Later
<1>9. /\ MonthNotAfter(MonthOfDate(from), MonthOf[d])
      /\ MonthNotAfter(MonthOf[d], MonthOfDate(to))
  BY <1>2, <1>8 DEF MonthNotAfter, MonthOfDate
<1> QED BY <1>9 DEF from, to

\* A period that covers a month has all its days.
LEMMA WholeMonthDays ==
  ASSUME IsPeriod(report.period.from, report.period.to),
         NEW m, WholeMonth(m), NEW d \in Days, MonthOf[d] = m
  PROVE  d \in DaysWithin
<1> DEFINE from == report.period.from
           to == report.period.to
<1>1. m.y \in Int /\ m.m \in 1..12 /\ IsMonthOf(d, m.y, m.m)
  <2>1. m.y \in Nat /\ m.m \in 1..12 /\ IsMonthOf(d, m.y, m.m)
    BY MonthOfDay, Zenon
  <2> QED BY <2>1
<1>2. MonthStart(m.y, m.m) \in Int /\ DaysIn(m.y, m.m) \in Int
  BY <1>1, MonthTypes
<1>3. DayNumber(from) \in Nat /\ DayNumber(to) \in Nat /\ d \in Nat
  BY DayNumberIsInMonth, DaysAndCountries DEF IsPeriod
<1>4. /\ DayNumber(from) <= MonthStart(m.y, m.m)
      /\ MonthStart(m.y, m.m) + DaysIn(m.y, m.m) - 1 <= DayNumber(to)
  BY DEF WholeMonth
<1>5. MonthStart(m.y, m.m) <= d /\ d < MonthStart(m.y, m.m) + DaysIn(m.y, m.m)
  BY <1>1 DEF IsMonthOf
<1> HIDE DEF from, to
<1>6. DayNumber(from) <= d /\ d <= DayNumber(to)
  BY <1>2, <1>3, <1>4, <1>5
<1> QED BY <1>6 DEF DaysWithin, from, to

-----------------------------------------------------------------------------
(* What the statements return                                              *)

LEMMA DailyIsTable ==
  ASSUME LedgerFits, NEW l \in Links, NEW K \in SUBSET Rows(l)
  PROVE  IsTable(daily, K)
<1>1. IsFiniteSet(K)
  BY RowsAreFinite
<1>2. \A k \in K : daily[k] \in Figures
  BY DEF LedgerFits, LedgerType, Rows
<1> QED BY <1>1, <1>2 DEF IsTable

\* Rows that do not exist count for nothing.
LEMMA MissingRows ==
  ASSUME LedgerFits, NEW l \in Links, NEW K \in SUBSET Rows(l), NEW R \in SUBSET K,
         \A k \in K \ R : ~(daily[k].accesses > 0)
  PROVE  Sum(daily, K) = Sum(daily, R)
<1>1. IsTable(daily, K)
  BY DailyIsTable
<1>2. ASSUME NEW k \in K \ R PROVE daily[k] = NoFigures
  <2>1. k \in Links \X Days \X Countries
    BY DEF Rows
  <2>2. daily[k] \in Figures /\ FewerVisitors(daily[k]) /\ ~(daily[k].accesses > 0)
    BY <2>1 DEF LedgerFits, LedgerType
  <2>3. \A x \in Figures : FewerVisitors(x) /\ ~(x.accesses > 0) => x = NoFigures
    BY DEF Figures, FewerVisitors, NoFigures
  <2> QED BY <2>2, <2>3
<1> QED BY <1>1, <1>2, SumWithZeros

LEMMA ReadRows ==
  ASSUME LedgerFits, report.link \in Links
  PROVE  /\ PeriodRows \in SUBSET Rows(report.link)
         /\ DailyRows \in SUBSET PeriodRows
         /\ IsTable(daily, PeriodRows) /\ IsTable(daily, DailyRows)
         /\ Sum(daily, PeriodRows) = Sum(daily, DailyRows)
         /\ \A d : /\ DayRows(d) \in SUBSET PeriodRows
                   /\ Sum(daily, DayRows(d)) = Sum(daily, {k \in DailyRows : k[2] = d})
<1>1. PeriodRows \in SUBSET Rows(report.link)
  BY DEF PeriodRows, Rows, DaysWithin
<1>2. /\ DailyRows \in SUBSET PeriodRows
      /\ \A k \in PeriodRows \ DailyRows : ~(daily[k].accesses > 0)
  BY DEF PeriodRows, DailyRows
<1>3. IsTable(daily, PeriodRows) /\ IsTable(daily, DailyRows)
  BY <1>1, <1>2, DailyIsTable
<1>4. Sum(daily, PeriodRows) = Sum(daily, DailyRows)
  BY <1>1, <1>2, MissingRows
<1>5. ASSUME NEW d
      PROVE  /\ DayRows(d) \in SUBSET PeriodRows
             /\ Sum(daily, DayRows(d)) = Sum(daily, {k \in DailyRows : k[2] = d})
  <2> DEFINE R == {k \in DailyRows : k[2] = d}
  <2>1. DayRows(d) \in SUBSET PeriodRows /\ R \in SUBSET DayRows(d)
    BY <1>2 DEF DayRows
  <2>2. \A k \in DayRows(d) \ R : ~(daily[k].accesses > 0)
    BY <1>2 DEF DayRows
  <2>3. DayRows(d) \in SUBSET Rows(report.link)
    BY <1>1, <2>1
  <2> HIDE DEF R
  <2>4. Sum(daily, DayRows(d)) = Sum(daily, R)
    BY <2>1, <2>2, <2>3, MissingRows
  <2> QED BY <2>1, <2>4 DEF R
<1> QED BY <1>1, <1>2, <1>3, <1>4, <1>5

\* The days add up to the rows of the period, and of a month.
LEMMA PeriodTotals ==
  ASSUME LedgerFits, report.link \in Links, NEW D \in SUBSET DaysWithin,
         NEW h, \A d \in D : h[d] = Sum(daily, DayRows(d))
  PROVE  Sum(h, D) = Sum(daily, {k \in PeriodRows : k[2] \in D})
<1> DEFINE K == {k \in PeriodRows : k[2] \in D}
<1>1. K \in SUBSET PeriodRows /\ \A k \in K : k[2] \in D
  OBVIOUS
<1>2. K \in SUBSET Rows(report.link)
  BY <1>1, ReadRows
<1>3. IsFiniteSet(D)
  BY PeriodDays, FS_Subset
<1>4. \A d \in D : {k \in K : k[2] = d} = DayRows(d)
  BY DEF DayRows
<1>5. \A d \in D : h[d] = Sum(daily, {k \in K : k[2] = d})
  BY <1>4
<1> HIDE DEF K
<1>6. IsTable(daily, K)
  BY <1>2, DailyIsTable
<1>7. Sum(h, D) = Sum(daily, K)
  BY <1>1, <1>3, <1>5, <1>6, DaysAddUp
<1> QED BY <1>7 DEF K

-----------------------------------------------------------------------------
(* The inductive invariant                                                 *)

Reports == {"monthly", "countries", "totals", "answered"}

\* What the statements have returned so far are figures of the link's rows.
TablesFit ==
  /\ report.at \in {"daily"} \cup Reports => report.link \in Links
  /\ report.at \in Reports =>
       /\ DOMAIN report.daily \subseteq DaysWithin
       /\ \A d \in DOMAIN report.daily : report.daily[d] \in Figures
  /\ report.at \in {"totals", "answered"} =>
       \A c \in DOMAIN report.countries : report.countries[c] \in Figures

\* No day has more in the report than in the table, and while it is quiet no less.
DaysFit ==
  report.at \in {"monthly", "countries"} =>
    \A d \in DaysWithin :
      /\ AtMost(Found(report.daily, d), Sum(daily, DayRows(d)))
      /\ quiet => Found(report.daily, d) = Sum(daily, DayRows(d))

MonthsFit ==
  report.at \in {"countries", "totals", "answered"} =>
    \A m \in Ledger!Months :
      /\ AtMost(InMonth(m), Found(report.monthly, m))
      /\ quiet /\ WholeMonth(m) => InMonth(m) = Found(report.monthly, m)

CountriesFit ==
  /\ report.at \in {"totals", "answered"} => AtMost(DailyTotal, CountriesTotal)
  /\ report.at = "totals" =>
       /\ AtMost(CountriesTotal, Sum(daily, PeriodRows))
       /\ quiet => /\ DailyTotal = Sum(daily, PeriodRows)
                   /\ CountriesTotal = Sum(daily, PeriodRows)

TotalsFit ==
  report.at = "answered" =>
    /\ AtMost(CountriesTotal, report.totals)
    /\ FewerVisitors(report.totals)
    /\ quiet => DailyTotal = report.totals /\ CountriesTotal = report.totals

Inv ==
  /\ RequestFits /\ LedgerFits /\ TypeOK /\ TablesFit
  /\ DaysFit /\ MonthsFit /\ CountriesFit /\ TotalsFit

LEMMA AtMostOrder ==
  /\ \A a \in Figures : AtMost(a, a) /\ (AtMost(a, NoFigures) => a = NoFigures)
  /\ \A a, b, c \in Figures : AtMost(a, b) /\ AtMost(b, c) => AtMost(a, c)
BY DEF Figures, AtMost, NoFigures

LEMMA NoFiguresType == NoFigures \in Figures
BY DEF NoFigures, Figures

LEMMA SamePeriod ==
  ASSUME SameRequest
  PROVE  /\ DaysWithin' = DaysWithin /\ PeriodRows' = PeriodRows
         /\ \A d : DayRows(d)' = DayRows(d)
         /\ \A m : WholeMonth(m)' <=> WholeMonth(m)
<1>1. DaysWithin' = DaysWithin
  BY DEF SameRequest, DaysWithin
<1>2. PeriodRows' = PeriodRows
  BY <1>1 DEF SameRequest, PeriodRows
<1>3. \A d : DayRows(d)' = DayRows(d)
  BY <1>2 DEF DayRows
<1>4. \A m : WholeMonth(m)' <=> WholeMonth(m)
  BY DEF SameRequest, WholeMonth
<1> QED BY <1>1, <1>2, <1>3, <1>4

LEMMA DayTotalType ==
  ASSUME LedgerFits, report.link \in Links
  PROVE  /\ Sum(daily, PeriodRows) \in Figures
         /\ \A d : Sum(daily, DayRows(d)) \in Figures
<1>1. /\ IsTable(daily, PeriodRows) /\ PeriodRows \in SUBSET Rows(report.link)
      /\ \A d : DayRows(d) \in SUBSET PeriodRows
  BY ReadRows
<1>2. \A d : DayRows(d) \in SUBSET Rows(report.link)
  BY <1>1
<1>3. \A d : IsTable(daily, DayRows(d))
  BY <1>2, DailyIsTable
<1> QED BY <1>1, <1>3, SumType

\* The days reported for a part of the period, against their rows.
LEMMA DailySums ==
  ASSUME LedgerFits, TablesFit, DaysFit, report.at \in {"monthly", "countries"},
         NEW D \in SUBSET DaysWithin
  PROVE  LET reported == Sum(report.daily, {d \in DOMAIN report.daily : d \in D})
             rows == Sum(daily, {k \in PeriodRows : k[2] \in D})
         IN  /\ reported \in Figures /\ rows \in Figures
             /\ AtMost(reported, rows)
             /\ quiet => reported = rows
<1> DEFINE R == {d \in DOMAIN report.daily : d \in D}
           g == [d \in DaysWithin |-> Found(report.daily, d)]
           h == [d \in DaysWithin |-> Sum(daily, DayRows(d))]
<1>1. /\ report.link \in Links /\ DOMAIN report.daily \subseteq DaysWithin
      /\ \A d \in DOMAIN report.daily : report.daily[d] \in Figures
  BY DEF TablesFit, Reports
<1>2. R \in SUBSET D /\ IsFiniteSet(D) /\ D \in SUBSET D
  BY PeriodDays, FS_Subset
<1>3. /\ \A d \in D : g[d] = Found(report.daily, d) /\ g[d] \in Figures
      /\ \A d \in R : report.daily[d] = g[d]
      /\ \A d \in D \ R : g[d] = NoFigures
  BY <1>1, NoFiguresType DEF Found
<1>4. \A d \in D : h[d] = Sum(daily, DayRows(d)) /\ h[d] \in Figures
  BY <1>1, DayTotalType
<1>5. \A d \in D : /\ AtMost(Found(report.daily, d), Sum(daily, DayRows(d)))
                   /\ quiet => Found(report.daily, d) = Sum(daily, DayRows(d))
  BY DEF DaysFit
<1> HIDE DEF R, g, h
<1>6. \A d \in D : AtMost(g[d], h[d]) /\ (quiet => g[d] = h[d])
  BY <1>3, <1>4, <1>5
<1>7. IsTable(g, D) /\ IsTable(h, D)
  BY <1>2, <1>3, <1>4 DEF IsTable
<1>8. Sum(g, D) = Sum(report.daily, R)
  BY <1>2, <1>3, <1>7, SumWithZeros
<1>9. AtMost(Sum(g, D), Sum(h, D))
  BY <1>2, <1>6, <1>7, SumMonotone
<1>10. quiet => Sum(g, D) = Sum(h, D)
  BY <1>6, <1>7, SumAgrees
<1>11. Sum(h, D) = Sum(daily, {k \in PeriodRows : k[2] \in D})
  BY <1>1, <1>4, PeriodTotals
<1>12. Sum(g, D) \in Figures /\ Sum(h, D) \in Figures
  BY <1>7, SumType
<1> QED BY <1>8, <1>9, <1>10, <1>11, <1>12 DEF R

LEMMA ReadDailyFits ==
  ASSUME Inv, ReadDaily
  PROVE  TablesFit' /\ DaysFit' /\ DOMAIN report'.daily \subseteq Days
<1>1. /\ IsReport' /\ SameRequest /\ report.at = "daily" /\ report'.at = "monthly"
      /\ report'.daily = [d \in {k[2] : k \in DailyRows} |->
                            Sum(daily, {k \in DailyRows : k[2] = d})]
      /\ quiet' = TRUE /\ ledger' = ledger
  BY ReadDailyStep DEF Inv, RequestFits
<1>2. /\ DaysWithin' = DaysWithin /\ PeriodRows' = PeriodRows
      /\ \A d : DayRows(d)' = DayRows(d)
  BY <1>1, SamePeriod
<1>3. /\ report.link \in Links /\ report'.link = report.link /\ daily' = daily
      /\ LedgerFits
  BY <1>1 DEF Inv, TablesFit, SameRequest, ledger
<1>4. /\ PeriodRows \in SUBSET Rows(report.link) /\ DailyRows \in SUBSET PeriodRows
      /\ \A d : Sum(daily, DayRows(d)) = Sum(daily, {k \in DailyRows : k[2] = d})
      /\ \A d : Sum(daily, DayRows(d)) \in Figures
  BY <1>3, ReadRows, DayTotalType
<1>5. DOMAIN report'.daily \subseteq DaysWithin /\ DaysWithin \subseteq Days
  <2>1. \A k \in DailyRows : k[2] \in DaysWithin
    BY <1>4 DEF PeriodRows
  <2> QED BY <1>1, <2>1, PeriodDays
<1>6. \A d \in DOMAIN report'.daily : report'.daily[d] \in Figures
  <2> TAKE d \in DOMAIN report'.daily
  <2>1. report'.daily[d] = Sum(daily, {k \in DailyRows : k[2] = d})
    BY <1>1
  <2> QED BY <1>4, <2>1
<1>7. \A d : Found(report'.daily, d) = Sum(daily, DayRows(d))
  <2> TAKE d
  <2> DEFINE R == {k \in DailyRows : k[2] = d}
  <2>1. CASE d \in DOMAIN report'.daily
    <3>1. report'.daily[d] = Sum(daily, R)
      BY <1>1, <2>1
    <3> QED BY <1>4, <2>1, <3>1 DEF Found
  <2>2. CASE d \notin DOMAIN report'.daily
    <3>1. R = {}
      BY <1>1, <2>2
    <3>2. Sum(daily, R) = NoFigures
      BY <3>1, SumOfNone
    <3> QED BY <1>4, <2>2, <3>2 DEF Found
  <2> QED BY <2>1, <2>2
<1>8. TablesFit'
  BY <1>1, <1>2, <1>3, <1>5, <1>6 DEF TablesFit, Reports
<1>9. DaysFit'
  BY <1>1, <1>2, <1>3, <1>4, <1>7, AtMostOrder DEF DaysFit
<1> QED BY <1>5, <1>8, <1>9

LEMMA MonthIsTable ==
  ASSUME LedgerFits, report.link \in Links, NEW m \in Ledger!Months
  PROVE  /\ monthly[<<report.link, m>>] \in Figures
         /\ FewerVisitors(monthly[<<report.link, m>>])
         /\ AtMost(Sum(daily, {k \in PeriodRows : k[2] \in DaysOf(m)}),
                   monthly[<<report.link, m>>])
         /\ (\A d \in Days : MonthOf[d] = m => d \in DaysWithin) =>
              Sum(daily, {k \in PeriodRows : k[2] \in DaysOf(m)})
                = monthly[<<report.link, m>>]
<1> DEFINE K == MonthRows(report.link, m)
           R == {k \in PeriodRows : k[2] \in DaysOf(m)}
<1>1. monthly[<<report.link, m>>] = Sum(daily, K)
  BY DEF LedgerFits
<1>2. K \in SUBSET Rows(report.link)
  BY DEF MonthRows
<1>3. R \in SUBSET K
  BY DEF MonthRows, Rows, PeriodRows, DaysOf, DaysWithin
<1>4. (\A d \in Days : MonthOf[d] = m => d \in DaysWithin) => R = K
  BY <1>3 DEF MonthRows, Rows, PeriodRows, DaysOf
<1>5. \A k \in K : FewerVisitors(daily[k])
  BY DEF LedgerFits, MonthRows, Rows
<1> HIDE DEF K, R
<1>6. IsTable(daily, K) /\ IsTable(daily, R) /\ R \in SUBSET Rows(report.link)
  BY <1>2, <1>3, DailyIsTable
<1>7. Sum(daily, K) \in Figures /\ FewerVisitors(Sum(daily, K))
  BY <1>5, <1>6, SumType, SumHasFewerVisitors
<1>8. AtMost(Sum(daily, R), Sum(daily, K))
  <2>1. \A k \in R : AtMost(daily[k], daily[k])
    BY <1>6, AtMostOrder DEF IsTable
  <2> QED BY <1>3, <1>6, <2>1, SumMonotone
<1> QED BY <1>1, <1>4, <1>7, <1>8 DEF R

LEMMA MonthlyAnswer ==
  ASSUME Inv, report.at = "monthly", NEW m \in Ledger!Months,
         NEW row, row = IF m \in MonthlyRows THEN monthly[<<report.link, m>>]
                                             ELSE NoFigures
  PROVE  AtMost(InMonth(m), row) /\ (quiet /\ WholeMonth(m) => InMonth(m) = row)
<1> DEFINE month == monthly[<<report.link, m>>]
           rows == Sum(daily, {k \in PeriodRows : k[2] \in DaysOf(m)})
<1>1. /\ LedgerFits /\ TablesFit /\ DaysFit /\ report.link \in Links
      /\ DOMAIN report.daily \subseteq DaysWithin
      /\ IsPeriod(report.period.from, report.period.to)
  BY DEF Inv, TablesFit, Reports, RequestFits, PeriodFits
<1>2. /\ InMonth(m) \in Figures /\ rows \in Figures /\ AtMost(InMonth(m), rows)
      /\ quiet => InMonth(m) = rows
  <2>1. DaysOf(m) \in SUBSET DaysWithin
    BY PeriodDays
  <2>2. {d \in DOMAIN report.daily : d \in DaysOf(m)}
          = {d \in DOMAIN report.daily : MonthOf[d] = m}
    BY <1>1 DEF DaysOf
  <2>3. /\ Sum(report.daily, {d \in DOMAIN report.daily : d \in DaysOf(m)}) \in Figures
        /\ rows \in Figures
        /\ AtMost(Sum(report.daily, {d \in DOMAIN report.daily : d \in DaysOf(m)}), rows)
        /\ quiet => Sum(report.daily, {d \in DOMAIN report.daily : d \in DaysOf(m)}) = rows
    BY <1>1, <2>1, DailySums
  <2> QED BY <2>2, <2>3 DEF InMonth
<1>3. /\ month \in Figures /\ FewerVisitors(month) /\ AtMost(rows, month)
      /\ (\A d \in Days : MonthOf[d] = m => d \in DaysWithin) => rows = month
  BY <1>1, MonthIsTable
<1>4. WholeMonth(m) => rows = month
  BY <1>1, <1>3, WholeMonthDays
<1>5. CASE row = month
  <2> HIDE DEF month, rows
  <2> QED BY <1>2, <1>3, <1>4, <1>5, AtMostOrder
<1>6. CASE row = NoFigures /\ month = NoFigures
  <2> HIDE DEF month, rows
  <2> QED BY <1>2, <1>3, <1>4, <1>6, AtMostOrder
<1>7. CASE row = NoFigures /\ DaysOf(m) = {}
  <2>1. {k \in PeriodRows : k[2] \in DaysOf(m)} = {}
    BY <1>7
  <2>2. rows = NoFigures
    BY <2>1, SumOfNone
  <2> HIDE DEF month, rows
  <2> QED BY <1>2, <1>7, <2>2, AtMostOrder
<1>8. m \notin MonthlyRows => month = NoFigures \/ DaysOf(m) = {}
  <2> SUFFICES ASSUME m \notin MonthlyRows, DaysOf(m) # {} PROVE month = NoFigures
    OBVIOUS
  <2>1. PICK d \in DaysWithin : MonthOf[d] = m
    BY DEF DaysOf
  <2>2. /\ MonthNotAfter(MonthOfDate(report.period.from), m)
        /\ MonthNotAfter(m, MonthOfDate(report.period.to))
    BY <1>1, <2>1, MonthsOfPeriod
  <2>3. ~(month.accesses > 0)
    BY <2>2 DEF MonthlyRows
  <2>4. \A x \in Figures : FewerVisitors(x) /\ ~(x.accesses > 0) => x = NoFigures
    BY DEF Figures, FewerVisitors, NoFigures
  <2> HIDE DEF month
  <2> QED BY <1>3, <2>3, <2>4
<1> QED BY <1>5, <1>6, <1>7, <1>8

LEMMA ReadMonthlyFits ==
  ASSUME Inv, ReadMonthly
  PROVE  /\ TablesFit' /\ DaysFit' /\ MonthsFit'
         /\ DOMAIN report'.monthly \subseteq Ledger!Months
<1>1. /\ IsReport' /\ SameRequest /\ report.at = "monthly" /\ report'.at = "countries"
      /\ report'.monthly = [m \in MonthlyRows |-> monthly[<<report.link, m>>]]
      /\ report'.daily = report.daily
      /\ quiet' = quiet /\ ledger' = ledger
  BY ReadMonthlyStep DEF Inv, RequestFits
<1>2. /\ DaysWithin' = DaysWithin /\ PeriodRows' = PeriodRows
      /\ \A d : DayRows(d)' = DayRows(d)
      /\ \A m : WholeMonth(m)' <=> WholeMonth(m)
  BY <1>1, SamePeriod
<1>3. daily' = daily /\ report'.link = report.link
  BY <1>1 DEF ledger, SameRequest
<1>4. TablesFit'
  BY <1>1, <1>2, <1>3 DEF Inv, TablesFit, Reports
<1>5. DaysFit'
  BY <1>1, <1>2, <1>3 DEF Inv, DaysFit
<1>6. \A m : Found(report'.monthly, m) =
               IF m \in MonthlyRows THEN monthly[<<report.link, m>>] ELSE NoFigures
  BY <1>1 DEF Found
<1>7. MonthsFit'
  <2>1. \A m : InMonth(m)' = InMonth(m)
    BY <1>1 DEF InMonth
  <2>2. ASSUME NEW m \in Ledger!Months
        PROVE  /\ AtMost(InMonth(m), Found(report'.monthly, m))
               /\ quiet /\ WholeMonth(m) => InMonth(m) = Found(report'.monthly, m)
    BY <1>1, <1>6, MonthlyAnswer
  <2> QED BY <1>1, <1>2, <2>1, <2>2 DEF MonthsFit
<1>8. DOMAIN report'.monthly \subseteq Ledger!Months
  BY <1>1 DEF MonthlyRows
<1> QED BY <1>4, <1>5, <1>7, <1>8

LEMMA ReadCountriesFits ==
  ASSUME Inv, ReadCountries
  PROVE  /\ TablesFit' /\ MonthsFit' /\ CountriesFit'
         /\ DOMAIN report'.countries \subseteq Countries
<1> DEFINE C == {k[3] : k \in DailyRows}
           rows == Sum(daily, PeriodRows)
<1>1. /\ IsReport' /\ SameRequest /\ report.at = "countries" /\ report'.at = "totals"
      /\ report'.countries = [c \in C |-> Sum(daily, {k \in DailyRows : k[3] = c})]
      /\ report'.daily = report.daily /\ report'.monthly = report.monthly
      /\ quiet' = quiet /\ ledger' = ledger
  BY ReadCountriesStep DEF Inv, RequestFits
<1>2. /\ DaysWithin' = DaysWithin /\ PeriodRows' = PeriodRows
      /\ \A m : WholeMonth(m)' <=> WholeMonth(m)
  BY <1>1, SamePeriod
<1>3. /\ LedgerFits /\ TablesFit /\ DaysFit /\ report.link \in Links
      /\ DOMAIN report.daily \subseteq DaysWithin
      /\ daily' = daily /\ report'.link = report.link
  BY <1>1 DEF Inv, TablesFit, Reports, ledger, SameRequest
<1>4. /\ DailyRows \in SUBSET PeriodRows /\ IsTable(daily, DailyRows)
      /\ rows = Sum(daily, DailyRows) /\ rows \in Figures
  BY <1>3, ReadRows, DayTotalType
<1>5. C \in SUBSET Countries /\ IsFiniteSet(C) /\ \A k \in DailyRows : k[3] \in C
  <2>1. C \in SUBSET Countries /\ \A k \in DailyRows : k[3] \in C
    BY <1>4 DEF PeriodRows
  <2>2. IsFiniteSet(Countries)
    BY DaysAndCountries
  <2> HIDE DEF C
  <2> QED BY <2>1, <2>2, FS_Subset
<1>6. /\ DOMAIN report'.countries = C
      /\ \A c \in C : report'.countries[c] = Sum(daily, {k \in DailyRows : k[3] = c})
  BY <1>1
<1> HIDE DEF C
<1>7. Sum(report'.countries, C) = rows
  <2>1. Sum(report'.countries, C) = Sum(daily, DailyRows)
    BY <1>4, <1>5, <1>6, CountriesAddUp
  <2> QED BY <1>4, <2>1
<1>8. \A c \in C : report'.countries[c] \in Figures
  <2> TAKE c \in C
  <2> DEFINE K == {k \in DailyRows : k[3] = c}
  <2>1. K \in SUBSET DailyRows /\ report'.countries[c] = Sum(daily, K)
    BY <1>6
  <2> HIDE DEF K
  <2>2. IsTable(daily, K)
    BY <1>4, <2>1, FS_Subset DEF IsTable
  <2> QED BY <2>1, <2>2, SumType
<1>9. AtMost(DailyTotal, rows) /\ (quiet => DailyTotal = rows)
  <2>1. DaysWithin \in SUBSET DaysWithin
    OBVIOUS
  <2>2. {d \in DOMAIN report.daily : d \in DaysWithin} = DOMAIN report.daily
    BY <1>3
  <2>3. {k \in PeriodRows : k[2] \in DaysWithin} = PeriodRows
    BY DEF PeriodRows
  <2>4. /\ AtMost(Sum(report.daily, {d \in DOMAIN report.daily : d \in DaysWithin}),
                  Sum(daily, {k \in PeriodRows : k[2] \in DaysWithin}))
        /\ quiet => Sum(report.daily, {d \in DOMAIN report.daily : d \in DaysWithin})
                      = Sum(daily, {k \in PeriodRows : k[2] \in DaysWithin})
    BY <1>1, <1>3, <2>1, DailySums
  <2> QED BY <2>2, <2>3, <2>4 DEF DailyTotal
<1>10. DailyTotal' = DailyTotal /\ CountriesTotal' = rows /\ Sum(daily, PeriodRows)' = rows
  <2>1. DailyTotal' = DailyTotal
    BY <1>1 DEF DailyTotal
  <2>2. CountriesTotal' = rows
    BY <1>6, <1>7 DEF CountriesTotal
  <2> QED BY <1>2, <1>3, <2>1, <2>2
<1>11. TablesFit'
  BY <1>1, <1>2, <1>3, <1>6, <1>8 DEF Inv, TablesFit, Reports
<1>12. MonthsFit'
  <2>1. \A m : InMonth(m)' = InMonth(m)
    BY <1>1 DEF InMonth
  <2> QED BY <1>1, <1>2, <2>1 DEF Inv, MonthsFit
<1> HIDE DEF rows
<1>13. CountriesFit'
  BY <1>1, <1>4, <1>9, <1>10, AtMostOrder DEF CountriesFit
<1> QED BY <1>5, <1>6, <1>11, <1>12, <1>13

LEMMA ReadTotalsFits ==
  ASSUME Inv, ReadTotals
  PROVE  /\ TablesFit' /\ MonthsFit' /\ CountriesFit' /\ TotalsFit'
         /\ report'.totals \in Figures
<1> DEFINE rows == Sum(daily, PeriodRows)
<1>1. /\ IsReport' /\ SameRequest /\ report.at = "totals" /\ report'.at = "answered"
      /\ report'.totals = Sum(daily, DailyRows)
      /\ report'.daily = report.daily /\ report'.monthly = report.monthly
      /\ report'.countries = report.countries
      /\ quiet' = quiet /\ ledger' = ledger
  BY ReadTotalsStep DEF Inv, RequestFits
<1>2. /\ DaysWithin' = DaysWithin
      /\ \A m : WholeMonth(m)' <=> WholeMonth(m)
  BY <1>1, SamePeriod
<1>3. /\ LedgerFits /\ report.link \in Links /\ report'.link = report.link
  BY <1>1 DEF Inv, TablesFit, Reports, SameRequest
<1>4. report'.totals = rows /\ rows \in Figures /\ FewerVisitors(rows)
  <2>1. /\ PeriodRows \in SUBSET Rows(report.link) /\ IsTable(daily, PeriodRows)
        /\ Sum(daily, PeriodRows) = Sum(daily, DailyRows)
    BY <1>3, ReadRows
  <2>2. \A k \in PeriodRows : FewerVisitors(daily[k])
    BY <1>3, <2>1 DEF LedgerFits, Rows
  <2> QED BY <1>1, <2>1, <2>2, SumType, SumHasFewerVisitors
<1>5. /\ AtMost(DailyTotal, CountriesTotal) /\ AtMost(CountriesTotal, rows)
      /\ quiet => DailyTotal = rows /\ CountriesTotal = rows
  BY <1>1 DEF Inv, CountriesFit
<1>6. DailyTotal' = DailyTotal /\ CountriesTotal' = CountriesTotal
  BY <1>1 DEF DailyTotal, CountriesTotal
<1>7. TablesFit'
  BY <1>1, <1>2, <1>3 DEF Inv, TablesFit, Reports
<1>8. MonthsFit'
  <2>1. \A m : InMonth(m)' = InMonth(m)
    BY <1>1 DEF InMonth
  <2> QED BY <1>1, <1>2, <2>1 DEF Inv, MonthsFit
<1> HIDE DEF rows
<1>9. CountriesFit'
  BY <1>1, <1>5, <1>6 DEF CountriesFit
<1>10. TotalsFit'
  BY <1>1, <1>4, <1>5, <1>6 DEF TotalsFit
<1> QED BY <1>4, <1>7, <1>8, <1>9, <1>10

\* Recording adds to the rows of the period, while it is quiet nothing.
LEMMA RecordingGrows ==
  ASSUME LedgerFits, report.link \in Links, Recording, NEW K \in SUBSET PeriodRows
  PROVE  /\ Sum(daily, K) \in Figures /\ Sum(daily', K) \in Figures
         /\ AtMost(Sum(daily, K), Sum(daily', K))
         /\ quiet' /\ report.at \in Reading => Sum(daily', K) = Sum(daily, K)
<1>1. PeriodRows \in SUBSET Rows(report.link)
  BY ReadRows
<1>2. IsTable(daily, K) /\ Sum(daily, K) \in Figures
  BY <1>1, DailyIsTable, SumType
<1>3. Ledger!Next /\ LedgerType
  BY DEF Recording, LedgerFits
<1>4. CASE daily' = daily
  <2>1. \A k \in K : AtMost(daily[k], daily[k])
    BY <1>2, AtMostOrder DEF IsTable
  <2> QED BY <1>2, <1>4, AtMostOrder
<1>5. ASSUME NEW e \in Accesses, NEW new \in BOOLEAN, Recorded(e, new)
      PROVE  /\ Sum(daily', K) \in Figures
             /\ AtMost(Sum(daily, K), Sum(daily', K))
             /\ quiet' /\ report.at \in Reading => Sum(daily', K) = Sum(daily, K)
  <2> DEFINE row == <<access[e].link, access[e].day, access[e].country>>
  <2>1. /\ daily' \in [Links \X Days \X Countries -> Figures]
        /\ \A k \in Links \X Days \X Countries :
              daily'[k] = IF k = row THEN Ledger!Plus(daily[k], new) ELSE daily[k]
    BY <1>3, <1>5, RecordedRows
  <2>2. K \in SUBSET (Links \X Days \X Countries)
    BY <1>1 DEF Rows
  <2>3. \A x \in Figures : AtMost(x, Ledger!Plus(x, new))
    BY DEF Figures, AtMost, Ledger!Plus
  <2>4. quiet' /\ report.at \in Reading => row \notin PeriodRows
    <3>1. e \in counted' \ counted
      BY <1>5 DEF Recorded
    <3>2. quiet' /\ report.at \in Reading =>
            access[e].link # report.link \/ access[e].day \notin DaysWithin
      BY <3>1 DEF Recording
    <3> QED BY <3>2 DEF PeriodRows
  <2> HIDE DEF row
  <2>5. \A k \in K : /\ AtMost(daily[k], daily'[k])
                     /\ row \notin PeriodRows => daily'[k] = daily[k]
    BY <1>2, <2>1, <2>2, <2>3, AtMostOrder DEF IsTable
  <2>6. IsTable(daily', K)
    BY <1>2, <2>1, <2>2 DEF IsTable
  <2>7. K \in SUBSET K
    OBVIOUS
  <2>8. AtMost(Sum(daily, K), Sum(daily', K))
    BY <1>2, <2>5, <2>6, <2>7, SumMonotone
  <2>9. row \notin PeriodRows => Sum(daily', K) = Sum(daily, K)
    BY <1>2, <2>5, SumAgrees
  <2>10. Sum(daily', K) \in Figures
    BY <2>6, SumType
  <2> QED BY <2>4, <2>8, <2>9, <2>10
<1> QED BY <1>2, <1>3, <1>4, <1>5, LedgerMoves

LEMMA RecordingFits ==
  ASSUME Inv, Recording
  PROVE  TablesFit' /\ DaysFit' /\ MonthsFit' /\ CountriesFit' /\ TotalsFit'
<1>1. report' = report /\ (quiet' => quiet) /\ SameRequest
  BY DEF Recording, SameRequest
<1>2. /\ DaysWithin' = DaysWithin /\ PeriodRows' = PeriodRows
      /\ \A d : DayRows(d)' = DayRows(d)
      /\ \A m : WholeMonth(m)' <=> WholeMonth(m)
  BY <1>1, SamePeriod
<1>3. TablesFit'
  BY <1>1, <1>2 DEF Inv, TablesFit
<1>4. /\ \A m : InMonth(m)' = InMonth(m)
      /\ DailyTotal' = DailyTotal /\ CountriesTotal' = CountriesTotal
  BY <1>1 DEF InMonth, DailyTotal, CountriesTotal
<1>5. MonthsFit'
  BY <1>1, <1>2, <1>4 DEF Inv, MonthsFit
<1>6. TotalsFit'
  BY <1>1, <1>4 DEF Inv, TotalsFit
<1>7. DaysFit'
  <2> SUFFICES ASSUME report.at \in {"monthly", "countries"}, NEW d \in DaysWithin
               PROVE  /\ AtMost(Found(report.daily, d), Sum(daily', DayRows(d)))
                      /\ quiet' => Found(report.daily, d) = Sum(daily', DayRows(d))
    BY <1>1, <1>2 DEF DaysFit
  <2>1. /\ report.link \in Links /\ LedgerFits /\ report.at \in Reading
        /\ d \in DOMAIN report.daily => report.daily[d] \in Figures
    BY DEF Inv, TablesFit, Reports, Reading
  <2>2. DayRows(d) \in SUBSET PeriodRows
    BY <2>1, ReadRows
  <2>3. /\ Sum(daily, DayRows(d)) \in Figures /\ Sum(daily', DayRows(d)) \in Figures
        /\ AtMost(Sum(daily, DayRows(d)), Sum(daily', DayRows(d)))
        /\ quiet' => Sum(daily', DayRows(d)) = Sum(daily, DayRows(d))
    BY <2>1, <2>2, RecordingGrows
  <2>4. Found(report.daily, d) \in Figures
    BY <2>1, NoFiguresType DEF Found
  <2>5. /\ AtMost(Found(report.daily, d), Sum(daily, DayRows(d)))
        /\ quiet => Found(report.daily, d) = Sum(daily, DayRows(d))
    BY DEF Inv, DaysFit
  <2> QED BY <1>1, <2>3, <2>4, <2>5, AtMostOrder
<1>8. CountriesFit'
  <2>1. report.at = "totals" =>
          /\ AtMost(CountriesTotal, Sum(daily', PeriodRows))
          /\ quiet' => /\ DailyTotal = Sum(daily', PeriodRows)
                       /\ CountriesTotal = Sum(daily', PeriodRows)
    <3> SUFFICES ASSUME report.at = "totals"
                 PROVE  /\ AtMost(CountriesTotal, Sum(daily', PeriodRows))
                        /\ quiet' => /\ DailyTotal = Sum(daily', PeriodRows)
                                     /\ CountriesTotal = Sum(daily', PeriodRows)
      OBVIOUS
    <3>1. /\ report.link \in Links /\ LedgerFits /\ report.at \in Reading
          /\ DOMAIN report.countries \subseteq Countries
          /\ \A c \in DOMAIN report.countries : report.countries[c] \in Figures
      BY DEF Inv, TablesFit, Reports, Reading, TypeOK
    <3>2. /\ Sum(daily, PeriodRows) \in Figures /\ Sum(daily', PeriodRows) \in Figures
          /\ AtMost(Sum(daily, PeriodRows), Sum(daily', PeriodRows))
          /\ quiet' => Sum(daily', PeriodRows) = Sum(daily, PeriodRows)
      BY <3>1, RecordingGrows
    <3>3. CountriesTotal \in Figures
      <4>1. IsFiniteSet(DOMAIN report.countries)
        <5>1. IsFiniteSet(Countries)
          BY DaysAndCountries
        <5> QED BY <3>1, <5>1, FS_Subset
      <4>2. IsTable(report.countries, DOMAIN report.countries)
        BY <3>1, <4>1 DEF IsTable
      <4> QED BY <4>2, SumType DEF CountriesTotal
    <3>4. /\ AtMost(CountriesTotal, Sum(daily, PeriodRows))
          /\ quiet => /\ DailyTotal = Sum(daily, PeriodRows)
                      /\ CountriesTotal = Sum(daily, PeriodRows)
      BY DEF Inv, CountriesFit
    <3> QED BY <1>1, <3>2, <3>3, <3>4, AtMostOrder
  <2> QED BY <1>1, <1>2, <1>4, <2>1 DEF Inv, CountriesFit
<1> QED BY <1>3, <1>5, <1>6, <1>7, <1>8

-----------------------------------------------------------------------------
(* Every step keeps the invariant                                          *)

LEMMA LedgerIsKept == ASSUME LedgerFits, ledger' = ledger PROVE LedgerFits'
<1>1. today' = today /\ access' = access /\ daily' = daily /\ monthly' = monthly
  BY DEF ledger
<1>2. LedgerType'
  BY <1>1 DEF LedgerFits, LedgerType
<1> QED BY <1>1, <1>2 DEF LedgerFits

\* Until the first statement the report has read nothing.
LEMMA NothingRead ==
  ASSUME LedgerFits', RequestFits', quiet' \in BOOLEAN,
         report'.at \in {"idle", "link", "daily", "refused"},
         report'.link \in Links \cup {None},
         report'.at = "daily" => report'.link \in Links,
         DOMAIN report'.daily \subseteq Days,
         DOMAIN report'.monthly \subseteq Ledger!Months,
         DOMAIN report'.countries \subseteq Countries,
         report'.totals \in Figures
  PROVE  Inv'
<1>1. TypeOK'
  <2>1. report'.at \in Steps
    BY DEF Steps
  <2>2. report'.at \in Steps \ {"idle", "refused"} =>
          RealDate(report'.period.from) /\ RealDate(report'.period.to)
    BY DEF RequestFits, PeriodFits, IsPeriod
  <2> QED BY <2>1, <2>2 DEF TypeOK
<1>2. TablesFit'
  BY DEF TablesFit, Reports
<1>3. DaysFit' /\ MonthsFit' /\ CountriesFit' /\ TotalsFit'
  BY DEF DaysFit, MonthsFit, CountriesFit, TotalsFit
<1> QED BY <1>1, <1>2, <1>3 DEF Inv

LEMMA NoRows ==
  /\ DOMAIN <<>> \subseteq Days
  /\ DOMAIN <<>> \subseteq Ledger!Months
  /\ DOMAIN <<>> \subseteq Countries
OBVIOUS

LEMMA Cleared ==
  ASSUME LedgerFits, quiet \in BOOLEAN,
         report' = NoReport, quiet' = quiet, ledger' = ledger
  PROVE  Inv'
<1>1. /\ report'.at = "idle" /\ report'.link = None
      /\ report'.daily = <<>> /\ report'.monthly = <<>> /\ report'.countries = <<>>
      /\ report'.totals = NoFigures
  BY NoReportStep
<1>2. RequestFits' /\ LedgerFits'
  BY NoRequest, LedgerIsKept
<1> QED BY <1>1, <1>2, NothingRead, NoRows, NoFiguresType

LEMMA InitFits == ASSUME Init PROVE Inv
<1>1. report = NoReport /\ quiet = TRUE /\ Ledger!Init
  BY DEF Init
<1>2. /\ report.at = "idle" /\ report.user = None /\ report.link = None
      /\ report.from = None /\ report.to = None /\ report.period = None
      /\ report.daily = <<>> /\ report.monthly = <<>> /\ report.countries = <<>>
      /\ report.totals = NoFigures
  BY <1>1 DEF NoReport
<1>3. RequestFits
  <2>1. IsReport
    BY <1>1, <1>2 DEF IsReport, NoReport
  <2> QED BY <1>2, <2>1 DEF RequestFits, PeriodFits, ValidationIsExact
<1>4. /\ \A k \in Links \X Days \X Countries : daily[k] = NoFigures
      /\ \A k \in Links \X Ledger!Months : monthly[k] = NoFigures
      /\ LedgerType
  BY <1>1, NoFiguresType DEF Ledger!Init, Ledger!Zero, NoFigures, LedgerType
<1>5. LedgerFits
  <2>1. \A k \in Links \X Days \X Countries : FewerVisitors(daily[k])
    BY <1>4 DEF FewerVisitors, NoFigures
  <2>2. ASSUME NEW l \in Links, NEW m \in Ledger!Months
        PROVE  monthly[<<l, m>>] = Sum(daily, MonthRows(l, m))
    <3> DEFINE K == MonthRows(l, m)
    <3>1. K \in SUBSET Rows(l)
      BY DEF MonthRows
    <3>2. \A k \in K : daily[k] = NoFigures
      BY <1>4, <3>1 DEF Rows
    <3>3. IsFiniteSet(K)
      BY <3>1, RowsAreFinite
    <3> HIDE DEF K
    <3>4. IsTable(daily, K)
      BY <3>2, <3>3, NoFiguresType DEF IsTable
    <3>5. Sum(daily, K) = Sum(daily, {})
      BY <3>2, <3>4, SumWithZeros
    <3> QED BY <1>4, <3>5, SumOfNone DEF K
  <2> QED BY <1>4, <2>1, <2>2 DEF LedgerFits
<1>6. TypeOK
  <2>1. quiet \in BOOLEAN /\ report.at \in Steps
    BY <1>1, <1>2 DEF Steps
  <2> QED BY <1>2, <2>1, NoRows, NoFiguresType DEF TypeOK
<1>7. TablesFit /\ DaysFit /\ MonthsFit /\ CountriesFit /\ TotalsFit
  BY <1>2 DEF TablesFit, Reports, DaysFit, MonthsFit, CountriesFit, TotalsFit
<1> QED BY <1>3, <1>5, <1>6, <1>7 DEF Inv

LEMMA ResolvePeriodFits ==
  ASSUME Inv,
         NEW u \in Users, NEW l \in Links \cup {None},
         NEW from \in QueryDates \cup {None}, NEW to \in QueryDates \cup {None},
         ResolvePeriod(u, l, from, to)
  PROVE  Inv'
<1>1. /\ quiet' = quiet /\ ledger' = ledger /\ report'.link = l
      /\ report'.daily = <<>> /\ report'.monthly = <<>> /\ report'.countries = <<>>
      /\ report'.totals = NoFigures /\ report'.at \in {"link", "refused"}
  BY ResolvePeriodStep, Zenon
<1>2. LedgerFits' /\ today \in Days /\ quiet' \in BOOLEAN
  BY <1>1, LedgerIsKept DEF Inv, LedgerFits, LedgerType, TypeOK
<1>3. RequestFits'
  BY <1>2, ResolvedQuery
<1>4. report'.at \in {"idle", "link", "daily", "refused"} /\ report'.at # "daily"
  BY <1>1
<1> QED BY <1>1, <1>2, <1>3, <1>4, NothingRead, NoRows, NoFiguresType

LEMMA FindLinkFits ==
  ASSUME Inv, FindLink
  PROVE  Inv'
<1>1. /\ IsReport /\ LedgerFits /\ TypeOK /\ RequestFits
  BY DEF Inv, RequestFits
<1>2. CASE report' = NoReport
  <2>1. quiet' = quiet /\ ledger' = ledger
    BY DEF FindLink
  <2> QED BY <1>1, <1>2, <2>1, Cleared DEF TypeOK
<1>3. CASE report' # NoReport
  <2>1. /\ report.at = "link" /\ quiet' = quiet /\ ledger' = ledger
        /\ IsReport' /\ SameRequest /\ report'.at = "daily" /\ report.link # None
        /\ report'.daily = report.daily /\ report'.monthly = report.monthly
        /\ report'.countries = report.countries /\ report'.totals = report.totals
    BY <1>1, <1>3, FindLinkStep
  <2>2. RequestFits' /\ LedgerFits'
    BY <1>1, <2>1, QueryIsKept, LedgerIsKept
  <2>3. report'.link \in Links
    BY <1>1, <2>1 DEF TypeOK, SameRequest
  <2> QED BY <1>1, <2>1, <2>2, <2>3, NothingRead DEF TypeOK
<1> QED BY <1>2, <1>3

\* A statement is not the first step of its request and leaves the ledger alone.
LEMMA ReadingKeeps ==
  ASSUME Inv, IsReport', SameRequest, ledger' = ledger, quiet' \in BOOLEAN,
         report.at \notin {"idle", "refused"},
         report'.at \in Reports,
         DOMAIN report'.daily \subseteq Days,
         DOMAIN report'.monthly \subseteq Ledger!Months,
         DOMAIN report'.countries \subseteq Countries,
         report'.totals \in Figures
  PROVE  RequestFits' /\ LedgerFits' /\ TypeOK'
<1>1. report'.at \notin {"idle", "refused"} /\ report'.at \in Steps
  BY DEF Reports, Steps
<1>2. RequestFits' /\ LedgerFits'
  BY <1>1, QueryIsKept, LedgerIsKept DEF Inv
<1>3. RealDate(report'.period.from) /\ RealDate(report'.period.to)
  BY <1>1, <1>2 DEF RequestFits, PeriodFits, IsPeriod
<1>4. report'.link \in Links \cup {None}
  BY DEF Inv, TypeOK, SameRequest
<1> QED BY <1>1, <1>2, <1>3, <1>4 DEF TypeOK

LEMMA ReadDailyKeeps ==
  ASSUME Inv, ReadDaily
  PROVE  Inv'
<1>1. /\ IsReport' /\ SameRequest /\ report.at = "daily" /\ report'.at = "monthly"
      /\ report'.monthly = report.monthly /\ report'.countries = report.countries
      /\ report'.totals = report.totals
      /\ quiet' = TRUE /\ ledger' = ledger
  BY ReadDailyStep, Zenon DEF Inv, RequestFits
<1>2. TablesFit' /\ DaysFit' /\ DOMAIN report'.daily \subseteq Days
  BY ReadDailyFits
<1>3. /\ quiet' \in BOOLEAN /\ report'.at \in Reports
      /\ DOMAIN report'.monthly \subseteq Ledger!Months
      /\ DOMAIN report'.countries \subseteq Countries
      /\ report'.totals \in Figures
  BY <1>1 DEF Inv, TypeOK, Reports
<1>4. RequestFits' /\ LedgerFits' /\ TypeOK'
  BY <1>1, <1>2, <1>3, ReadingKeeps
<1>5. MonthsFit' /\ CountriesFit' /\ TotalsFit'
  BY <1>1 DEF MonthsFit, CountriesFit, TotalsFit
<1> QED BY <1>2, <1>4, <1>5 DEF Inv

LEMMA ReadMonthlyKeeps ==
  ASSUME Inv, ReadMonthly
  PROVE  Inv'
<1>1. /\ IsReport' /\ SameRequest /\ report.at = "monthly" /\ report'.at = "countries"
      /\ report'.daily = report.daily /\ report'.countries = report.countries
      /\ report'.totals = report.totals
      /\ quiet' = quiet /\ ledger' = ledger
  BY ReadMonthlyStep, Zenon DEF Inv, RequestFits
<1>2. /\ TablesFit' /\ DaysFit' /\ MonthsFit'
      /\ DOMAIN report'.monthly \subseteq Ledger!Months
  BY ReadMonthlyFits
<1>3. /\ quiet' \in BOOLEAN /\ report'.at \in Reports
      /\ DOMAIN report'.daily \subseteq Days
      /\ DOMAIN report'.countries \subseteq Countries
      /\ report'.totals \in Figures
  BY <1>1 DEF Inv, TypeOK, Reports
<1>4. RequestFits' /\ LedgerFits' /\ TypeOK'
  BY <1>1, <1>2, <1>3, ReadingKeeps
<1>5. CountriesFit' /\ TotalsFit'
  BY <1>1 DEF CountriesFit, TotalsFit
<1> QED BY <1>2, <1>4, <1>5 DEF Inv

LEMMA ReadCountriesKeeps ==
  ASSUME Inv, ReadCountries
  PROVE  Inv'
<1>1. /\ IsReport' /\ SameRequest /\ report.at = "countries" /\ report'.at = "totals"
      /\ report'.daily = report.daily /\ report'.monthly = report.monthly
      /\ report'.totals = report.totals
      /\ quiet' = quiet /\ ledger' = ledger
  BY ReadCountriesStep, Zenon DEF Inv, RequestFits
<1>2. /\ TablesFit' /\ MonthsFit' /\ CountriesFit'
      /\ DOMAIN report'.countries \subseteq Countries
  BY ReadCountriesFits
<1>3. /\ quiet' \in BOOLEAN /\ report'.at \in Reports
      /\ DOMAIN report'.daily \subseteq Days
      /\ DOMAIN report'.monthly \subseteq Ledger!Months
      /\ report'.totals \in Figures
  BY <1>1 DEF Inv, TypeOK, Reports
<1>4. RequestFits' /\ LedgerFits' /\ TypeOK'
  BY <1>1, <1>2, <1>3, ReadingKeeps
<1>5. DaysFit' /\ TotalsFit'
  BY <1>1 DEF DaysFit, TotalsFit
<1> QED BY <1>2, <1>4, <1>5 DEF Inv

LEMMA ReadTotalsKeeps ==
  ASSUME Inv, ReadTotals
  PROVE  Inv'
<1>1. /\ IsReport' /\ SameRequest /\ report.at = "totals" /\ report'.at = "answered"
      /\ report'.daily = report.daily /\ report'.monthly = report.monthly
      /\ report'.countries = report.countries
      /\ quiet' = quiet /\ ledger' = ledger
  BY ReadTotalsStep, Zenon DEF Inv, RequestFits
<1>2. /\ TablesFit' /\ MonthsFit' /\ CountriesFit' /\ TotalsFit'
      /\ report'.totals \in Figures
  BY ReadTotalsFits
<1>3. /\ quiet' \in BOOLEAN /\ report'.at \in Reports
      /\ DOMAIN report'.daily \subseteq Days
      /\ DOMAIN report'.monthly \subseteq Ledger!Months
      /\ DOMAIN report'.countries \subseteq Countries
  BY <1>1 DEF Inv, TypeOK, Reports
<1>4. RequestFits' /\ LedgerFits' /\ TypeOK'
  BY <1>1, <1>2, <1>3, ReadingKeeps
<1>5. DaysFit'
  BY <1>1 DEF DaysFit
<1> QED BY <1>2, <1>4, <1>5 DEF Inv

LEMMA RecordingKeeps ==
  ASSUME Inv, Recording
  PROVE  Inv'
<1>1. /\ report' = report /\ Ledger!Next
      /\ quiet' \in BOOLEAN
  BY DEF Recording, Inv, TypeOK
<1>2. RequestFits'
  BY <1>1 DEF Inv, RequestFits, IsReport, PeriodFits, ValidationIsExact, AllowedQuery
<1>3. LedgerFits'
  BY <1>1, LedgerStep DEF Inv
<1>4. TypeOK'
  BY <1>1 DEF Inv, TypeOK
<1> QED BY <1>2, <1>3, <1>4, RecordingFits DEF Inv

LEMMA NextFits == ASSUME Inv, [Next]_vars PROVE Inv'
<1>1. ASSUME NEW u \in Users, NEW l \in Links \cup {None},
             NEW from \in QueryDates \cup {None}, NEW to \in QueryDates \cup {None},
             ResolvePeriod(u, l, from, to)
      PROVE  Inv'
  BY <1>1, ResolvePeriodFits
<1>2. CASE FindLink
  BY <1>2, FindLinkFits
<1>3. CASE ReadDaily
  BY <1>3, ReadDailyKeeps
<1>4. CASE ReadMonthly
  BY <1>4, ReadMonthlyKeeps
<1>5. CASE ReadCountries
  BY <1>5, ReadCountriesKeeps
<1>6. CASE ReadTotals
  BY <1>6, ReadTotalsKeeps
<1>7. CASE Answer
  <2>1. report' = NoReport /\ quiet' = quiet /\ ledger' = ledger
    BY <1>7 DEF Answer
  <2> QED BY <2>1, Cleared DEF Inv, TypeOK
<1>8. CASE Recording
  BY <1>8, RecordingKeeps
<1>9. CASE UNCHANGED vars
  <2>1. report' = report /\ quiet' = quiet /\ ledger' = ledger /\ daily' = daily
    BY <1>9 DEF vars, ledger
  <2>2. RequestFits' /\ LedgerFits' /\ TypeOK' /\ TablesFit'
    <3>1. RequestFits'
      BY <2>1 DEF Inv, RequestFits, IsReport, PeriodFits, ValidationIsExact,
                  AllowedQuery
    <3>2. LedgerFits'
      BY <2>1, LedgerIsKept DEF Inv
    <3>3. TypeOK'
      BY <2>1 DEF Inv, TypeOK
    <3>4. SameRequest
      BY <2>1 DEF SameRequest
    <3>5. DaysWithin' = DaysWithin
      BY <3>4, SamePeriod
    <3>6. TablesFit'
      BY <2>1, <3>5 DEF Inv, TablesFit
    <3> QED BY <3>1, <3>2, <3>3, <3>6
  <2>3. /\ DaysWithin' = DaysWithin /\ PeriodRows' = PeriodRows
        /\ \A d : DayRows(d)' = DayRows(d)
        /\ \A m : WholeMonth(m)' <=> WholeMonth(m)
    <3>1. SameRequest
      BY <2>1 DEF SameRequest
    <3> QED BY <3>1, SamePeriod
  <2>4. /\ \A m : InMonth(m)' = InMonth(m)
        /\ DailyTotal' = DailyTotal /\ CountriesTotal' = CountriesTotal
    BY <2>1 DEF InMonth, DailyTotal, CountriesTotal
  <2>5. DaysFit'
    BY <2>1, <2>3 DEF Inv, DaysFit
  <2>6. MonthsFit'
    BY <2>1, <2>3, <2>4 DEF Inv, MonthsFit
  <2>7. CountriesFit'
    BY <2>1, <2>3, <2>4 DEF Inv, CountriesFit
  <2>8. TotalsFit'
    BY <2>1, <2>4 DEF Inv, TotalsFit
  <2> QED BY <2>2, <2>5, <2>6, <2>7, <2>8 DEF Inv
<1> QED BY <1>1, <1>2, <1>3, <1>4, <1>5, <1>6, <1>7, <1>8, <1>9 DEF Next

-----------------------------------------------------------------------------
(* The series                                                              *)

\* The series of a report, by the numbers of their days and months.
LEMMA SeriesOfPeriod ==
  ASSUME IsPeriod(report.period.from, report.period.to)
  PROVE  LET first == DayNumber(report.period.from)
             last == DayNumber(report.period.to)
             k == MonthNumber(MonthOfDate(report.period.from))
             n == MonthNumber(MonthOfDate(report.period.to))
         IN  /\ first \in Nat /\ last \in Nat /\ first <= last
             /\ DOMAIN DailySeries = 1..(last - first + 1)
             /\ \A i \in 1..(last - first + 1) :
                  DailySeries[i]
                    = [date |-> CalendarDate(first + i - 1),
                       point |-> Found(report.daily,
                                       DayNumber(CalendarDate(first + i - 1)))]
             /\ k \in Nat /\ n \in Nat /\ n - k + 1 <= 12
             /\ DOMAIN MonthlySeries = {j \in 1..13 : k + j - 1 <= n}
             /\ \A i \in DOMAIN MonthlySeries :
                  MonthlySeries[i].month = MonthAt(k + i - 1)
<1> DEFINE from == report.period.from
           to == report.period.to
           first == DayNumber(from)
           last == DayNumber(to)
           k == MonthNumber(MonthOfDate(from))
           n == MonthNumber(MonthOfDate(to))
<1>1. /\ IsDate(from) /\ IsDate(to) /\ first <= last
      /\ InclusiveCalendarMonths(from, to) <= MaxInclusiveCalendarMonths
  BY DEF IsPeriod
<1>2. first \in Nat /\ last \in Nat
  BY <1>1, DayNumberIsInMonth
<1>3. /\ MonthOfDate(from) \in Month /\ MonthOfDate(to) \in Month
      /\ from.y \in Nat /\ from.m \in 1..12 /\ to.y \in Nat /\ to.m \in 1..12
  BY <1>1 DEF IsDate, MonthOfDate, Month
<1>4. k \in Nat /\ n \in Nat
  BY <1>3, MonthNumbers
<1>5. n - k + 1 <= 12
  <2> HIDE DEF from, to
  <2>1. k = 12 * from.y + (from.m - 1) /\ n = 12 * to.y + (to.m - 1)
    BY DEF MonthNumber, MonthOfDate
  <2>2. (to.y - from.y) * 12 + (to.m - from.m) + 1 <= 12
    BY <1>1 DEF InclusiveCalendarMonths, MaxInclusiveCalendarMonths
  <2>3. \A a, b \in Nat, c, e \in 1..12 :
          (b - a) * 12 + (e - c) + 1 <= 12
            => (12 * b + (e - 1)) - (12 * a + (c - 1)) + 1 <= 12
    OBVIOUS
  <2>4. (12 * to.y + (to.m - 1)) - (12 * from.y + (from.m - 1)) + 1 <= 12
    BY <1>3, <2>2, <2>3
  <2> HIDE DEF k, n
  <2> QED BY <2>1, <2>4
<1>6. DailySeries =
        [i \in 1..(last - first + 1) |->
           [date |-> CalendarDate(first + i - 1),
            point |-> Found(report.daily, DayNumber(CalendarDate(first + i - 1)))]]
  <2> DEFINE dates == EachUtcDate(from, to)
  <2>1. DailySeries =
          [i \in DOMAIN dates |->
             [date |-> dates[i], point |-> Found(report.daily, DayNumber(dates[i]))]]
    BY DEF DailySeries
  <2>2. dates = [i \in 1..(last - first + 1) |-> CalendarDate(first + i - 1)]
    BY DEF EachUtcDate
  <2> HIDE DEF dates, first, last
  <2> QED BY <2>1, <2>2
<1>7. /\ DOMAIN MonthlySeries = {j \in 1..13 : k + j - 1 <= n}
      /\ \A i \in DOMAIN MonthlySeries : MonthlySeries[i].month = MonthAt(k + i - 1)
  <2> DEFINE months == EachUtcMonth(MonthOfDate(from), MonthOfDate(to))
  <2>1. MonthlySeries =
          [i \in DOMAIN months |->
             [month |-> months[i], point |-> Found(report.monthly, months[i])]]
    BY DEF MonthlySeries
  <2>2. months = [i \in {j \in 1..13 : k + j - 1 <= n} |-> MonthAt(k + i - 1)]
    BY <1>3, MonthsListed
  <2> HIDE DEF months, k, n
  <2> QED BY <2>1, <2>2
<1> QED BY <1>1, <1>2, <1>4, <1>5, <1>6, <1>7

LEMMA LengthOf ==
  ASSUME NEW n \in Nat, NEW s, s = [i \in 1..n |-> s[i]]
  PROVE  Len(s) = n
<1>1. DOMAIN s = 1..n
  OBVIOUS
<1> QED BY <1>1

\* The series of an accepted period, whatever has been read.
LEMMA SeriesFit ==
  ASSUME RequestFits, report.at \notin {"idle", "refused"}
  PROVE  LET s == DailySeries
             months == MonthlySeries
             dates == [i \in DOMAIN s |-> s[i].date]
         IN  /\ dates[1] = report.period.from
             /\ dates[Len(dates)] = report.period.to
             /\ \A i \in 1..(Len(dates) - 1) : dates[i + 1] = Tomorrow(dates[i])
             /\ {months[i].month : i \in DOMAIN months} =
                  {MonthOfDate(dates[i]) : i \in DOMAIN dates}
             /\ \A i, j \in DOMAIN months :
                  months[i].month = months[j].month => i = j
             /\ report.from = None => Len(dates) = 30
<1> DEFINE s == DailySeries
           months == MonthlySeries
           dates == [i \in DOMAIN s |-> s[i].date]
           from == report.period.from
           to == report.period.to
           first == DayNumber(from)
           last == DayNumber(to)
           k == MonthNumber(MonthOfDate(from))
           n == MonthNumber(MonthOfDate(to))
           len == last - first + 1
<1>1. /\ IsPeriod(from, to) /\ IsDate(from) /\ IsDate(to)
      /\ report.from = None => last = first + 29
  BY DEF RequestFits, PeriodFits, IsPeriod
<1>2. /\ first \in Nat /\ last \in Nat /\ first <= last
      /\ DOMAIN s = 1..len
      /\ \A i \in 1..len : s[i].date = CalendarDate(first + i - 1)
      /\ k \in Nat /\ n \in Nat /\ n - k + 1 <= 12
      /\ DOMAIN months = {j \in 1..13 : k + j - 1 <= n}
      /\ \A i \in DOMAIN months : months[i].month = MonthAt(k + i - 1)
  <2>1. /\ first \in Nat /\ last \in Nat /\ first <= last
        /\ DOMAIN s = 1..len
        /\ \A i \in 1..len :
             s[i] = [date |-> CalendarDate(first + i - 1),
                     point |-> Found(report.daily,
                                     DayNumber(CalendarDate(first + i - 1)))]
        /\ k \in Nat /\ n \in Nat /\ n - k + 1 <= 12
        /\ DOMAIN months = {j \in 1..13 : k + j - 1 <= n}
        /\ \A i \in DOMAIN months : months[i].month = MonthAt(k + i - 1)
    BY <1>1, SeriesOfPeriod
  <2> HIDE DEF s, months, first, last, k, n
  <2> QED BY <2>1
<1>3. CalendarDate(first) = from /\ CalendarDate(last) = to
  BY <1>1, CalendarDateIsInverse
<1>4. MonthOfDate(from) \in Month /\ MonthOfDate(to) \in Month
  BY <1>1, DayNumberIsInMonth DEF IsDate, MonthOfDate, Month
<1>5. /\ \A d \in first..last :
           /\ MonthOfDate(CalendarDate(d)) \in Month
           /\ k <= MonthNumber(MonthOfDate(CalendarDate(d)))
           /\ MonthNumber(MonthOfDate(CalendarDate(d))) <= n
      /\ \A x \in Month :
           k <= MonthNumber(x) /\ MonthNumber(x) <= n
           => \E d \in first..last : MonthOfDate(CalendarDate(d)) = x
  BY <1>1, <1>2, MonthsOfDates
<1> HIDE DEF s, months, first, last, k, n
<1>5a. k \in Nat /\ n \in Nat /\ n - k + 1 <= 12
  BY <1>2
<1>6. len \in Nat /\ 1 \in 1..len /\ len \in 1..len
  BY <1>2
<1>7. dates = [i \in 1..len |-> CalendarDate(first + i - 1)]
  BY <1>2
<1> HIDE DEF dates
<1>8. Len(dates) = len
  <2> HIDE DEF len
  <2>1. dates = [i \in 1..len |-> dates[i]]
    BY <1>7
  <2> QED BY <1>6, <2>1, LengthOf
<1>9. dates[1] = from /\ dates[Len(dates)] = to
  <2>1. first + 1 - 1 = first /\ first + len - 1 = last
    BY <1>2
  <2>2. dates[1] = CalendarDate(first + 1 - 1)
    BY <1>6, <1>7
  <2>3. dates[len] = CalendarDate(first + len - 1)
    BY <1>6, <1>7
  <2> HIDE DEF len
  <2> QED BY <1>3, <1>8, <2>1, <2>2, <2>3
<1>10. ASSUME NEW i \in 1..(Len(dates) - 1)
       PROVE  dates[i + 1] = Tomorrow(dates[i])
  <2>1. /\ i \in 1..len /\ i + 1 \in 1..len /\ first + i - 1 \in Nat
        /\ first + (i + 1) - 1 = (first + i - 1) + 1
    BY <1>2, <1>8
  <2>2. /\ dates[i] = CalendarDate(first + i - 1)
        /\ dates[i + 1] = CalendarDate((first + i - 1) + 1)
    BY <1>7, <2>1
  <2> QED BY <2>1, <2>2, DatesAdvance
<1>11. ASSUME NEW i \in DOMAIN months
       PROVE  \E j \in DOMAIN dates : MonthOfDate(dates[j]) = months[i].month
  <2> DEFINE x == MonthAt(k + i - 1)
  <2>1. k + i - 1 \in Nat /\ k <= k + i - 1 /\ k + i - 1 <= n
    <3>1. i \in 1..13 /\ k + i - 1 <= n
      BY <1>2
    <3> QED BY <1>5a, <3>1
  <2>2. x \in Month /\ MonthNumber(x) = k + i - 1
    BY <2>1, MonthNumbers
  <2> HIDE DEF x
  <2>3. PICK d \in first..last : MonthOfDate(CalendarDate(d)) = x
    BY <1>5, <2>1, <2>2
  <2>4. d - first + 1 \in 1..len /\ first + (d - first + 1) - 1 = d
    BY <1>2, <2>3
  <2>5. dates[d - first + 1] = CalendarDate(d)
    BY <1>7, <2>4
  <2>6. months[i].month = x
    BY <1>2 DEF x
  <2> QED BY <1>7, <2>3, <2>4, <2>5, <2>6
<1>12. ASSUME NEW j \in DOMAIN dates
       PROVE  \E i \in DOMAIN months : MonthOfDate(dates[j]) = months[i].month
  <2> DEFINE x == MonthOfDate(dates[j])
             i == MonthNumber(x) - k + 1
  <2>1. j \in 1..len /\ dates[j] = CalendarDate(first + j - 1)
    BY <1>7
  <2>2. first + j - 1 \in first..last
    BY <1>2, <2>1
  <2>3. x \in Month /\ k <= MonthNumber(x) /\ MonthNumber(x) <= n
    BY <1>5, <2>1, <2>2
  <2>4. MonthNumber(x) \in Nat /\ MonthAt(MonthNumber(x)) = x
    BY <2>3, MonthNumbers
  <2> HIDE DEF x
  <2>5. i \in 1..13 /\ k + i - 1 = MonthNumber(x)
    <3>1. \A a \in Nat : k <= a /\ a <= n => a - k + 1 \in 1..13 /\ k + (a - k + 1) - 1 = a
      BY <1>5a
    <3> QED BY <2>3, <2>4, <3>1
  <2> HIDE DEF i
  <2>6. i \in DOMAIN months
    BY <1>2, <2>3, <2>5
  <2>7. months[i].month = MonthAt(MonthNumber(x))
    BY <1>2, <2>5, <2>6
  <2> QED BY <2>4, <2>6, <2>7 DEF x
<1>13. {months[i].month : i \in DOMAIN months} =
         {MonthOfDate(dates[i]) : i \in DOMAIN dates}
  BY <1>11, <1>12
<1>14. ASSUME NEW i \in DOMAIN months, NEW j \in DOMAIN months,
              months[i].month = months[j].month
       PROVE  i = j
  <2>1. i \in 1..13 /\ j \in 1..13
    BY <1>2
  <2>2. MonthAt(k + i - 1) = MonthAt(k + j - 1)
    BY <1>2, <1>14
  <2>3. k + i - 1 \in Nat /\ k + j - 1 \in Nat
    BY <1>5a, <2>1
  <2>4. k + i - 1 = k + j - 1
    BY <2>2, <2>3, MonthNumbers
  <2> QED BY <1>5a, <2>1, <2>4
<1>15. report.from = None => Len(dates) = 30
  BY <1>1, <1>2, <1>8 DEF first, last
<1> QED BY <1>9, <1>10, <1>13, <1>14, <1>15 DEF s, months, dates

LEMMA SeriesShowWhatWasRead ==
  ASSUME RequestFits, TablesFit, report.at = "answered", NEW d \in DOMAIN report.daily
  PROVE  DailySeries[d - DayNumber(report.period.from) + 1]
           = [date |-> CalendarDate(d), point |-> report.daily[d]]
<1> DEFINE first == DayNumber(report.period.from)
           last == DayNumber(report.period.to)
           i == d - first + 1
<1>1. IsPeriod(report.period.from, report.period.to)
  BY DEF RequestFits, PeriodFits
<1>2. /\ first \in Nat /\ last \in Nat
      /\ \A j \in 1..(last - first + 1) :
           DailySeries[j]
             = [date |-> CalendarDate(first + j - 1),
                point |-> Found(report.daily,
                                DayNumber(CalendarDate(first + j - 1)))]
  BY <1>1, SeriesOfPeriod
<1>3. d \in Days /\ first <= d /\ d <= last
  BY DEF TablesFit, Reports, DaysWithin
<1>4. d \in Nat
  BY <1>3, DaysAndCountries
<1>5. DayNumber(CalendarDate(d)) = d
  BY <1>4, CalendarDateIsDate
<1> HIDE DEF first, last
<1>6. i \in 1..(last - first + 1) /\ first + i - 1 = d
  BY <1>2, <1>3, <1>4
<1> HIDE DEF i
<1>7. DailySeries[i] = [date |-> CalendarDate(d), point |-> Found(report.daily, d)]
  BY <1>2, <1>5, <1>6
<1> QED BY <1>7 DEF i, first, Found

-----------------------------------------------------------------------------
(* What the runs check, for every value of the constants                   *)

\* The invariant behind the theorems of this module: the accepted period, the
\* tables as sums of one another, and what each statement of
\* TypeormLinkStatisticsRepository.getReport has read compared with the rows as
\* they are now.
THEOREM ReportInvariant == Spec => []Inv
<1>1. Init => Inv
  BY InitFits
<1>2. Inv /\ [Next]_vars => Inv'
  BY NextFits
<1> QED BY <1>1, <1>2, PTL DEF Spec

\* A report in progress has real dates, and its tables hold days, months and
\* countries that exist.
THEOREM ReportTypeCorrect == Spec => []TypeOK
<1>1. Inv => TypeOK
  BY DEF Inv
<1> QED BY <1>1, ReportInvariant, PTL

\* resolvePeriod refuses exactly the queries with one date only, a date no calendar
\* has, the dates in the wrong order or more than twelve calendar months, whatever
\* numbers its dates are made of.
THEOREM QueriesAreValidated == Spec => []ValidationIsExact
<1>1. Inv => ValidationIsExact
  BY DEF Inv, RequestFits
<1> QED BY <1>1, ReportInvariant, PTL

\* The statements of a report run one after the other while accesses are recorded,
\* and the later ones see at least what the earlier ones saw.
THEOREM LaterReadsCoverEarlier == Spec => []LaterStatementsSeeMore
<1>1. Inv => LaterStatementsSeeMore
  BY DEF Inv, LaterStatementsSeeMore, CountriesFit, TotalsFit, MonthsFit, FewerVisitors
<1> QED BY <1>1, ReportInvariant, PTL

\* A report during which nothing is recorded for its link and period adds up.
THEOREM QuietReportsAddUp == Spec => []QuietReportAddsUp
<1>1. Inv => QuietReportAddsUp
  BY DEF Inv, QuietReportAddsUp, TotalsFit, MonthsFit
<1> QED BY <1>1, ReportInvariant, PTL

\* The report has every date of its period once and in calendar order, with the row
\* that was read for it, and every month those dates lie in, once; the default
\* period is the 30 days up to today: what eachUtcDate and eachUtcMonth list.
THEOREM SeriesHaveNoGaps == Spec => []SeriesAreDense
<1>1. ASSUME Inv PROVE SeriesAreDense
  <2>1. RequestFits /\ TablesFit
    BY <1>1 DEF Inv
  <2>2. CASE report.at = "daily"
    BY <2>1, <2>2, SeriesFit DEF SeriesAreDense
  <2>3. CASE report.at = "answered"
    BY <2>1, <2>3, SeriesShowWhatWasRead DEF SeriesAreDense
  <2>4. CASE report.at # "daily" /\ report.at # "answered"
    BY <2>4 DEF SeriesAreDense
  <2> QED BY <2>2, <2>3, <2>4
<1>2. Inv => SeriesAreDense
  BY <1>1
<1> QED BY <1>2, ReportInvariant, PTL
=============================================================================
