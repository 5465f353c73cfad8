-------------------------- MODULE StatisticsReport --------------------------
(***************************************************************************)
(* The report of a link: LinkStatisticsService.getReport and the four      *)
(* statements of TypeormLinkStatisticsRepository.getReport, which run one  *)
(* after the other outside a transaction while accesses are recorded.      *)
(* Recording is the ledger that LinkStatistics implements.  Reports only   *)
(* read, so one of them is enough.                                         *)
(***************************************************************************)
EXTENDS ReportPeriod, Sequences, FiniteSets, FiniteSetsExt

CONSTANTS Accesses, Links, Countries, Visitors,
          Days,        \* day numbers on which the model lets time stand
          Users,
          OwnerOf,     \* OwnerOf[l]: the account of link l
          QueryDates,  \* dates of the pattern \d{4}-\d{2}-\d{2} that clients send
          None

MonthOf == [d \in Days |-> MonthOfDate(CalendarDate(d))]

\* new Date() counts from here.
Epoch == DayNumber([y |-> 1970, m |-> 1, d |-> 1])

ASSUME ReportAssumption ==
  /\ Days \subseteq Nat /\ IsFiniteSet(Days) /\ IsFiniteSet(Countries)
  /\ \A d \in Days : d >= Epoch
  /\ OwnerOf \in [Links -> Users]
  /\ QueryDates \subseteq [y: Nat, m: Nat, d: Nat]
  /\ None \notin QueryDates \cup Links

VARIABLES today, access, daily, monthly, closed, counted, seen,  \* the ledger
          report,  \* the request, and what its statements have read
          quiet    \* history: nothing has been recorded for its link and period
                   \* since the first statement

ledger == <<today, access, daily, monthly, closed, counted, seen>>
vars == <<ledger, report, quiet>>

Ledger == INSTANCE AccessLedger WITH Days <- Days, MonthOf <- MonthOf

Reading == {"monthly", "countries", "totals"}

Steps == {"idle", "link", "daily", "monthly", "countries", "totals", "answered",
          "refused"}

Figures == [accesses: Nat, uniques: Nat]

NoFigures == [accesses |-> 0, uniques |-> 0]

NoReport == [at |-> "idle", user |-> None, link |-> None, from |-> None,
             to |-> None, period |-> None, daily |-> <<>>, monthly |-> <<>>,
             countries |-> <<>>, totals |-> NoFigures]

\* The dates a report can be asked for: those of the calendar, from the year on
\* that Date.UTC does not take for one of the 1900s.
RealDate(date) ==
  date.y >= 100 /\ date.m \in 1..12 /\ date.d \in 1..DaysIn(date.y, date.m)

TypeOK ==
  /\ report.at \in Steps
  /\ report.link \in Links \cup {None}
  /\ report.at \in Steps \ {"idle", "refused"} =>
       RealDate(report.period.from) /\ RealDate(report.period.to)
  /\ DOMAIN report.daily \subseteq Days
  /\ DOMAIN report.monthly \subseteq Ledger!Months
  /\ DOMAIN report.countries \subseteq Countries
  /\ report.totals \in Figures
  /\ quiet \in BOOLEAN

Init == Ledger!Init /\ report = NoReport /\ quiet = TRUE

SumOf(column, K) == MapThenSumSet(LAMBDA k : column[k], K)

Sum(f, K) == [accesses |-> SumOf([k \in K |-> f[k].accesses], K),
              uniques |-> SumOf([k \in K |-> f[k].uniques], K)]

-----------------------------------------------------------------------------
(* LinkStatisticsService.getReport                                         *)

\* resolvePeriod: both dates or neither.
ResolvePeriod(u, l, from, to) ==
  /\ report.at = "idle"
  /\ LET asked == [NoReport EXCEPT !.user = u, !.link = l, !.from = from,
                                   !.to = to]
         accepted(p) == report' = [asked EXCEPT !.at = "link", !.period = p]
     IN  CASE from = None /\ to = None -> accepted(DefaultPeriod(CalendarDate(today)))
           [] from # None /\ to # None /\ PeriodAccepted(from, to) ->
                accepted([from |-> from, to |-> to])
           [] OTHER -> report' = [asked EXCEPT !.at = "refused"]
  /\ UNCHANGED <<ledger, quiet>>

\* findById: a link that does not exist or belongs to somebody else ends the
\* request, a deactivated one does not.
FindLink ==
  /\ report.at = "link"
  /\ report' = IF report.link # None /\ OwnerOf[report.link] = report.user
                 THEN [report EXCEPT !.at = "daily"] ELSE NoReport
  /\ UNCHANGED <<ledger, quiet>>

-----------------------------------------------------------------------------
(* TypeormLinkStatisticsRepository.getReport                               *)

\* The totals are read first and the countries last.
TotalsFirst(step) ==
  CASE step = "daily" -> "totals"
    [] step = "totals" -> "monthly"
    [] step = "monthly" -> "countries"
    [] step = "countries" -> "answered"

\* The order in which the statements are awaited.
After(step) ==
  CASE step = "daily" -> "monthly"
    [] step = "monthly" -> "countries"
    [] step = "countries" -> "totals"
    [] step = "totals" -> "answered"

\* "occurredOn" < $3 instead of <=
WithoutLastDay ==
  {d \in Days : /\ DayNumber(report.period.from) <= d
                /\ d < DayNumber(report.period.to)}

\* "occurredOn" >= $2 AND "occurredOn" <= $3
DaysWithin ==
  {d \in Days : /\ DayNumber(report.period.from) <= d
                /\ d <= DayNumber(report.period.to)}

\* Rows of link_daily_aggregates exist where something was counted.
DailyRows == {k \in {report.link} \X DaysWithin \X Countries :
                daily[k].accesses > 0}

\* SUM ... GROUP BY "occurredOn"
ReadDaily ==
  /\ report.at = "daily"
  /\ report' = [report EXCEPT !.at = After("daily"),
       !.daily = [d \in {k[2] : k \in DailyRows} |->
                    Sum(daily, {k \in DailyRows : k[2] = d})]]
  /\ quiet' = TRUE
  /\ UNCHANGED ledger

\* Whole months, also those the period touches in part.
ReadMonthly ==
  /\ report.at = "monthly"
  /\ report' = [report EXCEPT !.at = After("monthly"),
       !.monthly =
         [m \in {x \in Ledger!Months :
                   /\ MonthNotAfter(MonthOfDate(report.period.from), x)
                   /\ MonthNotAfter(x, MonthOfDate(report.period.to))
                   /\ monthly[<<report.link, x>>].accesses > 0} |->
            monthly[<<report.link, m>>]]]
  /\ UNCHANGED <<ledger, quiet>>

\* SUM ... GROUP BY "country"; the order of the rows is left out.
ReadCountries ==
  /\ report.at = "countries"
  /\ report' = [report EXCEPT !.at = After("countries"),
       !.countries = [c \in {k[3] : k \in DailyRows} |->
                        Sum(daily, {k \in DailyRows : k[3] = c})]]
  /\ UNCHANGED <<ledger, quiet>>

ReadTotals ==
  /\ report.at = "totals"
  /\ report' = [report EXCEPT !.at = After("totals"),
                              !.totals = Sum(daily, DailyRows)]
  /\ UNCHANGED <<ledger, quiet>>

Found(rows, key) == IF key \in DOMAIN rows THEN rows[key] ELSE NoFigures

\* A point for every date of the period, zeros where no row was found.
DailySeries ==
  LET dates == EachUtcDate(report.period.from, report.period.to)
  IN  [i \in DOMAIN dates |->
         [date |-> dates[i], point |-> Found(report.daily, DayNumber(dates[i]))]]

MonthlySeries ==
  LET months == EachUtcMonth(MonthOfDate(report.period.from),
                             MonthOfDate(report.period.to))
  IN  [i \in DOMAIN months |->
         [month |-> months[i], point |-> Found(report.monthly, months[i])]]

Answer ==
  /\ report.at \in {"answered", "refused"}
  /\ report' = NoReport
  /\ UNCHANGED <<ledger, quiet>>

\* What the rest of the system does meanwhile.
Recording ==
  /\ Ledger!Next
  /\ quiet' = (quiet /\ (report.at \in Reading =>
                 \A e \in counted' \ counted :
                   access[e].link # report.link \/ access[e].day \notin DaysWithin))
  /\ UNCHANGED report

Next ==
  \/ \E u \in Users, l \in Links \cup {None},
       from, to \in QueryDates \cup {None} : ResolvePeriod(u, l, from, to)
  \/ FindLink
  \/ ReadDaily \/ ReadMonthly \/ ReadCountries \/ ReadTotals
  \/ Answer
  \/ Recording

Spec == Init /\ [][Next]_vars

-----------------------------------------------------------------------------
AllowedQuery ==
  \/ report.from = None /\ report.to = None
  \/ /\ None \notin {report.from, report.to}
     /\ RealDate(report.from) /\ RealDate(report.to)
     /\ DayNumber(report.from) <= DayNumber(report.to)
     /\ DayNumber(report.to) < MonthStart(report.from.y + 1, report.from.m)

\* resolvePeriod refuses exactly the queries that have one date only, a date no
\* calendar has, the dates in the wrong order or more than 12 calendar months.
ValidationIsExact ==
  report.at # "idle" => (report.at = "refused" <=> ~AllowedQuery)

Tomorrow(date) ==
  IF date.d < DaysIn(date.y, date.m) THEN [date EXCEPT !.d = @ + 1]
  ELSE IF date.m < 12 THEN [date EXCEPT !.m = @ + 1, !.d = 1]
  ELSE [y |-> date.y + 1, m |-> 1, d |-> 1]

\* The report has every date of the period once and in calendar order, over month
\* ends, leap days and new years, with the row that was read for it, and every
\* month those dates lie in, once; the default period is the 30 days up to today.
SeriesAreDense ==
  /\ report.at = "daily" =>
       LET s == DailySeries
           months == MonthlySeries
           dates == [i \in DOMAIN s |-> s[i].date]
       IN  /\ dates[1] = report.period.from
           /\ dates[Len(dates)] = report.period.to
           /\ \A i \in 1..(Len(dates) - 1) : dates[i + 1] = Tomorrow(dates[i])
           /\ {months[i].month : i \in DOMAIN months} =
                {MonthOfDate(dates[i]) : i \in DOMAIN dates}
           /\ \A i, j \in DOMAIN months :
                months[i].month = months[j].month => i = j
           /\ report.from = None => Len(dates) = 30
  /\ report.at = "answered" =>
       \A d \in DOMAIN report.daily :
         DailySeries[d - DayNumber(report.period.from) + 1]
           = [date |-> CalendarDate(d), point |-> report.daily[d]]

AtMost(a, b) == a.accesses <= b.accesses /\ a.uniques <= b.uniques

DailyTotal == Sum(report.daily, DOMAIN report.daily)

InMonth(m) == Sum(report.daily, {d \in DOMAIN report.daily : MonthOf[d] = m})

CountriesTotal == Sum(report.countries, DOMAIN report.countries)

\* The statements of a report see the tables at different times, but each sees at
\* least what the ones before it saw: the days never exceed their month, the
\* countries or the totals, the countries never the totals, and no figure has more
\* visitors than accesses.
LaterStatementsSeeMore ==
  report.at = "answered" =>
    /\ AtMost(DailyTotal, CountriesTotal)
    /\ AtMost(CountriesTotal, report.totals)
    /\ \A m \in Ledger!Months : AtMost(InMonth(m), Found(report.monthly, m))
    /\ report.totals.uniques <= report.totals.accesses

\* The period has all days of the month.
WholeMonth(m) ==
  /\ DayNumber(report.period.from) <= MonthStart(m.y, m.m)
  /\ MonthStart(m.y, m.m) + DaysIn(m.y, m.m) - 1 <= DayNumber(report.period.to)

\* A report during which nothing is recorded for its period adds up: days,
\* countries and totals are the same, and a month the period covers is its days.
QuietReportAddsUp ==
  report.at = "answered" /\ quiet =>
    /\ DailyTotal = report.totals /\ CountriesTotal = report.totals
    /\ \A m \in Ledger!Months :
         WholeMonth(m) => InMonth(m) = Found(report.monthly, m)
=============================================================================
