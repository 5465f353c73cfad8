---------------------------- MODULE AccessLedger ----------------------------
(***************************************************************************)
(* What the recording of accesses promises: an access is added to the      *)
(* aggregates of its link at most once and in one step, and a past day     *)
(* that has been closed takes no more.                                     *)
(***************************************************************************)
EXTENDS Naturals, FiniteSets

CONSTANTS Accesses, Links, Countries, Visitors,
          Days,     \* UTC days, in order
          MonthOf,  \* MonthOf[d]: the month of day d
          None

VARIABLES today,    \* the UTC day
          access,   \* access[e]: the payload of access e
          daily, monthly,  \* the aggregate tables
          closed,   \* the closed days of links
          counted,  \* the accesses in the aggregates
          seen      \* visitors per link and day, with their first country

vars == <<today, access, daily, monthly, closed, counted, seen>>

Months == {MonthOf[d] : d \in Days}

Zero == [accesses |-> 0, uniques |-> 0]

Init ==
  /\ today \in Days /\ \A d \in Days : today <= d
  /\ access = [e \in Accesses |-> None]
  /\ daily = [k \in Links \X Days \X Countries |-> Zero]
  /\ monthly = [k \in Links \X Months |-> Zero]
  /\ closed = {} /\ counted = {} /\ seen = {}

NextDay ==
  /\ \E d \in Days : d > today /\ today' = d
  /\ UNCHANGED <<access, daily, monthly, closed, counted, seen>>

\* An eligible redirect is answered.
Redirected(e) ==
  /\ access[e] = None
  /\ \E l \in Links, c \in Countries, v \in Visitors :
       access' = [access EXCEPT ![e] =
                   [link |-> l, day |-> today, country |-> c, visitor |-> v]]
  /\ UNCHANGED <<today, daily, monthly, closed, counted, seen>>

FirstVisit(p) ==
  ~\E s \in seen : s.link = p.link /\ s.day = p.day /\ s.visitor = p.visitor

Plus(row, new) ==
  [accesses |-> row.accesses + 1,
   uniques |-> row.uniques + IF new THEN 1 ELSE 0]

\* An access counts for its day, its month and its country, its visitor once a
\* day and for the first country.
Count(e) ==
  LET p == access[e]
  IN  /\ p # None /\ e \notin counted
      /\ <<p.link, p.day>> \notin closed
      /\ counted' = counted \cup {e}
      /\ seen' = seen \cup IF FirstVisit(p) THEN {p} ELSE {}
      /\ daily' = [daily EXCEPT ![<<p.link, p.day, p.country>>] =
                                    Plus(@, FirstVisit(p))]
      /\ monthly' = [monthly EXCEPT ![<<p.link, MonthOf[p.day]>>] =
                                        Plus(@, FirstVisit(p))]
      /\ UNCHANGED <<today, access, closed>>

\* Only a past day on which something was counted is ever closed.
Close(l, d) ==
  /\ d < today
  /\ \E e \in counted : access[e].link = l /\ access[e].day = d
  /\ closed' = closed \cup {<<l, d>>}
  /\ UNCHANGED <<today, access, daily, monthly, counted, seen>>

Next ==
  \/ NextDay
  \/ \E e \in Accesses : Redirected(e) \/ Count(e)
  \/ \E l \in Links, d \in Days : Close(l, d)

Spec == Init /\ [][Next]_vars
=============================================================================
