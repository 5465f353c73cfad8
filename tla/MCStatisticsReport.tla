------------------------- MODULE MCStatisticsReport -------------------------
(***************************************************************************)
(* Days and query dates at the ends of months, of years and of February,   *)
(* in a leap year and in the years around it; the one link is alice's.     *)
(***************************************************************************)
EXTENDS StatisticsReport, TLC

CONSTANTS a1, a2, l1, br, unknown, p1, alice, bob

Date(y, m, d) == [y |-> y, m |-> m, d |-> d]

MCDays == {DayNumber(Date(2023, 12, 31)), DayNumber(Date(2024, 2, 29)),
           DayNumber(Date(2024, 3, 1))}

MCOwnerOf == [l \in Links |-> alice]

MCQueryDates ==
  {Date(2023, 2, 28), Date(2023, 3, 1), Date(2023, 12, 31), Date(2024, 2, 29),
   Date(2024, 3, 1)}
  \cup {Date(2023, 2, 29), Date(2024, 2, 30), Date(2024, 0, 31),
        Date(2023, 13, 1), Date(99, 12, 31), Date(2100, 2, 29)}

MCSymmetry == Permutations(Accesses) \cup Permutations(Countries)
=============================================================================
