------------------------------ MODULE DayDiff ------------------------------
(***************************************************************************)
(* appl_snap_day_diff of appl.c: the age in days of a directory, from two  *)
(* dates, by whole-number arithmetic on years that begin in March.  The    *)
(* reference is the calendar itself: a day that walks on from 1 January of *)
(* FirstYear by the rules for month lengths and leap years, and the number *)
(* of steps it took.  C's division and % on numbers that are not negative  *)
(* are \div and %; years from 1 on keep them so.                           *)
(***************************************************************************)
EXTENDS Integers

CONSTANTS FirstYear,  \* the year the walk begins in
          LastYear    \* bound: the last year it walks through

ASSUME DayDiffAssumption ==
  /\ FirstYear \in Nat \ {0}
  /\ LastYear \in Nat

VARIABLES y, m, d,  \* the date reached
          walked    \* days since 1 January of FirstYear

vars == <<y, m, d, walked>>

\* Mutant of DayNumber: no century rule.
DayNumberJulian(year, month, day) ==
  LET m1 == (month + 9) % 12
      y1 == year - m1 \div 10
  IN  365 * y1 + y1 \div 4 + (m1 * 306 + 5) \div 10 + (day - 1)

\* d1 and d2 of appl_snap_day_diff.
DayNumber(year, month, day) ==
  LET m1 == (month + 9) % 12
      y1 == year - m1 \div 10
  IN  365 * y1 + y1 \div 4 - y1 \div 100 + y1 \div 400
        + (m1 * 306 + 5) \div 10 + (day - 1)

day_diff(y1, m1, d1, y2, m2, d2) == DayNumber(y2, m2, d2) - DayNumber(y1, m1, d1)

-----------------------------------------------------------------------------
(* The calendar                                                            *)

Leap(year) == year % 4 = 0 /\ (year % 100 # 0 \/ year % 400 = 0)

Days(year, month) ==
  IF month = 2 THEN IF Leap(year) THEN 29 ELSE 28
  ELSE IF month \in {4, 6, 9, 11} THEN 30 ELSE 31

Init == y = FirstYear /\ m = 1 /\ d = 1 /\ walked = 0

NextDay ==
  /\ d < Days(y, m)
  /\ d' = d + 1
  /\ UNCHANGED <<y, m>>
NextMonth ==
  /\ d = Days(y, m)
  /\ m < 12
  /\ d' = 1 /\ m' = m + 1
  /\ UNCHANGED y
NextYear ==
  /\ d = Days(y, m)
  /\ m = 12
  /\ y < LastYear
  /\ d' = 1 /\ m' = 1 /\ y' = y + 1

Next == (NextDay \/ NextMonth \/ NextYear) /\ walked' = walked + 1

Spec == Init /\ [][Next]_vars

-----------------------------------------------------------------------------
(* Properties                                                              *)

\* On every day of the calendar, over leap years, centuries and the ends of
\* months, the difference computed is the number of days that have passed.
DiffCountsDays ==
  day_diff(FirstYear, 1, 1, y, m, d) = walked
=============================================================================
