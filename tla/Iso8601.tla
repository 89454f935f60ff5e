------------------------------- MODULE Iso8601 ------------------------------
(***************************************************************************)
(* iso8601_epoch of node-out-of-service.sh: the age of a condition is      *)
(* computed with integer arithmetic in awk, on no library, so it is walked *)
(* here day by day along the Gregorian calendar and compared with a count  *)
(* of the days that passed.  An error of one day is 86400 s, far past      *)
(* every threshold: it would taint a healthy node or none at all.          *)
(***************************************************************************)
EXTENDS Integers

CONSTANT LastYear   \* where the walk ends (a bound)

(* What is assumed of the constants. *)
LastYearAssumption == LastYear \in Nat /\ LastYear >= 1970

VARIABLES y, m, d,  \* the date
          days      \* days since 1970-01-01
vars == <<y, m, d, days>>

(* Mutant: the months are not rounded up.                                  *)
CivilNoRounding(year, month, day) ==
  LET yy  == IF month <= 2 THEN year - 1 ELSE year
      era == (IF yy >= 0 THEN yy ELSE yy - 399) \div 400
      yoe == yy - era * 400
      doy == (153 * (month + (IF month > 2 THEN -3 ELSE 9))) \div 5 + day - 1
  IN era * 146097 + yoe * 365 + yoe \div 4 - yoe \div 100 + doy - 719468

(* days_from_civil: the year starts in March, so that the leap day is its  *)
(* last; eras of 400 years have 146097 days.  awk's int() truncates, which *)
(* is floor for the non-negative years the listing can hold.               *)
DaysFromCivil(year, month, day) ==
  LET yy  == IF month <= 2 THEN year - 1 ELSE year
      era == (IF yy >= 0 THEN yy ELSE yy - 399) \div 400
      yoe == yy - era * 400
      doy == (153 * (month + (IF month > 2 THEN -3 ELSE 9)) + 2) \div 5 + day - 1
  IN era * 146097 + yoe * 365 + yoe \div 4 - yoe \div 100 + doy - 719468

-----------------------------------------------------------------------------
(* The calendar the API server's timestamps follow.                        *)
Leap(year) == year % 4 = 0 /\ (year % 100 # 0 \/ year % 400 = 0)

LastDay(year, month) ==
  CASE month = 2 -> IF Leap(year) THEN 29 ELSE 28
    [] month \in {4, 6, 9, 11} -> 30
    [] OTHER -> 31

Init == y = 1970 /\ m = 1 /\ d = 1 /\ days = 0

SameMonth == d < LastDay(y, m) /\ d' = d + 1 /\ UNCHANGED <<y, m>>
NextMonth == d = LastDay(y, m) /\ m < 12 /\ d' = 1 /\ m' = m + 1 /\ UNCHANGED y
NextYear  == d = LastDay(y, m) /\ m = 12 /\ y < LastYear /\ d' = 1 /\ m' = 1 /\ y' = y + 1

Next == (SameMonth \/ NextMonth \/ NextYear) /\ days' = days + 1

Spec == Init /\ [][Next]_vars
-----------------------------------------------------------------------------
(* The converted date is the number of days since the epoch: over leap     *)
(* years, the century that is no leap year and the one that is.            *)
DaysMatch == DaysFromCivil(y, m, d) = days
=============================================================================
