--------------------------- MODULE PolicySchedule ---------------------------
(***************************************************************************)
(* The pure core of the policy engine: which policy owns which month of a  *)
(* leave year, what a year should have accrued by a given month, and how   *)
(* much of a leftover survives the year's close (policy-schedule.ts,       *)
(* day-math.ts and the helpers around them).  Every consumer shares these: *)
(* the monthly accrual, the re-anchor, the planner and the year close.     *)
(*                                                                         *)
(* A date is a natural number.  A month has DatesPerMonth of them, and the *)
(* last stands for its second half, from which on a hire no longer counts  *)
(* the month.  A year has MonthsPerYear months, twelve in the code.        *)
(* Amounts are in MonthsPerYear-ths of a day (twelfths), so that one month *)
(* of a rate of R days a year is R units, and no share is ever rounded.    *)
(***************************************************************************)
EXTENDS Integers, FiniteSets, Sequences, FiniteSetsExt

CONSTANTS
  MonthsPerYear,
  DatesPerMonth,
  Policies,
  Terms        \* Terms of each policy, immutable once it is created

NoDate == -1
NoCap  == -1

PolicyTerms ==
  [ vacation      : Nat,                \* vacationDays
    sick          : Nat,                \* sickDays
    raise         : Nat,                \* vacationAnnualIncrement
    every         : Nat \ {0},          \* vacationIncrementEveryYears
    cap           : Nat \cup {NoCap},   \* vacationIncrementCapDays
    probation     : Nat,                \* probationMonths
    paidSick      : BOOLEAN ]           \* paidSickDuringProbation

ASSUME CalendarAssumption ==
  MonthsPerYear \in Nat \ {0} /\ DatesPerMonth \in Nat \ {0, 1}
ASSUME TermsAssumption    == Terms \in [Policies -> PolicyTerms]

LeaveTypes == {"vacation", "sick"}
OneDay     == MonthsPerYear

-----------------------------------------------------------------------------
(* Dates *)

DatesPerYear       == DatesPerMonth * MonthsPerYear
YearOf(d)          == d \div DatesPerYear
MonthOf(d)         == (d % DatesPerYear) \div DatesPerMonth + 1
FirstOfMonth(y, m) == DatesPerYear * y + DatesPerMonth * (m - 1)
FirstOfYear(y)     == FirstOfMonth(y, 1)
LastOfYear(y)      == FirstOfYear(y + 1) - 1

\* The half-month rule: the second half of a month belongs to the next one.
EffectiveMonth(d) ==
  IF (d + 1) % DatesPerMonth = 0 THEN MonthOf(d) + 1 ELSE MonthOf(d)

AddMonths(d, n) == d + DatesPerMonth * n

-----------------------------------------------------------------------------
(* The timeline of a user's live memberships: a sequence of rows           *)
(* [policy, from, to], ordered by from.                                    *)

\* The month of year y from which row i of the timeline may own months.
StartMonth(rows, i, y) ==
  LET from == rows[i].from
  IN  IF i = 1 \/ YearOf(from) < y THEN 1
      ELSE IF YearOf(from) > y THEN MonthsPerYear + 1
      ELSE EffectiveMonth(from)

\* The first row reaches back in time, and the latest start wins a month.
Owner(rows, y, m) ==
  rows[Max({i \in DOMAIN rows : i = 1 \/ StartMonth(rows, i, y) <= m})].policy

HireYear(anchor) == YearOf(anchor)

\* Days of vacation that policy p grants in year y.
VacationRate(p, anchor, y) ==
  LET t     == Terms[p]
      steps == IF anchor = NoDate \/ y < HireYear(anchor) THEN 0
               ELSE (y - HireYear(anchor)) \div t.every
      grown == t.vacation + t.raise * steps
  IN  IF t.cap = NoCap \/ grown <= t.cap THEN grown ELSE t.cap

\* The units of vacation earned in a set of months, each with its number.
Earnings(rows, anchor, y, months) ==
  UNION {{m} \X (1..VacationRate(Owner(rows, y, m), anchor, y)) : m \in months}

EarnedVacation(rows, anchor, y, months) ==
  Cardinality(Earnings(rows, anchor, y, months))

\* One tranche, sized by the owner of the last employed month.
SickTranche(rows, y, hireMonth, last) ==
  Terms[Owner(rows, y, last)].sick * (MonthsPerYear + 1 - hireMonth)

\* What year y should have accrued by its months-th employed month.
PieceTarget(k, rows, anchor, y, carried, hireMonth, months, manual) ==
  LET last   == Min({hireMonth + months - 1, MonthsPerYear})
      earned == IF k = "sick" THEN SickTranche(rows, y, hireMonth, last)
                ELSE EarnedVacation(rows, anchor, y, hireMonth..last)
  IN  IF months <= 0 THEN manual ELSE earned + carried + manual

\* From which month an employee hired at anchor earns in year y.
HireMonth(anchor, y) ==
  IF YearOf(anchor) = y THEN EffectiveMonth(anchor) ELSE 1

\* How many months of year y have been earned by date d, counting d's own.
MonthsEarned(anchor, y, d) ==
  IF anchor = NoDate \/ y > YearOf(d) \/ YearOf(anchor) > y THEN 0
  ELSE LET end == IF y < YearOf(d) THEN MonthsPerYear ELSE MonthOf(d)
       IN  Max({0, end - HireMonth(anchor, y) + 1})

TargetAt(k, rows, anchor, y, carried, manual, d) ==
  PieceTarget(k, rows, anchor, y, carried, HireMonth(anchor, y),
              MonthsEarned(anchor, y, d), manual)

-----------------------------------------------------------------------------
(* What a leftover becomes when its year closes *)

\* The entitlement that a share of the year's allowance is a share of.
CapBase(k, rows, anchor, y, manual) ==
  LET from == IF anchor = NoDate \/ YearOf(anchor) > y THEN MonthsPerYear + 1
              ELSE HireMonth(anchor, y)
  IN  PieceTarget(k, rows, anchor, y, 0, from,
                  Max({0, MonthsPerYear + 1 - from}), manual)

CarryoverModes == {"none", "full", "days", "percent", "percent_of_total"}

\* The carryover policy and cap mode together, and the cap in days or percent.
CarryoverSettings ==
  {s \in [mode : CarryoverModes, cap : Nat] :
     s.mode \in {"percent", "percent_of_total"} => s.cap <= 100}

WholeDays(units) == OneDay * (units \div OneDay)

\* How much of a leftover survives.  The caps are whole days, and sick leave
\* never carries.
Kept(k, leftover, settings, base) ==
  LET rest == Max({0, leftover})
      ceiling ==
        CASE settings.mode = "none"             -> 0
          [] settings.mode = "full"             -> rest
          [] settings.mode = "days"             -> OneDay * settings.cap
          [] settings.mode = "percent"          ->
               WholeDays((rest * settings.cap) \div 100)
          [] settings.mode = "percent_of_total" ->
               Max({0, WholeDays((base * settings.cap) \div 100)})
  IN  IF k = "sick" THEN 0 ELSE Min({rest, ceiling})

-----------------------------------------------------------------------------
(* Probation, at the grain of days *)

PolicyOn(rows, d) ==
  rows[Max({i \in DOMAIN rows : i = 1 \/ rows[i].from <= d})].policy

\* Whether day d can only be taken unpaid.
ForcedUnpaid(k, rows, anchor, d) ==
  LET t == Terms[PolicyOn(rows, d)]
  IN  /\ anchor # NoDate
      /\ t.probation > 0
      /\ ~(k = "sick" /\ t.paidSick)
      /\ d < AddMonths(anchor, t.probation)
=============================================================================
