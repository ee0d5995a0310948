---------------------------- MODULE LeavePlanning ----------------------------
(***************************************************************************)
(* The forward-planning engine (evaluatePlannedCommitments and what it     *)
(* reads): whether the leave an employee has been promised is covered, day *)
(* by day, by what will have accrued by then, and which days of a new      *)
(* request the balance can still fund.  It only reads, so the module has   *)
(* no variables: its operators take the employee's rows as one record.     *)
(*                                                                         *)
(* Every leave day is a whole day, and every date a working day.           *)
(***************************************************************************)
EXTENDS PolicySchedule, SequencesExt

CONSTANTS
  LastYear,      \* The years of the model are 0..LastYear
  RequestIds     \* Numbers, in the order requests are submitted

ASSUME HorizonAssumption == LastYear \in Nat /\ RequestIds \subseteq Nat /\ IsFiniteSet(RequestIds)

Years == 0..LastYear
Dates == 0..LastOfYear(LastYear)

NoRequest == 0

ASSUME RequestIdsAssumption == NoRequest \notin RequestIds

Membership == [policy : Policies, from : Dates, to : Dates \cup {NoDate}]

Requests ==
  {q \in [ status   : {"Absent", "Pending", "Approved", "Closed"},
           type     : LeaveTypes,
           dates    : SUBSET Dates,      \* leaveDays
           unpaid   : SUBSET Dates,      \* unpaidLeaveDays
           consumed : SUBSET Dates,      \* the prefix spentDaysConsumed counts
           replaces : RequestIds \cup {NoRequest} ] :
     q.unpaid \subseteq q.dates /\ q.consumed \subseteq q.dates}

PerYear(S) == [LeaveTypes -> [Years -> S]]

\* What the database holds about one employee.
Employees ==
  [ anchor    : Dates \cup {NoDate}, \* employmentStartDate
    rows      : Seq(Membership),     \* live memberships, by from
    accrued   : PerYear(Nat),        \* leave_balances.accruedDays
    made      : PerYear(BOOLEAN),    \* whether leave_allocations has a row
    carried   : PerYear(Nat),        \*   carriedOverDays
    finalized : PerYear(BOOLEAN),    \*   carryoverFinalized
    closed    : PerYear(BOOLEAN),    \*   closedAt is set
    manual    : PerYear(Int),        \*   manualAdjustmentDays
    requests  : [RequestIds -> Requests],
    ledger    : Seq([type : LeaveTypes, date : Dates,
                     kind : {"accrual", "close", "spent"}]) ]

-----------------------------------------------------------------------------
(* What the balance rows say *)

IsActive(q) == q.status \in {"Pending", "Approved"}

RemainingPaid(q) == q.dates \ (q.unpaid \cup q.consumed)

InYear(S, y) == {d \in S : YearOf(d) = y}

OfType(e, k) == {r \in RequestIds : e.requests[r].type = k /\ IsActive(e.requests[r])}

\* spentDays
Spent(e, k, y) ==
  OneDay * Cardinality(UNION {InYear(e.requests[r].consumed \ e.requests[r].unpaid, y) :
                                r \in OfType(e, k)})

\* onHoldDays: an original and its pending replacement each hold their own.
Hold(e, k, y) ==
  OneDay * Cardinality(UNION {{r} \X InYear(RemainingPaid(e.requests[r]), y) :
                                r \in OfType(e, k)})

Available(e, k, y) == e.accrued[k][y] - Spent(e, k, y) - Hold(e, k, y)

-----------------------------------------------------------------------------
(* The committed schedule *)

CostOf(q, y, d) == OneDay * Cardinality({x \in InYear(RemainingPaid(q), y) : x <= d})

\* The pending replacement of r, if it is among the requests considered.
ReplacementOf(e, r, considered) ==
  {x \in considered : e.requests[x].status = "Pending" /\ e.requests[x].replaces = r}

\* Mutant: the pair is charged as the member with more days.
LongerOfPair(e, r, considered, y, d) ==
  LET pair == {r} \cup ReplacementOf(e, r, considered)
      size(x) == Cardinality(InYear(RemainingPaid(e.requests[x]), y))
      longer == CHOOSE x \in pair : \A z \in pair : size(z) <= size(x)
  IN  CostOf(e.requests[longer], y, d)

\* A leave and its pending change cost what the dearer of the two has cost by
\* each date.
PairCost(e, r, considered, y, d) ==
  Max({CostOf(e.requests[x], y, d) : x \in {r} \cup ReplacementOf(e, r, considered)})

\* What the requests of type k outside excluded have committed of year y by d.
CommittedThrough(e, k, excluded, y, d) ==
  LET considered == OfType(e, k) \ excluded
      payers == {r \in considered : e.requests[r].replaces \notin considered
                                      \/ e.requests[r].status # "Pending"}
  IN  MapThenSumSet(LAMBDA r : PairCost(e, r, considered, y, d), payers)

-----------------------------------------------------------------------------
(* The projection *)

\* A day that has come is measured against what has really accrued, a day
\* still ahead adds the increments scheduled until then.
ProjectedAt(e, k, y, carried, now, d) ==
  LET target(at) == TargetAt(k, e.rows, e.anchor, y, carried, e.manual[k][y], at)
  IN  IF d <= now THEN e.accrued[k][y]
      ELSE e.accrued[k][y] + Max({0, target(d) - target(now)})

\* A plan: the books with a set of paid days offered on top of them, and the
\* requests left out of the picture.
CostThrough(e, k, plan, y, d) ==
  CommittedThrough(e, k, plan.excluded, y, d)
    + OneDay * Cardinality({x \in InYear(plan.offered, y) : x <= d})

YearCost(e, k, plan, y) == CostThrough(e, k, plan, y, LastOfYear(y))

SettledCarryover(e, k, y) == IF e.finalized[k][y] THEN e.carried[k][y] ELSE 0

\* What the current year is projected to leave to the next one.
ProjectedCarryover(e, k, settings, now, plan) ==
  LET y == YearOf(now)
      yearEnd == ProjectedAt(e, k, y, SettledCarryover(e, k, y), now, LastOfYear(y))
  IN  Kept(k, yearEnd - Spent(e, k, y) - YearCost(e, k, plan, y), settings,
           CapBase(k, e.rows, e.anchor, y, e.manual[k][y]))

CarriedInto(e, k, settings, now, plan, y) ==
  IF y > YearOf(now) THEN ProjectedCarryover(e, k, settings, now, plan)
  ELSE SettledCarryover(e, k, y)

\* The dates of year y on which a charge falls due.
ChargedDates(e, k, plan, y) ==
  {d \in InYear(Dates, y) : CostThrough(e, k, plan, y, d - 1) < CostThrough(e, k, plan, y, d)}

YearFeasible(e, k, settings, now, plan, y) ==
  LET carried == CarriedInto(e, k, settings, now, plan, y)
      projected(d) == ProjectedAt(e, k, y, carried, now, d)
  IN  /\ Spent(e, k, y) <= projected(LastOfYear(y))
      /\ \A d \in ChargedDates(e, k, plan, y) :
           Spent(e, k, y) + CostThrough(e, k, plan, y, d) <= projected(d)

\* evaluatePlannedCommitments reports no violation.
Feasible(e, k, settings, now, plan) ==
  \A y \in {YearOf(now), YearOf(now) + 1} \cup {YearOf(d) : d \in plan.offered} :
    YearFeasible(e, k, settings, now, plan, y)

NoPlan == [offered |-> {}, excluded |-> {}]

\* assertPlannedCommitmentsFeasible
PromisesKept(e, types, settings, now) ==
  \A k \in types : Feasible(e, k, settings, now, NoPlan)

\* The members of S in ascending order: the i-th has i members up to it.
InOrder(S) ==
  [i \in 1..Cardinality(S) |-> CHOOSE x \in S : Cardinality({z \in S : z <= x}) = i]

\* The days of a request that the balance funds: offered one at a time in date
\* order, and none at all when the plan is broken without them.
PaidDays(e, k, settings, now, days, excluded) ==
  LET plan(S)   == [offered |-> S, excluded |-> excluded]
      fits(S)   == Feasible(e, k, settings, now, plan(S))
      take(S, d) == IF fits(S \cup {d}) THEN S \cup {d} ELSE S
  IN  IF fits({}) THEN FoldLeft(take, {}, InOrder(days)) ELSE {}
=============================================================================
