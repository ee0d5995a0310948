------------------------------ MODULE YearBooks ------------------------------
(***************************************************************************)
(* The books of one employee over the years: the monthly accrual, the      *)
(* catch-up a read performs, the close of a leave year, and the            *)
(* administrative edits that move a settled figure (start date, manual     *)
(* adjustment, policy transfer).  Each action is one transaction, and      *)
(* transactions do not overlap here: BalanceTransactions is about those that do.     *)
(*                                                                         *)
(* Nothing happens on its own: every figure is brought up to date by the   *)
(* next transaction that reads it, however late that comes.                *)
(***************************************************************************)
EXTENDS LeavePlanning

CONSTANTS
  FirstDay,          \* The day the account is created
  LastDay,           \* Bound: the clock stops here
  FirstPolicy,       \* The policy the account was enrolled in
  StartDates,        \* Employment start dates an admin may enter
  Adjustments,       \* Manual corrections, in units
  FirstCarryover,    \* The carryover settings the database is seeded with
  Carryovers,        \* Carryover settings an admin may choose
  Bookings,          \* What is asked for: <<type, first date, last date>>
  TransferDates,     \* The dates transfers name
  MaxEdits           \* Bound: administrative edits, cancellations aside

ASSUME BooksAssumption ==
  /\ FirstDay \in Dates /\ LastDay \in Dates /\ FirstDay <= LastDay /\ YearOf(LastDay) < LastYear
  /\ FirstPolicy \in Policies /\ StartDates \subseteq Dates
  /\ FirstCarryover \in CarryoverSettings /\ Carryovers \subseteq CarryoverSettings
  /\ Bookings \subseteq LeaveTypes \X Dates \X Dates /\ \A b \in Bookings : b[2] <= b[3]
  /\ TransferDates \subseteq Dates /\ Adjustments \subseteq Int /\ MaxEdits \in Nat

VARIABLES
  employee,   \* the rows about the employee
  carryover,  \* the carryover settings
  now,        \* today, on the employee's calendar
  edits       \* the administrative edits so far, in order

vars == <<employee, carryover, now, edits>>

Created == YearOf(FirstDay)

\* The first year the system lived through with this employee.
Epoch(e) == Max({Created, YearOf(e.anchor)})

-----------------------------------------------------------------------------
(* Each of these takes the rows and returns the rows it leaves behind;     *)
(* what they post goes to the ledger in the order it is posted.            *)

Posted(e, k, kind, dates) ==
  [e EXCEPT !.ledger =
     @ \o [i \in DOMAIN dates |-> [type |-> k, date |-> dates[i], kind |-> kind]]]

\* ensureBalance, ensureAllocation
Ensured(e, k, y) == [e EXCEPT !.made[k][y] = TRUE]

\* The cumulative target of each employed month of year y, as of date d.
Targets(e, k, y, d) ==
  [i \in 1..MonthsEarned(e.anchor, y, d) |->
     PieceTarget(k, e.rows, e.anchor, y, e.carried[k][y], HireMonth(e.anchor, y), i,
                 e.manual[k][y])]

\* The months of t that raise the balance above all it reached before them.
Raising(t, start) ==
  {i \in DOMAIN t : \A j \in 0..(i - 1) : t[i] > IF j = 0 THEN start ELSE t[j]}

\* Mutant: a closed year can owe months like any other.
OwedDespiteClose(e, k, y, t) == Raising(t, e.accrued[k][y])

Owed(e, k, y, t) == IF e.closed[k][y] THEN {} ELSE Raising(t, e.accrued[k][y])

OwedDates(e, k, y, t) ==
  {FirstOfMonth(y, HireMonth(e.anchor, y) + i - 1) : i \in Owed(e, k, y, t)}

\* accrueForYear, given the targets
AccruedTo(e, k, y, t) ==
  LET owed == Owed(e, k, y, t)
  IN  IF owed = {} THEN e
      ELSE [Posted(e, k, "accrual", InOrder(OwedDates(e, k, y, t)))
              EXCEPT !.accrued[k][y] = t[Max(owed)]]

Accrued(e, k, y, d) == AccruedTo(Ensured(e, k, y), k, y, Targets(e, k, y, d))

\* Years that have begun and still await their carryover.
Pending(e, k, d) ==
  {y \in Years : e.made[k][y] /\ ~e.finalized[k][y] /\ y <= YearOf(d)}

\* Mutant: the years slept through get no rows.
NothingMaterialized(e, k, d) == e

\* The missing years below each pending one, down to the epoch.
Materialized(e, k, d) ==
  LET missing == {y \in Years : /\ y >= Epoch(e)
                                /\ \E p \in Pending(e, k, d) :
                                     y < p /\ \A z \in y..(p - 1) : ~e.made[k][z]}
  IN  [e EXCEPT !.made[k] = [y \in Years |-> @[y] \/ y \in missing]]

SettledTrivially(e, k, y) ==
  [e EXCEPT !.carried[k][y] = 0, !.finalized[k][y] = TRUE]

\* Mutant: what is carried into y stays in the year before it as well.
KeptInBothYears(full, k, y, leftover, kept) ==
  [full EXCEPT !.accrued[k][y] = @ + kept, !.closed[k][y - 1] = TRUE,
               !.carried[k][y] = kept, !.finalized[k][y] = TRUE]

\* The leftover of the year before y booked out of it, what is kept into y.
Rolled(full, k, y, leftover, kept) ==
  LET outs == IF leftover > 0 THEN <<LastOfYear(y - 1)>> ELSE <<>>
      ins  == IF kept > 0 THEN <<FirstOfYear(y)>> ELSE <<>>
  IN  [Posted(full, k, "close", outs \o ins) EXCEPT
         !.accrued[k][y - 1] = @ - leftover,
         !.accrued[k][y] = @ + kept,
         !.closed[k][y - 1] = TRUE,
         !.carried[k][y] = kept,
         !.finalized[k][y] = TRUE]

RolledOver(full, k, y, leftover, settings) ==
  Rolled(full, k, y, leftover,
         Kept(k, leftover, settings,
              CapBase(k, full.rows, full.anchor, y - 1, full.manual[k][y - 1])))

RolledLeftover(full, k, y, settings) ==
  RolledOver(full, k, y, Max({0, Available(full, k, y - 1)}), settings)

\* Mutant: the year is closed at whatever it happened to have accrued.
ClosedAsItStands(e, k, y, d, settings) == RolledLeftover(e, k, y, settings)

\* The close of the year before y, topped up to its full twelve months.
Closed(e, k, y, d, settings) ==
  RolledLeftover(Accrued(e, k, y - 1, d), k, y, settings)

\* Nothing can have been carried into the years up to the epoch.
Settled(e, k, y, d, settings) ==
  IF Epoch(e) >= y THEN SettledTrivially(e, k, y) ELSE Closed(e, k, y, d, settings)

SettledAll(e, k, d, settings) ==
  FoldLeft(LAMBDA x, y : Settled(x, k, y, d, settings), e, InOrder(Pending(e, k, d)))

\* finalizeCarryoverIfDue
Finalized(e, k, y, d, settings) ==
  IF y > YearOf(d) \/ e.anchor = NoDate THEN e
  ELSE SettledAll(Materialized(e, k, d), k, d, settings)

\* accrueDueAllowance
AccruedDue(e, k, y, d, settings) == Accrued(Finalized(e, k, y, d, settings), k, y, d)

\* Mutant: consumption follows the calendar past the last day of the leave.
ElapsedSpan(q, d) ==
  IF q.status = "Approved" THEN (Min(q.dates)..(d - 1)) \ q.consumed ELSE {}

\* Of approved leave, the days that have ended by the start of date d.
Elapsed(q, d) ==
  IF q.status = "Approved" THEN {x \in q.dates \ q.consumed : x < d} ELSE {}

SpendElapsed(e, r, d) ==
  LET days == Elapsed(e.requests[r], d)
  IN  [Posted(e, e.requests[r].type, "spent", InOrder(days \ e.requests[r].unpaid))
         EXCEPT !.requests[r].consumed = @ \cup days]

\* reconcileApprovedLeaveTx
Reconciled(e, d) == FoldLeft(LAMBDA x, r : SpendElapsed(x, r, d), e, InOrder(RequestIds))

-----------------------------------------------------------------------------
(* The catch-up *)

\* The dates the balance of type k was due to move at.
BoundariesOf(e, k, d) ==
  LET real == {y \in Pending(e, k, d) : y > Epoch(e)}
      open == {y \in real : e.made[k][y - 1] /\ ~e.closed[k][y - 1]}
      owing == {y - 1 : y \in open} \cup {YearOf(d)}
  IN  {FirstOfYear(y) : y \in real}
        \cup UNION {OwedDates(e, k, y, Targets(e, k, y, d)) : y \in owing}

HasPendingWork(e, d) ==
  LET y == YearOf(d)
  IN  \E k \in LeaveTypes : Pending(e, k, d) # {} \/ Owed(e, k, y, Targets(e, k, y, d)) # {}

AllDue(e, d, settings) ==
  AccruedDue(AccruedDue(e, "vacation", YearOf(d), d, settings),
             "sick", YearOf(d), d, settings)

\* At a boundary, first the leave that ended before it, then what falls due.
Visited(e, at, settings) == AllDue(Reconciled(e, at), at, settings)

Walked(e, moves, settings) ==
  FoldLeft(LAMBDA x, at : Visited(x, at, settings), e, InOrder(moves))

\* Mutant: every accrual is posted before any spend.
AccrualsFirst(e, d, settings) == Reconciled(AllDue(e, d, settings), d)

\* The books at each boundary in turn, and then the tail, as of today.
CaughtUp(e, d, settings) ==
  LET moves == UNION {BoundariesOf(e, k, d) : k \in LeaveTypes}
  IN  Reconciled(IF e.anchor # NoDate /\ HasPendingWork(e, d)
                 THEN AllDue(Walked(e, moves, settings), d, settings) ELSE e, d)

\* refreshBalancesTx
Refreshed(e, d, settings) ==
  CaughtUp(Ensured(Ensured(e, "vacation", YearOf(d)), "sick", YearOf(d)), d, settings)

-----------------------------------------------------------------------------
(* The transactions *)

AbsentRequest ==
  [status |-> "Absent", type |-> "vacation", dates |-> {}, unpaid |-> {},
   consumed |-> {}, replaces |-> NoRequest]

NewEmployee ==
  [ anchor    |-> NoDate,
    rows      |-> <<[policy |-> FirstPolicy, from |-> FirstOfYear(Created), to |-> NoDate]>>,
    accrued   |-> [k \in LeaveTypes |-> [y \in Years |-> 0]],
    made      |-> [k \in LeaveTypes |-> [y \in Years |-> y = Created]],
    carried   |-> [k \in LeaveTypes |-> [y \in Years |-> 0]],
    finalized |-> [k \in LeaveTypes |-> [y \in Years |-> FALSE]],
    closed    |-> [k \in LeaveTypes |-> [y \in Years |-> FALSE]],
    manual    |-> [k \in LeaveTypes |-> [y \in Years |-> 0]],
    requests  |-> [r \in RequestIds |-> AbsentRequest],
    ledger    |-> <<>> ]

Init ==
  /\ employee = NewEmployee
  /\ carryover = FirstCarryover
  /\ now = FirstDay
  /\ edits = <<>>

\* The rows as the next transaction will find them settled.
Today == Refreshed(employee, now, carryover)

\* A change that would leave a balance below nothing is refused.  The ledger is
\* append-only and read by nobody here: it is dropped once it has committed.
Commit(e) ==
  /\ \A k \in LeaveTypes, y \in Years : e.accrued[k][y] >= 0
  /\ employee' = [e EXCEPT !.ledger = <<>>]

\* An edit is refused if it would leave a promised day of these types uncovered.
\* A cancellation only takes back an edit already counted.
CommitEdit(e, edit, types) ==
  /\ Len(edits) < MaxEdits \/ edit = "transfer cancelled"
  /\ PromisesKept(e, types, carryover, now)
  /\ Commit(e)
  /\ edits' = Append(edits, edit)
  /\ UNCHANGED <<carryover, now>>

Tick ==
  /\ now < LastDay
  /\ now' = now + 1
  /\ UNCHANGED <<employee, carryover, edits>>

\* refreshBalances: every read of a balance.
Refresh ==
  /\ Commit(Today)
  /\ UNCHANGED <<carryover, now, edits>>

Overlaps(q, dates) ==
  IsActive(q) /\ Min(q.dates) <= Max(dates) /\ Min(dates) <= Max(q.dates)

\* The days that probation does not force to be unpaid are offered to the balance.
Booked(e, r, k, dates, original) ==
  LET forced == {d \in dates : ForcedUnpaid(k, e.rows, e.anchor, d)}
      paid == PaidDays(e, k, carryover, now, dates \ forced, {original} \ {NoRequest})
  IN  [e EXCEPT !.requests[r] =
         [status |-> "Pending", type |-> k, dates |-> dates, unpaid |-> dates \ paid,
          consumed |-> {}, replaces |-> original]]

Opened(e, k, years) ==
  FoldLeft(LAMBDA x, y : Ensured(AccruedDue(x, k, y, now, carryover), k, y), e, InOrder(years))

\* createLeaveRequestTx, once the books have been brought up to date.
CreateRequest(r, k, dates, original) ==
  LET years == {YearOf(d) : d \in dates}
  IN  /\ employee.requests[r].status = "Absent"
      /\ \A x \in RequestIds : x < r => employee.requests[x].status # "Absent"
      /\ employee.anchor # NoDate /\ employee.anchor <= now
      /\ YearOf(Max(dates)) <= YearOf(now) + 1
      /\ \A x \in RequestIds \ {original} : ~Overlaps(employee.requests[x], dates)
      /\ Commit(Booked(Opened(Today, k, years),
                       r, k, dates, original))
      /\ UNCHANGED <<carryover, now, edits>>

Submit(r) == \E b \in Bookings : CreateRequest(r, b[1], b[2]..b[3], NoRequest)

HasStarted(q) == Min(q.dates) <= now \/ q.consumed # {}

PendingReplacement(o) == ReplacementOf(employee, o, RequestIds) # {}

\* submitLeaveRequestModification
Modify(r, o) ==
  LET q == employee.requests[o]
  IN  /\ q.status = "Approved"
      /\ ~HasStarted(q)
      /\ ~PendingReplacement(o)
      /\ \E b \in Bookings : b[1] = q.type /\ CreateRequest(r, b[1], b[2]..b[3], o)

\* promoteToApprovedTx: a change takes the place of the leave it replaces, if
\* that has not begun.
Approve(r) ==
  LET o == employee.requests[r].replaces
      swap == o # NoRequest /\ employee.requests[o].status = "Approved"
      settled == IF swap THEN Reconciled(employee, now) ELSE employee
      approved == [settled EXCEPT !.requests[r].status = "Approved"]
  IN  /\ employee.requests[r].status = "Pending"
      /\ swap => ~HasStarted(settled.requests[o])
      /\ Commit(IF swap THEN [approved EXCEPT !.requests[o].status = "Closed"] ELSE approved)
      /\ UNCHANGED <<carryover, now, edits>>

MayCancel(r) ==
  /\ employee.requests[r].status = "Approved"
  /\ ~HasStarted(employee.requests[r])
  /\ ~PendingReplacement(r)

\* Reject a pending request, or cancel an approved one: its holds are released.
Settle(r) ==
  /\ employee.requests[r].status = "Pending" \/ MayCancel(r)
  /\ Commit([employee EXCEPT !.requests[r].status = "Closed"])
  /\ UNCHANGED <<carryover, now, edits>>

-----------------------------------------------------------------------------
(* The administrative edits *)

\* Mutant: a re-anchor only ever tops up, as the monthly accrual does.
OnlyToppedUp(e, k, y) ==
  LET born == Ensured(e, k, y)
  IN  [born EXCEPT !.accrued[k][y] =
         Max({@, TargetAt(k, e.rows, e.anchor, y, e.carried[k][y], e.manual[k][y], now)})]

\* reanchorAccrual: the year is set to its target, up or down.
Reanchored(e, k, y) ==
  LET born == Ensured(e, k, y)
  IN  [born EXCEPT !.accrued[k][y] =
         TargetAt(k, e.rows, e.anchor, y, e.carried[k][y], e.manual[k][y], now)]

ReanchoredToday(e) ==
  Reanchored(Reanchored(e, "vacation", YearOf(now)), "sick", YearOf(now))

CurrentYearOpen(e) == \A k \in LeaveTypes : ~e.closed[k][YearOf(now)]

\* The current year of e is re-anchored, unless it has been closed.
CommitReanchored(e, edit) ==
  /\ CurrentYearOpen(e)
  /\ CommitEdit(ReanchoredToday(e), edit, LeaveTypes)

\* updateEmployeeAdmin.  The books are settled under the old date first; a
\* date entered for the first time is an ordinary catch-up.
SetStartDate(d) ==
  /\ d # employee.anchor
  /\ \/ /\ employee.anchor # NoDate
        /\ CommitReanchored([Today EXCEPT !.anchor = d], "corrected date")
     \/ /\ employee.anchor = NoDate
        /\ CommitReanchored(Refreshed([Today EXCEPT !.anchor = d], now, carryover),
                            "first date")

\* No more can be removed than is available.
CommitAdjusted(e, delta) ==
  LET y == YearOf(now)
  IN  /\ ~e.closed["vacation"][y]
      /\ -delta <= Max({0, Available(e, "vacation", y)})
      /\ CommitEdit([e EXCEPT !.manual["vacation"][y] = @ + delta,
                              !.accrued["vacation"][y] = @ + delta],
                    "adjustment", {"vacation"})

\* adjustEmployeeVacationBalance
AdjustVacation(delta) ==
  /\ delta # 0
  /\ employee.anchor # NoDate /\ employee.anchor <= now
  /\ CommitAdjusted(AccruedDue(Today, "vacation", YearOf(now), now, carryover), delta)

Rows == employee.rows

Scheduled == {i \in DOMAIN Rows : Rows[i].to = NoDate /\ Rows[i].from > now}

EarliestTransfer == Max({employee.anchor, FirstOfYear(YearOf(now))})

\* The open row closed at from; one wholly after it is superseded instead.
ClosedAt(rows, from) ==
  [i \in DOMAIN rows |-> IF rows[i].to = NoDate THEN [rows[i] EXCEPT !.to = from] ELSE rows[i]]

\* A retroactive transfer rewrites the timeline from that date on: later rows
\* are superseded, and one that straddles it is cut short.
Rewritten(rows, from) ==
  [i \in {j \in DOMAIN rows : rows[j].from < from} |->
     IF rows[i].to = NoDate \/ rows[i].to > from THEN [rows[i] EXCEPT !.to = from]
     ELSE rows[i]]

\* planPolicyTransferTx
Transferred(p, from, mode) ==
  Append(IF mode = "retroactive" THEN Rewritten(Rows, from) ELSE ClosedAt(Rows, from),
         [policy |-> p, from |-> from, to |-> NoDate])

OpenRow == CHOOSE i \in DOMAIN Rows : Rows[i].to = NoDate

\* transferEmployeePolicy: a date to come schedules it, today's applies it, and
\* a past one needs a mode.  A retroactive one reaches back to the earliest
\* permissible date, whatever date was named.
Transfer(p, date, mode) ==
  LET from == IF mode = "retroactive" THEN EarliestTransfer ELSE date
  IN  /\ employee.anchor # NoDate
      /\ mode = "plain" <=> date >= now
      /\ date >= EarliestTransfer
      /\ Scheduled = {}
      /\ PolicyOn(Rows, now) # p
      /\ mode = "prospective" => from > Rows[OpenRow].from
      /\ CommitReanchored([Today EXCEPT !.rows = Transferred(p, from, mode)], "transfer")

\* cancelScheduledPolicyTransfer: the row goes and its predecessor reopens.
CancelTransfer ==
  \E i \in Scheduled :
    LET rest == RemoveAt(Rows, i)
        predecessors == {j \in DOMAIN rest : rest[j].to = Rows[i].from}
        reopened == [j \in DOMAIN rest |->
                       IF predecessors # {} /\ j = Min(predecessors)
                       THEN [rest[j] EXCEPT !.to = NoDate] ELSE rest[j]]
    IN  CommitReanchored([Today EXCEPT !.rows = reopened], "transfer cancelled")

\* updateLeaveSettings: books already written are left as they are.
SetCarryover(settings) ==
  /\ settings # carryover
  /\ Len(edits) < MaxEdits
  /\ carryover' = settings
  /\ edits' = Append(edits, "carryover")
  /\ UNCHANGED <<employee, now>>

Next ==
  \/ Tick
  \/ Refresh
  \/ \E r \in RequestIds : Submit(r) \/ Approve(r) \/ Settle(r)
  \/ \E r, o \in RequestIds : Modify(r, o)
  \/ \E d \in StartDates : SetStartDate(d)
  \/ \E delta \in Adjustments : AdjustVacation(delta)
  \/ \E p \in Policies, d \in TransferDates, mode \in {"plain", "prospective", "retroactive"} :
       Transfer(p, d, mode)
  \/ CancelTransfer
  \/ \E settings \in Carryovers : SetCarryover(settings)

Spec == Init /\ [][Next]_vars

-----------------------------------------------------------------------------
(* Properties *)

Edits == {"first date", "corrected date", "adjustment", "transfer", "transfer cancelled",
          "carryover"}

TypeOK ==
  /\ employee \in Employees
  /\ carryover \in Carryovers \cup {FirstCarryover}
  /\ now \in FirstDay..LastDay
  /\ edits \in Seq(Edits)

Edited(S) == \E i \in DOMAIN edits : edits[i] \in S

OnTarget(e) ==
  LET y == YearOf(now)
      target(k) == TargetAt(k, e.rows, e.anchor, y, e.carried[k][y], e.manual[k][y], now)
  IN  /\ e.accrued["vacation"][y] = target("vacation")
      /\ e.accrued["sick"][y] >= target("sick")
      /\ \A k \in LeaveTypes, z \in Years : z > y => e.accrued[k][z] = 0

\* Whatever edits, transfers, closes and dormant months came before, a balance
\* that has just been read shows what the policy says: the vacation of this
\* year is exactly at its target, sick leave at or above it (a granted tranche
\* is not taken back by the calendar), and no later year has begun to accrue.
AccruedOnTarget == OnTarget(Today)

SinceEpoch(e, flags) == [k \in LeaveTypes |-> [y \in Years |-> y >= Epoch(e) /\ flags[k][y]]]

\* The books without the ledger, and without the empty rows of years before the
\* hire, which a read in such a year makes and a later one does not.
Bare(e) ==
  [e EXCEPT !.ledger = <<>>, !.made = SinceEpoch(e, @), !.finalized = SinceEpoch(e, @)]

\* Reading a balance never changes what a later read will find: the books after
\* a long silence are those of an account that was also read today, whole years
\* slept through included.
DormancyLeavesNoTrace ==
  employee.anchor # NoDate =>
    \A d \in {LastOfYear(YearOf(now)), LastDay} \ 0..now :
      Bare(Refreshed(Today, d, carryover)) = Bare(Refreshed(employee, d, carryover))

\* A day that a year's close carries forward has left the year it was earned
\* in: what stays there and what moves on never exceed what the year granted.
\* (A start date corrected later shrinks what the year would have granted.)
NothingFundedTwice ==
  LET e == employee
  IN  \A y \in Years \ {0} :
        e.closed["vacation"][y - 1] /\ ~Edited({"corrected date"}) =>
          e.accrued["vacation"][y - 1] + e.carried["vacation"][y]
            <= TargetAt("vacation", e.rows, e.anchor, y - 1, e.carried["vacation"][y - 1],
                        e.manual["vacation"][y - 1], now)

PendingChange == \E r \in RequestIds : PendingReplacement(r)

\* "The forecast and the books agree": the carryover the planner projects for
\* next year is the one the close books, if nothing else is decided until then.
ForecastIsBooked ==
  LET y == YearOf(now) + 1
      closed == Refreshed(employee, FirstOfYear(y), carryover)
  IN  employee.anchor # NoDate =>
        \A k \in LeaveTypes :
          ProjectedCarryover(Today, k, carryover, now, NoPlan) = closed.carried[k][y]

\* They do agree as long as no change of an approved leave is awaiting approval.
ForecastIsBookedUnlessChanging == ~PendingChange => ForecastIsBooked

\* The changes that await a decision.
Changes ==
  {r \in RequestIds : employee.requests[r].status = "Pending"
                        /\ employee.requests[r].replaces # NoRequest}

\* The books if of the pending changes those of C, and no others, are approved.
Outcome(e, C) ==
  LET ends(r) == r \in Changes \ C \/ \E c \in C : e.requests[c].replaces = r
  IN  [e EXCEPT !.requests =
         [r \in RequestIds |-> [@[r] EXCEPT !.status = IF ends(r) THEN "Closed" ELSE @]]]

\* Whichever of the pending changes the approvers grant, every promised day
\* stays covered by what will have accrued by then: no vote, admin edit, year's
\* end or overlapping change leaves a date the forecast cannot fund.  (Carryover
\* settings are changed without asking whom that leaves short.)
EveryOutcomeIsFunded ==
  Edited({"carryover"})
    \/ \A C \in SUBSET Changes :
         PromisesKept(Outcome(Today, C), LeaveTypes, carryover, now)

\* Of one leave type, the rows a read posts are dated in the order it posts
\* them.  (Elapsed days are posted request by request.)
InDateOrder(rows) ==
  \A i, j \in DOMAIN rows :
    /\ i < j
    /\ rows[i].type = rows[j].type
    /\ {rows[i].kind, rows[j].kind} # {"spent"}
    => rows[i].date <= rows[j].date

Awake ==
  \A k \in LeaveTypes, y \in Epoch(employee)..YearOf(now) :
    /\ employee.made[k][y]
    /\ employee.finalized[k][y] /\ y > Epoch(employee) => employee.closed[k][y - 1]

\* They are in order at least for an account that no year has passed unseen (nor
\* was settled as one before the hire, that by a corrected start date is not), so
\* that no spend, accrual or close is filed after one that came later.
LedgerKeepsOrder == Awake => InDateOrder(Today.ledger)

\* A closed year is never reopened nor accrued to again, by any later read,
\* request or edit: the days that left it would be granted a second time.
BooksStayClosed ==
  [][\A k \in LeaveTypes, y \in Years :
        employee.closed[k][y] =>
          /\ employee'.closed[k][y]
          /\ employee'.accrued[k][y] = employee.accrued[k][y]]_vars
=============================================================================
