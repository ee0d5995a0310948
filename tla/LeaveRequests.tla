----------------------------- MODULE LeaveRequests -----------------------------
(***************************************************************************)
(* The leave requests of one employee: submission, modification, the       *)
(* approver gate, administrative overrides, cancellation and the           *)
(* recognition of leave days that have passed, with the balance movements  *)
(* each of them posts and the questions each of them opens and closes in   *)
(* the approvers' notification feeds.                                      *)
(*                                                                         *)
(* Every public method of LeaveDomainService runs in one database          *)
(* transaction, and every action below is one such transaction, complete.  *)
(* What happens when two of them overlap is the subject of                 *)
(* LeaveTransactions.                                                      *)
(*                                                                         *)
(* The unit of leave is the hour.  A request that books h hours of date d  *)
(* claims the slots <<d, 1>> .. <<d, h>>, so what it costs is a number of  *)
(* slots; the code stores the same figure as a sum of fractions of a day.  *)
(***************************************************************************)
EXTENDS Integers, FiniteSets

CONSTANTS
    RequestIds,        \* ids of leave requests, all of one employee
    NoRequest,         \* supersedesRequestId of a request that replaces none
    Approvers,         \* addresses that can be asked to approve
    Newcomers,         \* those who may have no account at first
    DefaultApprovers,  \* settings.defaultApproverEmails
    LeaveTypes,        \* vacation, sick, ...
    Days,              \* calendar dates, as numbers of days
    WorkingDays,       \* those that are neither weekend nor public holiday
    DaysPerYear,       \* dates per leave year
    Periods,           \* the <<first, last>> ranges the employee asks for
    HoursPerDay,       \* settings.hoursPerDay
    BookableHours,     \* the amounts the employee books on a single date
    Instants,          \* the hours at which something happens
    Zones              \* offsets from UTC, in hours, of the zones in use

ASSUME CalendarAssumption ==
    /\ Days \subseteq Nat
    /\ IsFiniteSet(Days)
    /\ Days # {}
    /\ LeaveTypes # {}
    /\ WorkingDays \subseteq Days
    /\ DaysPerYear \in Nat \ {0}
    /\ Periods \subseteq Days \X Days
    /\ HoursPerDay \in Nat \ {0}
    /\ BookableHours \subseteq 1..HoursPerDay

\* UTC-12 to UTC+14 are the offsets in use in the world.
ASSUME ClockAssumption ==
    /\ Instants \subseteq Nat
    /\ 0 \in Instants
    /\ Zones \subseteq -12..14

ASSUME IdAssumption ==
    /\ IsFiniteSet(RequestIds)
    /\ NoRequest \notin RequestIds
    /\ DefaultApprovers \subseteq Approvers

VARIABLES
    books,             \* the request rows and the balance rows
    votes,             \* votes[r][a]: a's approver row on request r
    asks,              \* open approval_needed rows, as <<request, approver>>
    progress,          \* requests with open approval_progressed rows
    accounts,          \* the approvers who have a user account
    imported,          \* those whose account the directory sync created
    approvalRequired,  \* settings.approvalRequired
    zone,              \* the employee's offset from UTC
    now                \* hours since the first UTC midnight

vars == <<books, votes, asks, progress, accounts, imported, approvalRequired,
          zone, now>>

--------------------------------------------------------------------------------
(* Dates and instants *)

YearOf(d) == d \div DaysPerYear

Years == {YearOf(d) : d \in Days}

Slots == Days \X (1..HoursPerDay)

\* Midnight that ends date d on the employee's calendar.
EndOfDay(d, tz) == 24 * (d + 1) - tz

\* The calendar date of instant t for the employee.
LocalDay(t, tz) == (t + tz) \div 24

--------------------------------------------------------------------------------
(* The rows *)

Statuses == {"Absent", "Pending", "Approved", "Rejected", "Cancelled", "Superseded"}

Actions == {"none", "submitted", "modification-requested", "superseded",
            "auto-approved", "approved", "progressed", "rejected",
            "force-approved", "force-rejected", "approver-removed", "cancelled"}

Decisions == {"none", "pending", "approved", "rejected"}

Requests ==
    [status     : Statuses,
     type       : LeaveTypes,
     first      : Days,            \* startDate
     last       : Days,            \* endDate
     slots      : SUBSET Slots,    \* leaveDays with dayPortions
     unpaid     : SUBSET Days,     \* unpaidLeaveDays
     consumed   : SUBSET Days,     \* the prefix spentDaysConsumed counts
     held       : Nat,             \* remainingHeldDays
     supersedes : RequestIds \cup {NoRequest},
     lastAction : Actions]

Balances == LeaveTypes \X Years

Books ==
    [requests : [RequestIds -> Requests],
     onHold   : [Balances -> Nat],
     spent    : [Balances -> Nat]]

\* An id no row carries yet.
AbsentRequest ==
    [status |-> "Absent", type |-> CHOOSE k \in LeaveTypes : TRUE,
     first |-> CHOOSE d \in Days : TRUE, last |-> CHOOSE d \in Days : TRUE,
     slots |-> {}, unpaid |-> {}, consumed |-> {}, held |-> 0,
     supersedes |-> NoRequest, lastAction |-> "none"]

LeaveDays(q) == {s[1] : s \in q.slots}

PaidSlots(q) == {s \in q.slots : s[1] \notin q.unpaid}

\* What a request still reserves: paid and not yet consumed.
RemainingPaid(q) == {s \in PaidSlots(q) : s[1] \notin q.consumed}

\* Of a set of slots, those that charge the balance of type k and year y.
Charging(q, S, k, y) == {s \in S : q.type = k /\ YearOf(s[1]) = y}

IsActive(q) == q.status \in {"Pending", "Approved"}

\* Mutant: > where the guard compares with >=.
HasStartedDayLater(q, t) == 24 * (q.first + 1) <= t \/ q.consumed # {}

\* The guard cancel, modify and promote share: the start date has come (in
\* UTC) or a day has been consumed.
HasStarted(q, t) == 24 * q.first <= t \/ q.consumed # {}

ToApprovers(r) == {a \in Approvers : votes[r][a] # "none"}

--------------------------------------------------------------------------------
(* The helpers the transactions are built from.  Each takes the books and   *)
(* returns the books it leaves behind.                                      *)

SetStatus(b, r, status) == [b EXCEPT !.requests[r].status = status]

SetLastAction(b, r, action) == [b EXCEPT !.requests[r].lastAction = action]

\* Mutant: the leave of a request nobody has approved yet is taken too.
ElapsedOfAny(q, t, tz) == {d \in LeaveDays(q) \ q.consumed : IsActive(q) /\ EndOfDay(d, tz) <= t}

\* Days of q that have ended and are not consumed; only approved leave is.
Elapsed(q, t, tz) ==
    {d \in LeaveDays(q) \ q.consumed : q.status = "Approved" /\ EndOfDay(d, tz) <= t}

ElapsedPaid(q, t, tz) == {s \in RemainingPaid(q) : s[1] \in Elapsed(q, t, tz)}

\* Mutant: a day is charged to the year its request starts in.
AnchorYearConsumption(b, t, tz, k, y) ==
    Cardinality({c \in RequestIds \X Slots :
                    LET q == b.requests[c[1]]
                    IN  q.type = k /\ YearOf(q.first) = y /\ c[2] \in ElapsedPaid(q, t, tz)})

\* Paid hours that move from hold to spent on one balance row.
Consumption(b, t, tz, k, y) ==
    Cardinality({c \in RequestIds \X Slots :
                    LET q == b.requests[c[1]]
                    IN  c[2] \in Charging(q, ElapsedPaid(q, t, tz), k, y)})

\* Mutant: the held remainder drops by elapsed dates, whatever each cost.
ReconciledByDates(b, t, tz) ==
    [requests |->
        [r \in RequestIds |->
            LET q == b.requests[r]
            IN  [q EXCEPT !.consumed = @ \cup Elapsed(q, t, tz),
                          !.held = @ - Cardinality(Elapsed(q, t, tz))]],
     onHold |-> [p \in Balances |-> b.onHold[p] - Consumption(b, t, tz, p[1], p[2])],
     spent  |-> [p \in Balances |-> b.spent[p] + Consumption(b, t, tz, p[1], p[2])]]

\* reconcileApprovedLeaveTx
Reconciled(b, t, tz) ==
    [requests |->
        [r \in RequestIds |->
            LET q == b.requests[r]
            IN  [q EXCEPT !.consumed = @ \cup Elapsed(q, t, tz),
                          !.held = @ - Cardinality(ElapsedPaid(q, t, tz))]],
     onHold |-> [p \in Balances |-> b.onHold[p] - Consumption(b, t, tz, p[1], p[2])],
     spent  |-> [p \in Balances |-> b.spent[p] + Consumption(b, t, tz, p[1], p[2])]]

\* One hold per year the new request's paid days fall in, and the row itself.
Held(b, r, q) ==
    [requests |-> [b.requests EXCEPT ![r] = q],
     onHold   |-> [p \in Balances |->
                     b.onHold[p] + Cardinality(Charging(q, RemainingPaid(q), p[1], p[2]))],
     spent    |-> b.spent]

\* Mutant: everything still held goes back to the year the request starts in.
ReleasedToAnchorYear(b, r) ==
    LET q == b.requests[r]
    IN  IF q.held <= 0
        THEN b
        ELSE [requests |-> [b.requests EXCEPT ![r].held = 0],
              onHold   |-> [b.onHold EXCEPT ![<<q.type, YearOf(q.first)>>] = @ - q.held],
              spent    |-> b.spent]

\* releaseHold: one release per year still holding anything.
Released(b, r) ==
    LET q == b.requests[r]
    IN  IF q.held <= 0
        THEN b
        ELSE [requests |-> [b.requests EXCEPT ![r].held = 0],
              onHold   |-> [p \in Balances |->
                              b.onHold[p] - Cardinality(Charging(q, RemainingPaid(q), p[1], p[2]))],
              spent    |-> b.spent]

\* The approved request that approving r would replace, if there is one.
Replaces(b, r, o) ==
    /\ b.requests[r].supersedes = o
    /\ o # NoRequest
    /\ b.requests[o].status = "Approved"

\* promoteToApprovedTx throws when the leave it would replace has started.
PromotionRefused(b, r, t, tz) ==
    \E o \in RequestIds :
        Replaces(b, r, o) /\ HasStarted(Reconciled(b, t, tz).requests[o], t)

\* promoteToApprovedTx: the swap, if any, and the approval.
Promoted(b, r, t, tz) ==
    LET o == b.requests[r].supersedes
        swapped == SetLastAction(SetStatus(Released(Reconciled(b, t, tz), o), o, "Superseded"),
                                 o, "superseded")
    IN  SetStatus(IF Replaces(b, r, o) THEN swapped ELSE b, r, "Approved")

\* recordBalanceChange refuses, and so rolls back, a negative column.
Commit(b) ==
    /\ \A p \in Balances : b.onHold[p] >= 0 /\ b.spent[p] >= 0
    /\ books' = b

PendingReplacement(o) ==
    \E r \in RequestIds : /\ books.requests[r].supersedes = o
                          /\ books.requests[r].status = "Pending"

\* Mutant: periods that share their boundary date are taken to be disjoint.
OverlapsInside(q, period) ==
    IsActive(q) /\ q.first < period[2] /\ period[1] < q.last

\* findOverlappingRequests: any leave type, whole calendar ranges.
Overlaps(q, period) ==
    IsActive(q) /\ q.first <= period[2] /\ period[1] <= q.last

--------------------------------------------------------------------------------
Init ==
    /\ books = [requests |-> [r \in RequestIds |-> AbsentRequest],
                onHold   |-> [p \in Balances |-> 0],
                spent    |-> [p \in Balances |-> 0]]
    /\ votes = [r \in RequestIds |-> [a \in Approvers |-> "none"]]
    /\ asks = {}
    /\ progress = {}
    /\ \E missing \in SUBSET (Approvers \cap Newcomers) : accounts = Approvers \ missing
    /\ imported = {}
    /\ approvalRequired \in BOOLEAN
    /\ zone \in Zones
    /\ now = 0

\* createLeaveRequestTx.  Which days the balance can fund is decided by the
\* planner: here any of the leave days may turn out unpaid.
CreateRequest(r, type, period, hours, unpaid, explicit, original) ==
    LET to == explicit \cup (IF approvalRequired THEN DefaultApprovers ELSE {})
        slots == {s \in Slots : s[1] \in DOMAIN hours /\ s[2] <= hours[s[1]]}
        row == [status |-> "Pending", type |-> type, first |-> period[1], last |-> period[2],
                slots |-> slots, unpaid |-> unpaid, consumed |-> {},
                held |-> Cardinality({s \in slots : s[1] \notin unpaid}),
                supersedes |-> original, lastAction |-> "submitted"]
        filed == Held(Reconciled(books, now, zone), r, row)
    IN  /\ books.requests[r].status = "Absent"
        /\ YearOf(period[2]) <= YearOf(LocalDay(now, zone)) + 1
        /\ \A x \in RequestIds \ {original} : ~Overlaps(books.requests[x], period)
        /\ approvalRequired => to # {}
        /\ votes' = [votes EXCEPT ![r] = [a \in Approvers |-> IF a \in to THEN "pending" ELSE "none"]]
        /\ asks' = asks \cup ({r} \X (to \cap accounts))
        /\ IF to = {}
           THEN /\ ~PromotionRefused(filed, r, now, zone)
                /\ Commit(SetLastAction(Promoted(filed, r, now, zone), r, "auto-approved"))
           ELSE Commit(IF original = NoRequest
                       THEN filed
                       ELSE SetLastAction(filed, original, "modification-requested"))
        /\ UNCHANGED <<progress, accounts, imported, approvalRequired, zone, now>>

\* Whatever the employee fills in: a period, the hours of each of its working
\* days, and the approvers named on the form.
FileRequest(r, type, original) ==
    \E period \in Periods, explicit \in SUBSET Approvers :
        LET dates == WorkingDays \cap (period[1]..period[2])
        IN  /\ dates # {}
            /\ \E hours \in [dates -> BookableHours], unpaid \in SUBSET dates :
                    CreateRequest(r, type, period, hours, unpaid, explicit, original)

\* submitLeaveRequest
Submit(r) == \E type \in LeaveTypes : FileRequest(r, type, NoRequest)

\* submitLeaveRequestModification
Modify(r, o) ==
    /\ books.requests[o].status = "Approved"
    /\ ~HasStarted(books.requests[o], now)
    /\ ~PendingReplacement(o)
    /\ FileRequest(r, books.requests[o].type, o)

\* Take r to Approved as part of a transaction that ends with lastAction.
Approve(r, lastAction) ==
    /\ ~PromotionRefused(books, r, now, zone)
    /\ Commit(SetLastAction(Promoted(books, r, now, zone), r, lastAction))

\* Settle r as Rejected or Cancelled.
Settle(r, status, lastAction) ==
    Commit(SetLastAction(Released(SetStatus(books, r, status), r), r, lastAction))

\* Mutant: the request's own status is not re-read under the lock.
MayVoteAnytime(r, a) == votes[r][a] = "pending" /\ a \in accounts

\* A vote is cast once, by a named approver who is signed in, on a request
\* that is still pending.
MayVote(r, a) ==
    /\ books.requests[r].status = "Pending"
    /\ votes[r][a] = "pending"
    /\ a \in accounts

\* Mutant: silence counts as consent.
NobodyElseObjects(r, a) == \A x \in ToApprovers(r) \ {a} : votes[r][x] # "rejected"

\* Every approver but a has approved.
OthersApproved(r, a) == \A x \in ToApprovers(r) \ {a} : votes[r][x] = "approved"

\* resolveOpenRows for approval_needed rows: of one approver, or of all.
AnsweredBy(r, a) == asks \ {<<r, a>>}

AnsweredForAll(r) == {k \in asks : k[1] # r}

\* resolveOpenRows for approval_progressed rows.
TrailClosed(r) == progress \ {r}

\* decideLeaveRequest with an approval: a vote, and the gate when it is the last.
VoteApprove(r, a) ==
    /\ MayVote(r, a)
    /\ votes' = [votes EXCEPT ![r][a] = "approved"]
    /\ asks' = AnsweredBy(r, a)
    /\ IF OthersApproved(r, a)
       THEN Approve(r, "approved") /\ progress' = TrailClosed(r)
       ELSE Commit(SetLastAction(books, r, "progressed")) /\ progress' = progress \cup {r}
    /\ UNCHANGED <<accounts, imported, approvalRequired, zone, now>>

\* decideLeaveRequest with a rejection: any single one is terminal.
VoteReject(r, a) ==
    /\ MayVote(r, a)
    /\ votes' = [votes EXCEPT ![r][a] = "rejected"]
    /\ asks' = AnsweredForAll(r)
    /\ progress' = TrailClosed(r)
    /\ Settle(r, "Rejected", "rejected")
    /\ UNCHANGED <<accounts, imported, approvalRequired, zone, now>>

\* forceDecideLeaveRequest leaves the approver rows as they are.
ForceDecide(r) ==
    /\ books.requests[r].status = "Pending"
    /\ \/ Approve(r, "force-approved")
       \/ Settle(r, "Rejected", "force-rejected")
    /\ asks' = AnsweredForAll(r)
    /\ progress' = TrailClosed(r)
    /\ UNCHANGED <<votes, accounts, imported, approvalRequired, zone, now>>

\* removeLeaveRequestApprover: removing the last blocker completes the approval.
RemoveApprover(r, a) ==
    /\ books.requests[r].status = "Pending"
    /\ a \in ToApprovers(r)
    /\ ToApprovers(r) # {a}
    /\ votes' = [votes EXCEPT ![r][a] = "none"]
    /\ asks' = AnsweredBy(r, a)
    /\ IF OthersApproved(r, a)
       THEN Approve(r, "approver-removed") /\ progress' = TrailClosed(r)
       ELSE Commit(SetLastAction(books, r, "approver-removed")) /\ UNCHANGED progress
    /\ UNCHANGED <<accounts, imported, approvalRequired, zone, now>>

\* cancelLeaveRequest: a pending request, or an approved one that has not
\* started and has no modification awaiting approval.
Cancel(r) ==
    LET q == books.requests[r]
    IN  /\ \/ q.status = "Pending"
           \/ q.status = "Approved" /\ ~HasStarted(q, now) /\ ~PendingReplacement(r)
        /\ Settle(r, "Cancelled", "cancelled")
        /\ IF q.status = "Pending"
           THEN asks' = AnsweredForAll(r) /\ progress' = TrailClosed(r)
           ELSE UNCHANGED <<asks, progress>>
        /\ UNCHANGED <<votes, accounts, imported, approvalRequired, zone, now>>

\* Any read of a balance brings the books up to date first.
Refresh ==
    /\ Commit(Reconciled(books, now, zone))
    /\ UNCHANGED <<votes, asks, progress, accounts, imported, approvalRequired, zone, now>>

\* Mutant: requests already settled are announced too.
BackfillAllRequests(a) == {<<r, a>> : r \in {x \in RequestIds : a \in ToApprovers(x)}}

\* backfillApprovalNotificationsTx: the pending requests that name a.
Backfill(a) ==
    {<<r, a>> : r \in {x \in RequestIds :
                    books.requests[x].status = "Pending" /\ a \in ToApprovers(x)}}

\* First sign-in of an approver nobody knew: the account is created and the
\* questions asked of the address before are put to it.
SignIn(a) ==
    /\ a \notin accounts
    /\ accounts' = accounts \cup {a}
    /\ asks' = asks \cup Backfill(a)
    /\ UNCHANGED <<books, votes, progress, imported, approvalRequired, zone, now>>

\* The directory sync creates the account, and puts no question to it: not
\* now, and not at the first sign-in, which finds an account.
ImportAccount(a) ==
    /\ a \notin accounts
    /\ accounts' = accounts \cup {a}
    /\ imported' = imported \cup {a}
    /\ UNCHANGED <<books, votes, asks, progress, approvalRequired, zone, now>>

\* updateLeaveSettings, as far as it concerns the gate.
SetApprovalRequired ==
    /\ approvalRequired' = ~approvalRequired
    /\ UNCHANGED <<books, votes, asks, progress, accounts, imported, zone, now>>

\* The employee's country, its zone or the default zone is edited.
SetZone ==
    /\ zone' \in Zones \ {zone}
    /\ UNCHANGED <<books, votes, asks, progress, accounts, imported, approvalRequired, now>>

Tick ==
    /\ now' \in {t \in Instants : t > now}
    /\ UNCHANGED <<books, votes, asks, progress, accounts, imported, approvalRequired, zone>>

Next ==
    \/ \E r \in RequestIds : Submit(r) \/ ForceDecide(r) \/ Cancel(r)
    \/ \E r, o \in RequestIds : Modify(r, o)
    \/ \E r \in RequestIds, a \in Approvers :
            VoteApprove(r, a) \/ VoteReject(r, a) \/ RemoveApprover(r, a)
    \/ \E a \in Approvers : SignIn(a) \/ ImportAccount(a)
    \/ Refresh \/ SetApprovalRequired \/ SetZone \/ Tick

Spec == Init /\ [][Next]_vars

--------------------------------------------------------------------------------
(* Properties *)

\* Every table holds rows of its kind.
TypeOK ==
    /\ books \in Books
    /\ votes \in [RequestIds -> [Approvers -> Decisions]]
    /\ asks \subseteq RequestIds \X Approvers
    /\ progress \subseteq RequestIds
    /\ accounts \subseteq Approvers
    /\ imported \subseteq accounts
    /\ approvalRequired \in BOOLEAN
    /\ zone \in Zones
    /\ now \in Nat

\* The hours of active requests still reserved on one balance row, and those
\* of any request already consumed from it.
HeldClaims(b, k, y) ==
    {c \in RequestIds \X Slots :
        LET q == b.requests[c[1]]
        IN  IsActive(q) /\ c[2] \in Charging(q, RemainingPaid(q), k, y)}

SpentClaims(b, k, y) ==
    {c \in RequestIds \X Slots :
        LET q == b.requests[c[1]]
        IN  c[2] \in Charging(q, PaidSlots(q) \ RemainingPaid(q), k, y)}

\* onHold of every (type, year) row is exactly what the pending and approved
\* requests still reserve there: no hold is lost, leaked or released twice,
\* whichever path settled the request and however its days were split over
\* years, hours and paid or unpaid (recordBalanceChange, releaseHold).
HoldsMatchRequests ==
    \A k \in LeaveTypes, y \in Years :
        books.onHold[<<k, y>>] = Cardinality(HeldClaims(books, k, y))

\* spent of every row is exactly the consumed paid hours charged to it: a leave
\* day is debited once, in its own year, and never given back
\* (reconcileApprovedLeaveTx).
SpentMatchesConsumed ==
    \A k \in LeaveTypes, y \in Years :
        books.spent[<<k, y>>] = Cardinality(SpentClaims(books, k, y))

\* The invariant remainingPaidDaysByYear relies on: the scalar a request
\* carries is what its day list and cursor say, or nothing once it settled.
HeldScalarMatchesCursor ==
    \A r \in RequestIds :
        LET q == books.requests[r]
        IN  q.held = IF IsActive(q) THEN Cardinality(RemainingPaid(q)) ELSE 0

\* "You cannot be on two leaves at once": two active requests share a date only
\* while one is the pending replacement of the other (findOverlappingRequests,
\* promoteToApprovedTx).
NoDoubleBooking ==
    \A r, x \in RequestIds :
        LET q == books.requests[r]
            p == books.requests[x]
        IN  /\ r # x
            /\ IsActive(q) /\ IsActive(p)
            /\ (q.first..q.last) \cap (p.first..p.last) # {}
            => \/ q.status = "Pending" /\ q.supersedes = x
               \/ p.status = "Pending" /\ p.supersedes = r

\* A pending replacement always has a live original to swap with, and is the
\* only one: nothing can cancel or replace the original under it
\* (assertCancellable, submitLeaveRequestModification).
ReplacementHasOriginal ==
    \A r \in RequestIds :
        LET q == books.requests[r]
        IN  q.status = "Pending" /\ q.supersedes # NoRequest
            => /\ books.requests[q.supersedes].status = "Approved"
               /\ \A x \in RequestIds \ {r} :
                    books.requests[x].status = "Pending" => books.requests[x].supersedes # q.supersedes

\* The answer of approver a, who can sign in, would still count on request r.
IsOpen(r, a) ==
    /\ books.requests[r].status = "Pending"
    /\ votes[r][a] = "pending"
    /\ a \in accounts

\* A question in an approver's feed is open exactly as long as the answer can
\* still count, whoever settled the request and however; only somebody whose
\* account came from the directory may have missed one (recordMany,
\* resolveOpenRows, backfillApprovalNotificationsTx).
AsksAreOpenQuestions ==
    \A r \in RequestIds, a \in Approvers :
        /\ <<r, a>> \in asks => IsOpen(r, a)
        /\ IsOpen(r, a) /\ a \notin imported => <<r, a>> \in asks

\* "A cause cannot commit without its notification", and an approver who had
\* no account finds the question on arrival, says NotificationService: nobody
\* who can decide a request is left unasked.
EveryQuestionIsAsked ==
    \A r \in RequestIds, a \in Approvers : IsOpen(r, a) => <<r, a>> \in asks

\* The requester's "approved (1 of 2)" trail ends with the request.
ProgressOnlyWhilePending ==
    \A r \in progress : books.requests[r].status = "Pending"

\* Leave that has been lived through is never undone: when an approved request
\* is cancelled or superseded none of its days has ended, in the employee's
\* own time, though the guard compares UTC dates (assertCancellable,
\* promoteToApprovedTx).
LivedLeaveStands ==
    [][\A r \in RequestIds :
            LET q == books.requests[r]
            IN  q.status = "Approved" /\ books'.requests[r].status # "Approved"
                => \A d \in LeaveDays(q) : d \notin q.consumed /\ EndOfDay(d, zone) > now]_vars

\* A settled request is history: its row, its votes and its cursor are never
\* written again, and a vote once cast is only ever removed, on a request still
\* pending.
HistoryIsFinal ==
    [][\A r \in RequestIds :
            /\ books.requests[r].status \in {"Rejected", "Cancelled", "Superseded"}
               => books'.requests[r] = books.requests[r] /\ votes'[r] = votes[r]
            /\ \A a \in Approvers :
                votes[r][a] \in {"approved", "rejected"} /\ votes'[r][a] # votes[r][a]
                => votes'[r][a] = "none" /\ books.requests[r].status = "Pending"]_vars

\* Nothing becomes approved but by all of its approvers, at least one, or an
\* override, or because nobody is asked while approval is optional.
GateIsHonoured ==
    [][\A r \in RequestIds :
            books.requests[r].status # "Approved" /\ books'.requests[r].status = "Approved"
            => LET to == {a \in Approvers : votes'[r][a] # "none"}
               IN  \/ to # {} /\ \A a \in to : votes'[r][a] = "approved"
                   \/ to = {} /\ ~approvalRequired /\ books.requests[r].status = "Absent"
                   \/ books'.requests[r].lastAction = "force-approved"]_vars

--------------------------------------------------------------------------------
(* The books as a ledger of claims *)

\* The claims that slots S of request q make: each on its own year's balance.
ClaimsOn(q, S) == {<<<<q.type, YearOf(s[1])>>, s>> : s \in S}

PhaseOf(q) ==
    CASE q.status = "Absent" -> "new"
      [] IsActive(q) -> "open"
      [] OTHER -> "done"

ReservedBy(q) == IF IsActive(q) THEN ClaimsOn(q, RemainingPaid(q)) ELSE {}

UsedBy(q) == ClaimsOn(q, PaidSlots(q) \ RemainingPaid(q))

Ledger == INSTANCE LeaveLedger WITH
    Accounts <- Balances,
    Hours    <- Slots,
    phase    <- [r \in RequestIds |-> PhaseOf(books.requests[r])],
    reserved <- [r \in RequestIds |-> ReservedBy(books.requests[r])],
    used     <- [r \in RequestIds |-> UsedBy(books.requests[r])],
    onHold   <- books.onHold,
    spent    <- books.spent

\* The requests implement the ledger: whatever a transaction does, a request
\* files its claims once, then either gives all of them back with none taken,
\* or takes them one after the other for good, and both columns of every
\* balance follow (recordBalanceChange, releaseHold, reconcileApprovedLeaveTx).
ImplementsLedger == Ledger!Spec

================================================================================
