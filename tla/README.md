# Verification of leave-management

TLA+ models of the leave service (`src/apps/api`) and of the one part of its web client that
keeps state of its own, the TLC runs that check them on small instances, and TLAPS proofs of
what they state for every instance. Below, `domain` is
`src/apps/api/src/domain/leave-domain.service.ts`, which holds nearly all of the system's
logic: each public method of `LeaveDomainService` opens one PostgreSQL transaction, and the
controllers, the scheduler and the importer call these methods.

Contents: [the system](#the-system), [the modules](#the-modules), [the runs](#the-runs),
[the proofs](#the-proofs), [where code and comments part](#where-code-and-comments-part),
[what is not modelled](#what-is-not-modelled).

## The system

An employee files a request for leave: a type, a period, and the hours booked on each working
day of it. The working days it covers and what each costs are frozen into the row
(`leaveDays`, `dayPortions`), the planner marks those the balance cannot fund as unpaid, and
the paid ones are put on hold on the balance of their own calendar year. Approvers are named by
email address, with or without an account. When all of them have approved, the request is
approved; one rejection ends it; an administrator may override them or remove one. A leave not
yet started can be cancelled, or changed: the change is a request of its own, and when it is
approved the leave it replaces is superseded in the same transaction. Approved days that end,
at the employee's own midnight, move from hold to spent. No scheduler drives this: every read of
a balance first brings the books up to date, accrues the months that have come, and closes the
years that have gone.

Accounts come from an LDAP directory, by a scheduled pass or at sign-in. Everything an employee
or an approver should know is a row of their notification feed, written in the transaction that
causes it; a PostgreSQL signal tells open browser tabs to fetch the feed again.

| component | state | operations | interacts through | hard behaviour | what makes it correct |
|---|---|---|---|---|---|
| leave requests | request and approver rows | submit, modify, vote, override, remove an approver, cancel | balance rows, notifications, locks | many paths settle a request; changes of changes; two clocks (UTC and local) | a date booked once; settled once; the gate honoured; lived leave stands |
| balance ledger | `accrued`, `onHold`, `spent` per user, type and year; append-only changes | hold, release, spend, accrue, adjust | every method above | absolute writes without locks; year boundaries | holds and spending agree with the requests |
| concurrent transactions | row and advisory locks | lock, re-read, commit, roll back | PostgreSQL | stale reads, double votes, lock cycles | what the lock order protects, and only that |
| planning engine | none: it reads | which days are funded | submission, edits | greedy split over future accruals | no promised day overdraws |
| accrual and year close | allocations, `closedAt` | catch-up, close, re-anchor, adjust | any balance read | replay after dormancy; late closes; edits of settled figures | idempotent, each boundary once, no day funded twice |
| policies and memberships | policies, membership timeline | create, rename, retire, reopen, default, delete; enrol, transfer, cancel | accrual, requests, import | piecewise years, back-dated transfers, rows superseded and revived | one timeline per account; nobody outlives a policy; monthly targets add up to the year |
| accounts and roles | users, roles | sign-in, switching off and on | approver addresses | first sign-in after being named | one account per person; every open question is asked |
| settings and calendars | settings, countries, holidays | update | submission, spending | zone edits between two midnights | a day is spent once |
| approval notifications | notification rows | record, resolve, backfill | every decision | open rows must follow the request | open exactly while an answer counts |
| live feed | `LISTEN` connection, streams, the tab's store | notify, reconnect, resync, merge | PostgreSQL NOTIFY | signals lost while disconnected; answers out of order | the tab comes to show the table |
| directory sync | users, last pass | fetch, upsert, deactivate | accounts | stale snapshot, concurrent passes | nobody present is switched off |
| email notifications | delivery rows | track, send, mark | events after commit | crash between commit and send | no silent loss |
| history import | none of its own | report on a file; assign policies, replay submit and approve | one transaction per employee | a file resolved whole, then row by row; re-runs after a lost answer | what was reported is what is done |
| audit log, controllers, web client, contracts, migrations | | | | | |

Components touch at three places. Requests, accrual and planning share the balance rows
(`LeaveRequests` has holds and spending, `YearBooks` adds accrual and the planner). Requests and
accounts share the approvers' questions (`LeaveRequests` has both). Everything shares the
database, which the interleaved models are about.

## The modules

| module | what it models | a step is |
|---|---|---|
| `LeaveRequests` | what the transactions on requests do, one at a time | one transaction |
| `LeaveLedger` | what they promise the books: the abstract specification of `LeaveRequests` | any number of movements |
| `LeaveTransactions` | how the locks and reads of these transactions interleave | one statement that decides an outcome |
| `BalanceTransactions` | how their unlocked balance writes interleave | one SELECT, UPDATE or COMMIT |
| `PolicySchedule` | the pure core of the policy engine: targets, caps, probation | (operators only) |
| `LeavePlanning` | the planner, over `PolicySchedule` | (operators only) |
| `YearBooks` | one employee over the years, over `LeavePlanning` | one transaction |
| `PolicyResolution` | which policy a row of an import lands on, for the report and for the run | (operators only) |
| `PolicyCatalogue` | the catalogue and all accounts' memberships, over `PolicyResolution` | one transaction |
| `DirectorySync` | sync passes, sign-ins and administrators on the accounts | one statement |
| `LiveFeed` | table, signal, listener, stream and the tab's store | one message or query |
| `LeaveRequestsProofs`, `LeaveTransactionsProofs`, `BalanceTransactionsProofs`, `DirectorySyncProofs`, `PolicyCatalogueProofs`, `LiveFeedProofs`, `YearBooksProofs` | theorems about the modules they are named for | |
| `OrderLemmas` | least numbers and first elements, for these proofs | |
| `MC...` | constants for TLC | |

A definition whose comment begins with "Mutant" is a plausible mistake, which the runs must
notice when it takes the place of the definition below it.

### LeaveRequests

The requests of one employee; other employees meet them nowhere but in the settings. The state:

| variable | in the code |
|---|---|
| `books.requests[r]` | `LeaveRequestEntity`: `status`, `leaveType`, `startDate`, `endDate`, `leaveDays` with `dayPortions` (`slots`), `unpaidLeaveDays`, `spentDaysConsumed` (`consumed`), `remainingHeldDays` (`held`), `supersedesRequestId`, `lastAction` |
| `books.onHold`, `books.spent` | the columns of `LeaveBalanceEntity`, per type and year |
| `votes[r][a]` | `decision` of the approver row of kind `to`, or `"none"` without a row |
| `asks`, `progress` | unresolved `approval_needed` and `approval_progressed` notifications |
| `accounts`, `imported` | the approvers who have a user row, and those whose row the directory sync made |
| `approvalRequired`, `zone`, `now` | the settings that matter, and the clock |

| action | method |
|---|---|
| `Submit`, `Modify` (both `CreateRequest`) | `submitLeaveRequest`, `submitLeaveRequestModification`, `createLeaveRequestTx` |
| `VoteApprove`, `VoteReject` | `decideLeaveRequest` |
| `ForceDecide`, `RemoveApprover`, `Cancel` | `forceDecideLeaveRequest`, `removeLeaveRequestApprover`, `cancelLeaveRequest` |
| `Refresh` | `refreshBalances`, its consumption part |
| `SignIn`, `ImportAccount` | `findOrCreateUserFromIdentity`, `syncUsersFromDirectory`, for a new account |
| `SetApprovalRequired`, `SetZone`, `Tick` | `updateLeaveSettings`, the clock |

The helpers carry the calls the methods share: `Reconciled` is `reconcileApprovedLeaveTx`,
`Held` the holds a submission posts, `Released` is `releaseHold`, `Promoted` is
`promoteToApprovedTx`, and `Commit` the check of `recordBalanceChange` that throws, and so rolls
back, when a column would become negative.

Abstractions:

- Leave is counted in hours. A request that books h hours of date d claims the slots
  `<<d, 1>> .. <<d, h>>`; the code stores h / hoursPerDay, rounded to three decimals.
- The cursor `spentDaysConsumed` counts a prefix of `leaveDays`; here it is that set of dates.
- The planner is a free choice: any subset of the days may turn out unpaid. What is true here is
  true whatever it decides; `YearBooks` has the real one.
- The submission guards that concern one request only (profile, start date, calendar on file,
  recipients who may be asked) are not modelled: the inputs are those that pass them.
  CC recipients, inactive recipients and the historical mode of the import are left out.
- Accrual is left out, so is `accrued`: no action modelled here reads it, the planner apart.
- Zones are whole hours. `Zones \subseteq -12..14` is what the world uses, and `LivedLeaveStands`
  depends on it: the guards compare UTC dates, while days end locally.

### LeaveLedger

The abstract specification: a request claims hours of balances, once; it then gives back all of
them with none taken, or takes them for good; and the two columns of a balance are the totals.
It knows nothing of statuses, approvers, replacements or clocks. `LeaveRequests` implements it
under the mapping at the end of that module: a claim is a slot paired with the balance of its
leave type and year, `reserved` are the claims an active request has not consumed, `used` the paid
ones it has, the phase follows the status. `Ledger!Next` recomputes the columns from the claims,
where the code moves them by signed amounts one entry at a time, so the refinement
(`ImplementsLedger`) says that the sum of all these movements is right on every path.

### LeaveTransactions

READ COMMITTED, the default nobody overrides in `database/data-source.ts`: a statement sees what
was committed before it. A transaction is a record with the point it has reached; its writes
appear when it commits, since every row it updates is locked by then and every row it inserts is
invisible. Locks are the rows (`lockRequestForUpdate`) and one advisory lock per leave type
(`lockUserBalanceForUpdate`); `Lock` waits for one and re-reads the row, as
`SELECT ... FOR UPDATE` does. Any transaction may be rolled back at any point.

`BeginSubmission` and `BeginDecision` require what the caller saw when it looked (the original
approved, the request active); by the time a lock is granted that may no longer hold, which is
what the re-reads under the lock are for.

### BalanceTransactions

The writes `reconcileApprovedLeaveTx` and `recordBalanceChange` make take no lock first. TypeORM's
`save` reads the row again and updates the columns that differ, with absolute values, so the model
has `ReadBalance`, `Reselect` and `Update` as separate steps. `db` is what is committed, `draft`
what the transaction that has locked a row sees of it. All days are whole and paid and charge one
balance row. A spent day is entered as of its own end, so two transactions that spend it from the
same figures mean to write the same row, `updatedAt` included, and the later of them finds nothing to
write and takes no lock; a hold is entered as of now, and always writes (`Stale`). Request ids are
numbers in the order of submission, in which reconciliation goes through them (`Current`).
"approval" stands for any of the paths that promote, "cancellation" for any that release. A
transaction sees one midnight at most (`Midnight`): it would have to stay open for a day otherwise.

### PolicySchedule and LeavePlanning

Operators, no variables. `PolicySchedule` translates `policy-schedule.ts` and the date helpers
around it: which policy of a timeline owns a month (`Owner`, `deriveYearSchedule`), what a year
should have accrued by a month (`PieceTarget`, `pieceTargetDays`), the entitlement a carryover cap
is a share of (`CapBase`), what survives a close (`Kept`, `applyCarryoverPolicy`), and the days
probation forces to be unpaid. Amounts are twelfths of a day, written as `MonthsPerYear`-ths, so
that no monthly share is rounded. A month has at least two dates, the last of which stands for its
second half, since a hire or a transfer in the second half counts from the next month.

`LeavePlanning` translates `evaluatePlannedCommitments` and its inputs: what the committed
requests charge by each date, a leave and its pending change counted as the dearer of the two at
every date (`PairCost`); what will have accrued by a date still ahead, next year's carryover
forecast included (`ProjectedAt`, `ProjectedCarryover`); whether every promise is covered
(`PromisesKept`); and which days of a new request the balance can fund, greedily in date order
(`PaidDays`). Every day is a whole day and every date a working day.

### YearBooks

One employee. `employee` is everything the database holds about them:

| field | in the code |
|---|---|
| `anchor`, `rows` | `employmentStartDate`; the live `LeavePolicyMembershipEntity` rows, by `from` |
| `accrued` | `accruedDays` of the balance row, per type and year |
| `made`, `carried`, `finalized`, `closed`, `manual` | `LeaveAllocationEntity`: its existence, `carriedOverDays`, `carryoverFinalized`, `closedAt`, `manualAdjustmentDays` |
| `requests` | as in `LeaveRequests`, whole days; rejected, cancelled and superseded are all "Closed" |
| `ledger` | the balance changes of the transaction under way, in posting order |

`spent` and `onHold` are derived from the requests (`Spent`, `Hold`): that the columns agree with
them is what `LeaveRequests` proves. The other variables are the carryover settings, the date, and
the list of administrative edits so far, which bounds them and lets properties except some.

| action | method |
|---|---|
| `Refresh` | `refreshBalances`: `planCatchUpTx`, then at each boundary spend, accrue and close |
| `Submit`, `Modify`, `Approve`, `Settle` | `submitLeaveRequest`, `submitLeaveRequestModification`, `promoteToApprovedTx`, `cancelLeaveRequest` and the rejections |
| `SetStartDate` | `updateEmployeeAdmin`, a first or a corrected employment start date |
| `AdjustVacation` | `adjustEmployeeVacationBalance` |
| `Transfer`, `CancelTransfer` | `transferEmployeePolicy` (scheduled, immediate, prospective, retroactive), `cancelScheduledPolicyTransfer` |
| `SetCarryover` | `updateLeaveSettings` |
| `Tick` | the clock |

Beneath them, `Accrued` is `accrueForYear`, `Finalized` is `finalizeCarryoverIfDue`, `CaughtUp` is
the replay of `refreshBalancesTx`, `Reanchored` is `reanchorAccrual`, `CommitEdit` its guard that
no promised day is left uncovered. Left out: the cached `totalDays` (derived), the fallback for
accounts without a membership (the migration gave each one), the limit of ten years a single
replay closes (`MAX_CARRYOVER_FINALIZATION_YEARS`, beyond the three years of the instance), hours
and portions. Transactions do not overlap here.

### PolicyResolution and PolicyCatalogue

`YearBooks` takes the policies for granted and follows one employee's figures. `PolicyCatalogue`
is the other half: no figures, but the policies themselves and the membership rows of several
accounts, superseded ones included, as the tables hold them.

| variable | in the code |
|---|---|
| `policies[p]` | `LeavePolicyEntity`: `name`, its terms (one value per fingerprint), `effectiveFrom`, `effectiveTo` |
| `default` | the policy with `isDefault`, which a unique index makes one |
| `rows[u][i]` | `LeavePolicyMembershipEntity`: `policyId`, `effectiveFrom`, `effectiveTo`, `supersededByRowId` (`by`), whether `assignedByUserId` is NULL (`auto`) |
| `hired`, `now` | `employmentStartDate`; the date by UTC, from which a user's calendar is `Lead[u]` days away |
| `joining` | the default policy that a provisioning under way has read |

| action | method |
|---|---|
| `CreatePolicy`, `RenamePolicy`, `RetirePolicy`, `ReopenPolicy` | `createPolicyTx`, `updatePolicy` |
| `SetDefault`, `DeletePolicy` | `setDefaultPolicy`, `deletePolicy` |
| `ReadDefault`, `Provision` | `upsertUserTx` for a new account |
| `SetStartDate` | `updateEmployeeAdmin` |
| `Transfer`, `CancelTransfer` | `planPolicyTransferTx` with `transferEmployeePolicy`, `cancelScheduledPolicyTransfer` |
| `ImportEmployee` | `applyUserData`: `findOrCreatePolicyByTermsTx`, `assignHistoricalMembershipTx` |

All but provisioning and the start date hold the lock 'policy:catalog' to the commit, and take it
before they read or write a policy or a membership (an import writes the profile first), so they are
single actions; the provisioning of an account reads the default without it and is two. A transfer
that the planner of promised days refuses is a transfer that is not made. `Removed` is a DELETE with what the foreign key does to the rows that referred to it. Where a query orders
by `effectiveFrom` alone and two rows start on one day, either may come first (`Latest`, `Earliest`).

`PolicyResolution` translates `resolvePolicy` (`Joined`, `Minted`) and the two walks over a file that
call it: `Plan` is `groupPolicies`, whose catalogue grows in memory by what the run will mint, and
`CarriedOut` is the run, each employee's transaction in turn with the name the operator typed for the
group (`chosenPolicyNameByEmail`). Names are a stem and a place on the ladder "stem", "stem (2)";
case and surrounding blanks are left out, and so are names that end like a place on the ladder.

### DirectorySync

`directory` is the LDAP tree (groups, whether the entry maps, country), `users`, `roles` and
`countries` are the committed tables, `tx[t]` is the pass or sign-in on connection t: where it is,
what it read, what it has written. Nothing locks what it reads; a row it has written is locked
until it ends, and unique indexes make an INSERT wait (`HasRow`, `HasSubject`, `HasRole`,
`HasCountry`). `flips` counts audited deactivations less reactivations. Two histories are
read by properties only: `left`, whether the directory has been without the account since its
creation, and `missed` of a transaction, whom a pass did not find when it read the directory.

| action | code |
|---|---|
| `CaptureTime`, `ReadDirectory` | `runSync` before its transaction; `refuseUnusableMembership` |
| `BeginPass` | `tryDirectorySyncLockTx`, or the answer already-running |
| `NextEntry`, `Scan`, `Retire` | the loops of `syncUsersFromDirectory`, `deactivationWithheld` |
| `Match` | `findOrCreateUserFromIdentity` up to its first write |
| `EnsureCountry`, `InsertCountry`, `UpsertUser`, `ReadRoles`, `WriteRoles` | `ensureCountry`, `upsertUserTx`, `assignUserRolesTx`, for both |
| `SetEmployeeActive` | `setEmployeeActive` |
| `ChangeDirectory`, `Crash`, `BreakDeadlock`, `Commit` | outside, and PostgreSQL |

`createdAt` matters only against the `fetchedAt` of a pass, so a row carries the set of passes that
began at or before its creation (`unseen`) in place of a clock.

### LiveFeed

One user, one tab, one server. `rows` is the notification table, `listener` the `LISTEN`
connection and what waits on it, `stream` the event stream and a frame on its way, `requests` the
tab's requests under way, `store` the slice of `notifications.store.ts`.

| action | code |
|---|---|
| `Record`, `Resolve` | `recordMany`, `resolveOpenRows`, and the `pg_notify` in their transaction |
| `Connect`, `Deliver`, `StartDeaf`, `LoseListener` | `NotificationListenerService`: `connect`, its handlers, `scheduleReconnect` |
| `OpenStream`, `LoseStream`, `ExpireStream`, `HandleFrame` | `streamFor` with its lifetime, `streamEpic` |
| `AskMore`, `MarkRead`, `MarkAllRead` | the epics of the store and the widgets that start them |
| `Arrive`, `ReadPage`, `ReadCount` | `markRead`, `markAllRead`, `getNotifications`: two queries with a snapshot each |
| `Receive`, `ReceiveMore`, `Fail` | the reducers, `mergeSnapshot` first of all |
| `Restart` | the server process |

Two things the store or the server cannot notice are recorded and excepted by name in
`QuietIsFresh`: two answers under way at once, of which the older may arrive last (`alone`), and a
change made before the server has listened for the first time (`missed`). `EventuallyFresh` has
no exception. `ExpireStream` waits for the refetch its frame started: the stream lives a
quarter of an hour, which is a matter of time and not of order. Not covered: more than fifty new
rows at once leave a hole between the page and the kept tail, which only paging would show, and
the stamping of the tail by mark-all happens only if the answer's page has a read row to take the
time from, which the model has as it is.

## The runs

| run | instance | properties | states |
|---|---|---|---|
| `books` | 2 requests, dates 0..3 with a New Year before 2, whole and half days, zones +14 and -12 | `TypeOK`, `HoldsMatchRequests`, `SpentMatchesConsumed`, `HeldScalarMatchesCursor`, `LivedLeaveStands`, `ImplementsLedger` | 523,000 |
| `gate` | 2 requests, 3 periods that touch or nest, 2 approvers of whom one may lack an account, a clock that reaches the leave | `AsksAreOpenQuestions`, `NoDoubleBooking`, `HistoryIsFinal`, `GateIsHonoured` | 693,000 |
| `unasked` | 1 request, 1 newcomer | `EveryQuestionIsAsked` is violated | |
| `booking` | 3 sessions, 2 requests of one type on the same date, 2 approvers | `TypeOK`, `BookedOncePerType`, `ReplacementHasOriginal`, `GateNeverStuck`, `NobodyWaitsInACircle`, `SettledOnce` | 1,300,000 |
| `two_types` | 2 sessions, 2 requests, 2 leave types | `BookedOnce` is violated | |
| `overlapping` | 2 sessions; a leave booked early, a trip of two dates before it, a change to the former | `TypeOK`, `CursorMatchesHeld`, `SettledStaySettled`, `OnlyRefusedOrLostDeadlock` | 737,000 |
| `two_refreshes` | the same | `SpentOncePerDay` is violated | |
| `year_books` | 3 leave years of 2 months of 2 dates, 2 policies, 2 requests, 2 edits | `TypeOK`, `AccruedOnTarget`, `DormancyLeavesNoTrace`, `NothingFundedTwice`, `ForecastIsBookedUnlessChanging`, `EveryOutcomeIsFunded`, `LedgerKeepsOrder`, `BooksStayClosed` | 59,000 |
| `directory` | 1 pass, again and again, 1 sign-in, 2 addresses, 2 subjects, 1 country, 2 disturbances | `TypeOK`, `FlipsAreAudited`, `NobodyPresentIsRetired`, `LinksAreForLife`, `EventuallyMirrored` | 1,200,000 |
| `feed` | 2 rows, pages of 1, 1 request besides the refetch, 1 click, 1 fault | `TypeOK`, `QuietIsFresh`, `EventuallyFresh` | 648,000 |
| `catalogue` | 3 policies, 2 deals, 2 names, 2 accounts on calendars a day apart, 3 days over a New Year, 4 edits; 12 files of 2 rows | `TypeOK`, `OneTimeline`, `PlanIsCarriedOut`, `OutlivedOnlyByReopening` | 220,000 |
| `overridden` | the same with 3 edits | `DeletingLeavesRoom` is violated | |

Why the bounds suffice.

- `books`: two requests are the least for one balance row to be shared and for a replacement to
  meet its original; a period over the New Year splits its cost over two rows; two hours a day
  make portions that differ from counts of dates; the instants are the start, the end of the first
  leave day furthest east, and the end of everything furthest west.
- `gate`: the periods touch on a holiday, nest, and are disjoint. The second approver is one for
  whom "all" and "any" differ, one of whom may be a default one. A change of a change needs three
  requests; that no chain of them breaks `NoDoubleBooking` is proved.
- `booking`: a lock cycle of three needs three sessions; two requests are a leave and its change,
  or two leaves in conflict.
- `overlapping`: every stale write is a matter of two transactions. The trip has two dates, so that
  a cursor can be half-way; the later leave and its change can be swapped. Only the second exception of
  `OnlyRefusedOrLostDeadlock` needs a third session.
- `year_books`: the account is created in the second leave year and the clock runs to the start of
  the one after the next, so that there is a year to sleep through, a year below the epoch and a
  next year to book ahead. The policies differ in every term that a month can tell apart: rate,
  yearly raise with its cap, probation, sick tranche. Hire and transfer dates lie in both halves of
  a month. Two edits make every ordered pair of them; cancelling a transfer does not count.
  The bookings are one over two days, one across the year's end, and one sick day.
- `directory`: a race is between two transactions, and a pass starts again for ever. Two addresses
  make one departure and one newcomer, and a subject that moves between them. Two disturbances
  are, for example, a crash after a change of the directory, a change and its reversal, or an
  administrator who switches somebody off and on again between two statements of a pass.
- `feed`: two rows and pages of one are a list longer than a page; one fault can hit any connection
  at any moment, and one more refetch repairs what it broke, or not.

- `catalogue`: a twin needs two policies of one deal, a numbered name a third policy. The three days
  have a New Year in them, so that a retroactive transfer reaches back over one row or two; four edits
  are, for example, a policy created, a transfer scheduled to it, the old policy retired and the
  transfer cancelled. Two accounts differ in their calendar, which makes the day of enrolment a day of the future for one of
  them. Files of two rows have every way in which one row can decide the other: joining what the
  first one mints, by terms or by the very name it derives, or taking its name.

Bounds: `RequestIds`, `Requests`, `Instants`, `LastDay`, `Sessions`, `Passes`, `Logins`, `Rows`, `MaxEdits`,
`MaxRows`, `MaxChanges`, `MaxOthers`, `MaxClicks` and `MaxFaults` are finite; a settled request keeps its id, so
a run ends when the ids are used up. That is why the configurations do not check for deadlock: when
ids, clock and faults are used up, nothing more may happen. Deadlock among transactions is a
property instead (`NobodyWaitsInACircle`, `OnlyRefusedOrLostDeadlock`). Request ids,
sessions and approvers are symmetric where the module treats them alike and no property is a
liveness property.

Fairness is assumed in two modules, and nobody is anywhere assumed to file, vote, sign in or
read. `DirectorySync!FairSpec`: the scheduler's timer starts a pass again and again
(`ldap-sync.scheduler.ts`), and a transaction that has begun and waits for nobody goes on; each is
weak fairness of the pass or sign-in. `EventuallyMirrored` supposes in addition that the directory
comes to rest readable, and that no deadlock recurs for ever, which nothing prevents. `LiveFeed!FairSpec`: the listener reconnects (`scheduleReconnect`), the browser reopens
its event stream, streams expire (`STREAM_MAX_LIFETIME_MS`), and signals, frames, queries and
answers that are under way arrive, unless one of the bounded faults stops them; weak fairness of each.

What the exceptions in the properties of `YearBooks` say. The carryover into a year is computed once
and never revised, so `NothingFundedTwice` does not speak of an account whose start date was
corrected after the fact (the comment at domain:7914 admits the stale figure).
`ForecastIsBookedUnlessChanging`: the close counts a leave and its pending change both, the forecast
the dearer of the two, so the two differ as long as a change is pending. `EveryOutcomeIsFunded`:
settings are changed without asking whom that leaves short (`updateLeaveSettings` runs no planner).
`LedgerKeepsOrder`: after a year that no transaction saw, accruals of the slept-through year are
posted when the next boundary is visited, and a year settled as one before the hire, which a
corrected start date then makes one of employment, has a predecessor that owes months but awaits no
close (`Awake`). `DormancyLeavesNoTrace`: a read in a year before the hire (`ensureAllocation`) makes
an empty row that a later read does not, so `Bare` leaves the rows of those years out.

## The proofs

Seven modules hold theorems about the models and `OrderLemmas` what four of them share. `tlapm` checks all
of it, for every value of the constants.

| theorem | property | for any number of |
|---|---|---|
| **`LeaveRequestsProofs`** | | requests, approvers, leave types, dates, hours, zones |
| `TypeCorrect` | `TypeOK` | |
| `HoldsAreRight`, `SpendingIsRight`, `HeldScalarIsRight` | `HoldsMatchRequests`, `SpentMatchesConsumed`, `HeldScalarMatchesCursor` | |
| `NoDateIsBookedTwice`, `ReplacementsArePaired` | `NoDoubleBooking`; that a pending replacement has its original | |
| `QuestionsAreOpen`, `TrailsEnd` | `AsksAreOpenQuestions`; that the trail of votes ends with the request | |
| `LivedLeaveIsKept`, `HistoryIsKept`, `GateIsKept` | `LivedLeaveStands`, `HistoryIsFinal`, `GateIsHonoured` | |
| `LedgerIsImplemented` | `ImplementsLedger` | |
| **`LeaveTransactionsProofs`** | | sessions, requests, approvers, leave types, periods |
| `TypeCorrect` | `TypeOK` | |
| `WithinTypeBookedOnce`, `ReplacementsStayPaired` | `BookedOncePerType`, `ReplacementHasOriginal` | |
| `GateDoesNotStick`, `OneSettlement` | `GateNeverStuck`, `SettledOnce` | |
| `NoCircle` | `NobodyWaitsInACircle` | |
| **`BalanceTransactionsProofs`** | | sessions, requests, days |
| `TypeCorrect` | `TypeOK` | |
| `CursorCorrect`, `SettledForGood` | `CursorMatchesHeld`, `SettledStaySettled` | |
| `CirclesAreExplained` | `OnlyRefusedOrLostDeadlock` | |
| **`DirectorySyncProofs`** | | accounts, subjects, countries, passes, sign-ins, changes |
| `TypeCorrect` | `TypeOK` | |
| `SwitchesAreAudited`, `OnlyLeaversRetire`, `LinksStay` | `FlipsAreAudited`, `NobodyPresentIsRetired`, `LinksAreForLife` | |
| **`PolicyCatalogueProofs`** | | accounts, policies, memberships, days, leave years, rows of a file |
| `TypeCorrect` | `TypeOK` | |
| `TimelinesAreWhole`, `PoliciesAreOutlivedByReopening` | `OneTimeline`, `OutlivedOnlyByReopening` | |
| `ReportsComeTrue` | `PlanIsCarriedOut` | |
| **`LiveFeedProofs`** | | notifications, rows to a page, clicks, faults |
| `TypeCorrect` | `TypeOK` | |
| `QuietTabsAreFresh` | `QuietIsFresh` | |
| **`YearBooksProofs`** | | years, months, policies and their terms, requests, edits, dates |
| `TypeCorrect` | `TypeOK` | |
| `ClosedForGood`, `BalancesOnTarget`, `CarriedOnce` | `BooksStayClosed`, `AccruedOnTarget`, `NothingFundedTwice` | |
| `LedgerInOrder` | `LedgerKeepsOrder` | |

Assumptions: `CalendarAssumption` (finitely many dates, hours that fit a day), `ClockAssumption`
(hours as naturals, offsets between -12 and +14) and `IdAssumption` (finitely many ids) in
`LeaveRequests`; `NameAssumption` (ids, names and `Nobody` are apart, there is a type and a period
to ask for) in `LeaveTransactions`; `OrderAssumption` (finitely many requests, numbered in their order,
each of finitely many days and at least one) in `BalanceTransactions`; `NameAssumption` (the same kind of thing) and `RowAssumption`
(no row is the absence of one) in `DirectorySync`; `ResolutionAssumption` (finitely many policy ids, names
and deals are apart) and `CatalogueAssumption` (a calendar runs at most a day ahead or behind, a leave
year begins no later than the days in it, offers end no earlier than they begin) in
`PolicyResolution` and `PolicyCatalogue`; `FeedAssumption` (finitely many notifications, a page has room for
one) in `LiveFeed`; `CalendarAssumption` (a year has a month, a month two halves), `TermsAssumption`,
`HorizonAssumption` and `RequestIdsAssumption` (finitely many requests, numbered from one) and
`BooksAssumption` (the clock starts before it stops, a year before the last one; dates, settings and
corrections are of their kind) in `PolicySchedule`, `LeavePlanning` and `YearBooks`. TLC evaluates them in every run of these modules.

*One transaction at a time.* The inductive invariant is `Inv == TypeOK /\ Lawful(books)`. The holds
alone are not inductive: to know that a release gives back what is held, `releaseHold` must find the
scalar `held` in step with the day lists, so `Sound(b)` joins the three statements about the ledger,
and states them of *drafts*, books a transaction has changed and not yet committed, whose columns may
be negative for all one knows. Each helper has a lemma that it keeps `Sound` (`ReconciledSound`,
`FiledSound`, `PromotedSound`, `SettleThenRelease`, ...), each of them an equation between
cardinalities of disjoint sets of slots; none of them uses the guard in `Commit`. `Apart` (no double
booking) needs `Paired` (a pending replacement has a live original and is alone), since only that
tells what the swap frees; `WithinPeriod` ties a row's days to its period, which `LivedLeaveIsKept`
needs. A second invariant, `Feeds`, holds the votes, questions and trails, and is proved from the
first. The action properties follow from the two. `LivedLeaveIsKept` is arithmetic: while the first
day has not begun in UTC, even a zone 14 hours ahead is ten hours short of its end.

*The ledger.* `LedgerIsImplemented` goes row by row (`RowMoves`): every row of every transaction stays
where it is in the ledger, files its claims, consumes some of them, or settles. One fact is needed
beside `Inv`: a pending row has nothing consumed (`Fresh`), so that a rejection or a cancellation
gives back all of its claims. Then `Inv` says what the columns are, as numbers, after any such set of
movements, and that is `Ledger!Next` (`ColumnsAreTotals`). The signed amounts the code posts one by
one appear nowhere in the abstract step.

*Interleaved statements.* The argument about `LeaveTransactions` is that of two-phase locking.
`Locked` says that a session is the holder of exactly the locks its transaction must have taken to be
where it is (`Holds`), `Knows` that what it has read and relies upon is still true: the original is
approved and nobody else awaits it, the period is free, the row under decision is as it was, the
votes are as they were counted. Whoever could make one of these false needs a lock that the reader
holds (`StillKnows`), and a row not yet committed belongs to one transaction (`Distinct`). At the
commit, what is known is what keeps the four statements about the rows (`FiledLawful`,
`DecidedLawful`). `NoCircle`: whoever waits for its first lock holds nothing; whoever waits for a
leave type holds at most an original, so nobody in a circle can wait for a type; whoever waits to swap
holds a pending request and waits for an approved one, and nobody in the circle holds one of those.

*Unlocked writes.* In `BalanceTransactions` nearly nothing is true of the figures: days are spent twice
and movements lost. What is true needs three things. First, `Whole`: every version of a request,
committed, uncommitted or copied, has a cursor that is a prefix of its days, all past, and the held
remainder that belongs to it. Two such versions of an approved leave differ in both columns or in neither
(`DifferTogether`, which counts days), so `save` never mixes two writings. Second, time: whoever has a
leave to save has found its first day behind (`ToDo`), whoever ends an approved leave has found it ahead
(`Knows`); were both open at once, more than one midnight would lie between the starts of the two
(`BehindOrAhead`). Hence no copy of a leave that another has ended meanwhile is ever written back, and
nothing is consumed of a leave that is ended (`ClosedBeforeItBegins`). Third, why a lock is held
(`Holds`): as one's own request or its original, or to save a leave with a day behind it, after having
spent. In a circle nobody waits to save: the holder would be a decision, which time excludes or which is
refused, or another saver, and of two that have both written the balance one is impossible. Nobody
waits for the balance, since its holder could only wait for the balance; nobody for an original, since
its holder would be deciding it, and it is not pending. The proof corrected the property: a saver that
has spent without having had to write the balance (`LostMovement`) escapes it, and TLC then found the
circle, with three sessions and two requests.

*Sync passes and sign-ins.* `Safe` adds to the types what holds of every transaction's record
(`Sound`) and three statements across transactions. A row that one transaction has written is
nobody else's until it commits (`OneWriter`); what was written therefore still fits the row it will
replace (`Fits`): only the columns the transaction means to change differ, and a row that is not there
yet is as old as its transaction. Hence no commit undoes or repeats a switch, and audit rows count
right (`Audited`). A pass is right about who has gone because of what its snapshot means at any later
time: whoever is not in it has been away since it was taken, or is marked as too new for it
(`Snapshots`), which every change of the directory, every new row and every commit must keep; and whoever
is in it is not retired by the pass that read it, whatever becomes of the account meanwhile (`Misses`).
Whoever has an account and is not listed has left (`Absences`); this needs that a sign-in which begins while
its owner is listed notes the departure if one happens before it commits (`NotesAbsences`).

*Memberships.* That each day is governed by one live row is a statement about the live rows, and not
inductive: the rows that a back-dated transfer superseded come alive again when the row that
superseded them is deleted, by a foreign key that is set to null. `Sound(t, today)` says of a timeline
that its live rows are in a line without a gap (`InLine`, `NoGap`), and beyond that why no deletion
revives any: a transfer is cancelled only while it has not begun, and only rows that have begun
supersede (`SupersedingHaveBegun`; `EmptyHaveBegun` serves the same end for rows cut down to nothing);
an import does delete rows that supersede, but among the rows that one of them superseded there is an
open one (`SupersedesOpen`), so the unique index on open rows refuses the import. That is the same
index whose refusal is the run `overridden`: what the comment in the code misses is what the property
rests on. Each operation has a lemma that it leaves a sound timeline (`AppendedIsSound`,
`RewrittenIsSound`, `CancelledIsSound`, `ReplacementIsSound`, `FirstRowIsSound`).
`PoliciesAreOutlivedByReopening` needs that every live row an operation leaves is an earlier one,
perhaps cut short, or joins a policy in force (`OnlyJoins`).

*Reports and runs.* `ReportsComeTrue` couples two walks over a file, that of the report and that of
the run, stage by stage (`Coupled`, `WalksStayCoupled`). Their catalogues may part in three ways, none of
which decides where a row lands: the run opens the window of a policy back while it goes and the report
does not, the run may refuse to, and a group may bear the name that the operator has typed instead of
the one the report minted. They agree on every name that a row yet to come states. For the last,
`OwnName`: within a catalogue a name is one policy's. A group that may be renamed was asked for by name by no
row before (`PlannedRow`), and a later row stating its name would land on it and make it stated
(`RenameableIsUnstated`); hence what the operator types over is a name that no row looks for, and what
is typed is one that none does either.

*The feed.* `QuietIsFresh` speaks of moments when nothing is on its way, and says nothing of how the tab
got there. The invariant adds what holds in between. Either the tab is yet to be told (`Told`: a signal
or a frame is on its way, the listener has to reconnect, the stream to be opened, or it has missed what
nobody will tell), and then nothing is claimed; or every answer under way that no other crosses agrees
with the table as far as it has been read (`Answers`), and the store does once no answer is under way
(`Shown`). A change of the table always leaves the tab to be told; only `HandleFrame` ends that, and it
starts a refetch that has read nothing yet. The user's own marks change the table and tell nobody: what
they rest on is that the mark's own answer is then under way, which any other would cross
(`ArriveKeeps`). `Orderly` is about paging: a further page begins where the list ends, or is asked for in
a list that is no more (`Continues`; `StaysTheEnd` is the case of `mergeSnapshot` that decides
which), so what it adds lies below the newest page and never shows (`MoreShows`).

*The books over the years.* A balance on its target is not something that transactions keep: between
two reads it lags behind, and a correction may leave it anywhere for a moment. `Inv` therefore bounds it
from both sides. An open year holds at least what was entered by hand, which every target includes, and
of vacation at most its target, which grows by the
day; a closed year and the carryover taken from it are together within that target (`Within`). A read
then raises the balance to the last target above it (`AccruedIs`), and what is neither above its
target nor below it is on it (`UpToDateIsOnTarget`). The rest of `Inv` says that closing goes by years: a closed
year, and the one after it, have their carryover settled (`ClosedInOrder`), and nothing is settled,
accrued or adjusted ahead of its year (`NothingEarly`), so that the close of a year finds the one before
it still open, and nobody finds a closed year to settle again. Each function that returns rows has a
lemma that it advances sound books to sound books with the same terms and no closed year touched
(`Advance`: `AccruedToIs`, `RolledIs`, `SettledAllIs`, `FinalizedIs`, `WalkedIs`, `RefreshedIs`); this is
proved of drafts, whose balances may be negative, because a close may take more than there is and be
undone by the check in `Commit`.

New terms of employment move all targets at once. What is past must not fall below what was granted
under the old ones (`NewTerms`), what is current is re-anchored (`ReanchoredTodayIs`). For a start date
entered for the first time that holds because no month had been earned without one. For a transfer it
holds because the timeline of the past years is not touched: the earliest permissible date lies in the
current year, the rows before it are the first ones, in order and without a gap (`Timeline`,
`RewrittenTimeline`, `ReopenedTimeline`), and a row that begins in a later year owns no month of an
earlier one (`SameOwner`). For a corrected start date it does not hold, which is the exception in
`NothingFundedTwice`: after one, `Inv` speaks of the current year only, and that is still enough
for the other four theorems.

*The ledger in order.* Every transaction drops its ledger (`LedgerIsDropped`), so `LedgerKeepsOrder` is
about one read of sound books, and the books say nothing of dates: what has to be followed is the walk
through the boundaries of `refreshAccruals`. While it stands before a boundary, of the dates M it has yet
to visit and with everything up to c filed, three things hold of the draft (`Underway`). What will fall due
by the date of the read does so on dates of M (`Awaits`): later months are granted at later boundaries, and a year
that no transaction saw is what would break it, its months being granted after it, at its close. That is
what `Attended` excludes: every year of the employment has its row, and a year whose carryover is settled
follows one that is closed (`AttendedAwaits`). What is filed is dated by c at the latest and in order
(`AllFiled`). And no approved day before c is left to be spent (`Spendable`). A boundary b keeps this in
its three parts. Reconciling files approved days from the boundary before up to the day before b
(`ReconciledFiles`). Settling files something only where b begins a year, dated the day before and b
(`RolledFiles`, `Shelved`); what it carries over raises balance and target alike, so that nothing more
falls due by it (`RolledExpects`). Accrual files on b and leaves what is owed at later dates as it was
(`AccruedExpects`). The boundaries come in turn (`VisitedUnderway`, `WalkedUnderway`); after the last,
nothing is due, so the accrual of the read itself files nothing, and the reconciliation that follows files days only
(`RefreshedInOrder`).

*Numbers and finite sets.* The library's induction theorems take a predicate for a parameter, which no
prover here can instantiate. `OrderLemmas` proves what needs induction from well-foundedness instead: a
set of naturals has a least element and, if it is finite, a greatest; finitely many things in a strict order have
a first. Hence the first policy of a catalogue, the first free place on the ladder of names and the last
row of a page exist. A fold over years, boundaries, requests or the rows of a file is proved about in the same way
(`FoldIsDefined`, `StagesKeep`): the numbers of steps after which the books are still sound are a set that holds 0 and, with
every number, the next.

Only model-checked: of `YearBooks`, that silence leaves no trace, that forecast and books agree
and that every outcome is funded (`DormancyLeavesNoTrace`,
`ForecastIsBookedUnlessChanging`, `EveryOutcomeIsFunded`): each compares two
whole histories of reads, or a planner's sum over requests with the days a later fold consumes, figure by figure;
further the absence of deadlocks
other than those `NoCircle` and `CirclesAreExplained` exclude, and liveness (`EventuallyFresh`,
`EventuallyMirrored`), which it does not reach either.

## Where code and comments part

1. *Two leaves at once* (`two_types`). The overlap rule spans leave types ("any leave type: you
   cannot be on two leaves at once", domain:10527), the lock that protects it is per type
   (domain:4346). Two simultaneous submissions of different types book the same date.
   `BookedOncePerType` shows that within a type the lock does its work.
2. *A day spent twice* (`two_refreshes`). Two overlapping reads of a balance both consume an
   elapsed day: the ledger has it twice, although domain:2645 and 6312 call this idempotent. The
   class comment (domain:600) concedes that balance writes are not serialized.
3. *A question never asked* (`unasked`). The directory sync creates the account of an approver
   who is waited for; nothing backfills the question, then or at first sign-in (domain:1201).
4. *Nobody to override* (`overridden`). The import in override mode deletes the live memberships of
   an employee and inserts one, which domain:9019 holds to keep the index of open rows satisfied "at
   every step". After a back-dated transfer it does not: the superseded row comes back to life when
   its successor is deleted, because the foreign key is ON DELETE SET NULL, and it is open. The
   insert fails, and so does every later import of that employee in this mode.

Smaller ones have no run of their own. *Expired and governing*: `updatePolicy` retires a policy only
if "resolution must never meet an expired policy that still governs someone" (domain:8482) can be kept,
and advises to schedule transfers first; cancelling such a transfer reopens the membership without
looking at its policy, and a provisioning that has read the default may join one that is retired by the
time it commits. `OutlivedOnlyByReopening` says that these are the only two ways. *A pass and a sign-in
deadlock*: both write countries before users, which domain:1132 takes to exclude it. It does per account; a
pass writes many, and the country of its second account comes after the row of its first.
`BreakDeadlock` in `DirectorySync` is that rollback. *Switched on and off again*: a pass compares the
creation of an account with the moment of its snapshot (domain:1544), not its last reactivation, so
somebody back in the directory whom an administrator switches on while a pass with an older snapshot is under
way is switched off by that pass, and stays so, as no pass reactivates. The model has this;
`NobodyPresentIsRetired` says that only a pass whose own reading misses the account can do it. *The badge and the list*: `notifications-api.ts` says they can
never disagree; a row of an older page that was opened stays unread on the screen while the badge goes
down, because the answer carries the first page and `mergeSnapshot` keeps the tail as it was.

Besides these, `LinksAreForLife` has an exception which a single sign-in at a time never uses and
`LinksStay` needs: a sign-in reads its account without a lock and checks then that it belongs to
nobody else, so of two overlapping first sign-ins of different subjects under one address (one that
the identity provider has moved, say) the later write stands, where domain:1003 says that a login
never overwrites a subject. `OnlyRefusedOrLostDeadlock` delimits the remark in domain:5409 that locking the
replacement and then the original leaves "no cycle to deadlock on": reconciliation under both locks
writes the balance and other requests, and two transactions can wait for one another. One of them is
then a swap that would have been refused anyway, or (with three sessions) one that lost a movement: it
spends a day, finds that another transaction has committed that very row since it read it, writes
nothing and so has no lock of the balance; if a third has spent the next day by then, it writes the
request back with its older cursor, locks it, and goes on to want the balance, while its holder wants
the request. Two refreshes, or a refresh and a submission, suffice for that. PostgreSQL aborts one of them.

## What is not modelled

- *The replay of the history import*. What it does to policies and memberships is in
  `PolicyCatalogue`. The rest replays a workbook through the domain's own methods, one transaction per
  employee, and would need `YearBooks` with a second mode of every request action and years before the
  account's creation; the parsing, most of the code, is data.
- *Email*. One attempt after the commit, journalled before and marked after, no retry: there is no
  recovery to state a property of. Its two crash points are in the list of hazards.
- *Two import reports for one file*. The wizard validates files in batches and merges the reports; the
  model's file is one batch.
- *A user's country, and so calendar, that changes* in `PolicyCatalogue`: `Lead` is a constant.
- *The rounding of hours to thousandths of a day*: arithmetic on one number at a time.
- *Sign-in against submission, statement by statement*; *year closes and policy transfers
  against each other, or two closes of one year*: single-threaded in `LeaveRequests` and `YearBooks`. All
  are listed as hazards.
- *Lost updates of a balance column*: `BalanceTransactions` has them, and the class comment concedes
  them, so no property denies them.
- *The audit log* is appended to inside the transactions modelled and read by no decision;
  `FlipsAreAudited` is about the part that something else relies on. *Controllers* validate and map
  around one call each; *migrations* and *shared contracts* have no behaviour; the *web client*
  beyond its notification store keeps no state that outlives a form. Test tooling is off in
  production.

What could come next: the replay of the import as a second mode of `YearBooks`; year closes and transfers in an
interleaved model with the carryover lock; emails, should a retry ever be written.
