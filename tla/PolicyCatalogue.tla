-------------------------- MODULE PolicyCatalogue --------------------------
(***************************************************************************)
(* The catalogue of leave policies and the memberships that refer to it:   *)
(* policies are created, renamed, retired, reopened, made the default and  *)
(* deleted; accounts are enrolled at their provisioning, transferred and   *)
(* imported.                                                               *)
(*                                                                         *)
(* Every one of these holds the advisory lock 'policy:catalog' for the     *)
(* length of its transaction, and is one action here - except the          *)
(* provisioning of an account, which reads the default policy without the  *)
(* lock: it takes two.                                                     *)
(***************************************************************************)
EXTENDS PolicyResolution

CONSTANTS
  Users,
  Lead,         \* How far each user's calendar is ahead of UTC, in days
  FirstDay,     \* The first day, by UTC
  LastDay,      \* Bound: the clock stops here
  NewYear,      \* The first day of the leave year that a day is in
  FirstPolicy,  \* The default policy that the migration leaves
  Offers,       \* What administrators create: [name, terms, from, to]
  Hires,        \* Employment start dates
  Imports,      \* Rows of import files
  Files,        \* Import files
  MaxRows,      \* Bound: memberships of one user
  MaxEdits      \* Bound: administrative acts

\* The days that can be today for somebody.
Calendar == (FirstDay - 1)..(LastDay + 1)

ASSUME CatalogueAssumption ==
  /\ FirstDay \in Nat /\ LastDay \in Nat /\ FirstDay <= LastDay
  /\ Lead \in [Users -> {-1, 0, 1}] /\ FirstDay > 0
  /\ NewYear \in [Calendar -> Nat] /\ \A d \in Calendar : NewYear[d] <= d
  /\ FirstPolicy \in PolicyIds
  /\ Offers \subseteq [name : Stems, terms : Terms, from : Nat, to : Nat \cup {NoDate}]
  /\ \A o \in Offers : o.to = NoDate \/ o.from <= o.to
  /\ Hires \subseteq Nat /\ Imports \subseteq FileRows(Users)
  /\ MaxRows \in Nat /\ MaxEdits \in Nat
  /\ Files \subseteq Seq(FileRows(Users)) /\ Terms # {}

VARIABLES
  policies,  \* the catalogue
  default,   \* the policy new accounts join
  rows,      \* the memberships of each user
  hired,     \* the employment start date of each account
  joining,   \* the default policy that a provisioning under way has read
  now,       \* the day, by UTC
  edits      \* administrative acts so far

vars == <<policies, default, rows, hired, joining, now, edits>>

-----------------------------------------------------------------------------
(* Values *)

NoRow     == 0
NoAccount == -2
Dates     == Nat
RowIds    == Nat \ {NoRow}

\* A membership row.  by is supersededByRowId, auto an assignedByUserId of NULL.
Row == [policy : PolicyIds, from : Dates, to : Dates \cup {NoDate},
        by : RowIds \cup {NoRow}, auto : BOOLEAN]

Accounts == {u \in Users : hired[u] # NoAccount}

Live(t) == {i \in DOMAIN t : t[i].by = NoRow}
Open(t) == {i \in Live(t) : t[i].to = NoDate}

\* The calendar date of the user (resolveAsOfTx).
Today(u) == now + Lead[u]

NewRow(t) == CHOOSE i \in 1..(Cardinality(DOMAIN t) + 1) : i \notin DOMAIN t

Inserted(t, row) ==
  [i \in DOMAIN t \cup {NewRow(t)} |-> IF i = NewRow(t) THEN row ELSE t[i]]

Enrolled(t, p, from, auto) ==
  Inserted(t, [policy |-> p, from |-> from, to |-> NoDate, by |-> NoRow, auto |-> auto])

\* Rows deleted: supersededByRowId of those that named them is set to NULL.
Removed(t, S) ==
  [i \in DOMAIN t \ S |-> IF t[i].by \in S THEN [t[i] EXCEPT !.by = NoRow] ELSE t[i]]

-----------------------------------------------------------------------------
Init ==
  /\ \E terms \in Terms :
       policies = [p \in {FirstPolicy} |->
                     [name |-> <<terms, 1>>, terms |-> terms, from |-> 0, to |-> NoDate]]
  /\ default = FirstPolicy
  /\ rows = [u \in Users |-> <<>>]
  /\ hired = [u \in Users |-> NoAccount]
  /\ joining = [u \in Users |-> NoPolicy]
  /\ now = FirstDay
  /\ edits = 0

\* No provisioning lasts over midnight here.
Tick ==
  /\ now < LastDay
  /\ \A u \in Users : joining[u] = NoPolicy
  /\ now' = now + 1
  /\ UNCHANGED <<policies, default, rows, hired, joining, edits>>

Edit == edits < MaxEdits /\ edits' = edits + 1

EditCatalogue(catalogue) ==
  /\ Edit
  /\ policies' = catalogue
  /\ UNCHANGED <<rows, hired, joining, now>>

-----------------------------------------------------------------------------
(* The catalogue *)

\* Those whose terms the policy would repeat while they are not over.
Twins(terms, from) ==
  {q \in WithTerms(policies, terms) : Retired(policies, q) => policies[q].to >= from}

\* createPolicyTx
CreatePolicy(p, offer) ==
  /\ p \notin DOMAIN policies
  /\ <<offer.name, 1>> \notin Taken(policies)
  /\ Twins(offer.terms, offer.from) = {}
  /\ EditCatalogue(Added(policies, p, [name |-> <<offer.name, 1>>, terms |-> offer.terms,
                                       from |-> offer.from, to |-> offer.to]))
  /\ UNCHANGED default

\* updatePolicy, the name
RenamePolicy(p, stem) ==
  /\ p \in DOMAIN policies
  /\ \A q \in DOMAIN policies \ {p} : policies[q].name # <<stem, 1>>
  /\ policies[p].name # <<stem, 1>>
  /\ EditCatalogue([policies EXCEPT ![p].name = <<stem, 1>>])
  /\ UNCHANGED default

\* Mutant: only open memberships block.
BlockedByOpen(p, date) ==
  \E u \in Users : \E i \in Open(rows[u]) : rows[u][i].policy = p

\* Would a live membership outlive the policy?
Blocked(p, date) ==
  \E u \in Users : \E i \in Live(rows[u]) :
    LET row == rows[u][i]
    IN  row.policy = p /\ (row.to = NoDate \/ row.to > date \/ row.from >= date)

\* Mutant: the default policy may be retired.
RetireAny(p, date) ==
  /\ p \in DOMAIN policies
  /\ date >= now /\ date >= policies[p].from
  /\ ~Blocked(p, date)
  /\ policies[p].to # date
  /\ EditCatalogue([policies EXCEPT ![p].to = date])
  /\ UNCHANGED default

\* updatePolicy, effectiveTo: a date closes the window or moves its end
RetirePolicy(p, date) ==
  /\ p \in DOMAIN policies \ {default}
  /\ date >= now /\ date >= policies[p].from
  /\ ~Blocked(p, date)
  /\ policies[p].to # date
  /\ EditCatalogue([policies EXCEPT ![p].to = date])
  /\ UNCHANGED default

\* updatePolicy, effectiveTo: null keeps the policy active
ReopenPolicy(p) ==
  /\ p \in DOMAIN policies
  /\ Retired(policies, p)
  /\ EditCatalogue([policies EXCEPT ![p].to = NoDate])
  /\ UNCHANGED default

\* setDefaultPolicy
SetDefault(p) ==
  /\ p \in DOMAIN policies \ {default}
  /\ ~Retired(policies, p)
  /\ default' = p
  /\ EditCatalogue(policies)

\* deletePolicy: no row, not even a superseded one, refers to it
DeletePolicy(p) ==
  /\ p \in DOMAIN policies \ {default}
  /\ \A u \in Users : \A i \in DOMAIN rows[u] : rows[u][i].policy # p
  /\ EditCatalogue([q \in DOMAIN policies \ {p} |-> policies[q]])
  /\ UNCHANGED default

-----------------------------------------------------------------------------
(* The accounts *)

\* upsertUserTx, a new account: the default policy is read, without the lock ...
ReadDefault(u) ==
  /\ u \notin Accounts /\ joining[u] = NoPolicy
  /\ joining' = [joining EXCEPT ![u] = default]
  /\ UNCHANGED <<policies, default, rows, hired, now, edits>>

\* ... and joined, if it is still there: the foreign key refuses the account if
\* it is not.
Provision(u, hire) ==
  /\ joining[u] # NoPolicy
  /\ joining' = [joining EXCEPT ![u] = NoPolicy]
  /\ IF joining[u] \in DOMAIN policies
     THEN /\ hired' = [hired EXCEPT ![u] = hire]
          /\ rows' = [rows EXCEPT ![u] = Enrolled(@, joining[u], now, TRUE)]
     ELSE UNCHANGED <<hired, rows>>
  /\ UNCHANGED <<policies, default, now, edits>>

\* updateEmployeeAdmin, as far as memberships are concerned: none of them moves
SetStartDate(u, hire) ==
  /\ u \in Accounts /\ hired[u] # hire
  /\ hired' = [hired EXCEPT ![u] = hire]
  /\ UNCHANGED <<policies, default, rows, joining, now, edits>>

EditMemberships(u, t) ==
  /\ Edit
  /\ Cardinality(DOMAIN t) <= MaxRows
  /\ rows' = [rows EXCEPT ![u] = t]
  /\ UNCHANGED <<default, joining, now>>

Scheduled(u) == {i \in Open(rows[u]) : rows[u][i].from > Today(u)}

EarliestTransfer(u) ==
  IF hired[u] > NewYear[Today(u)] THEN hired[u] ELSE NewYear[Today(u)]

\* The rows a query ordered by effectiveFrom may end with: of two that start on
\* one day, either may come last.
Latest(t, S) == {i \in S : \A j \in S : t[j].from <= t[i].from}

Earliest(t, S) == {i \in S : \A j \in S : t[i].from <= t[j].from}

\* The row the planner takes for the current one.
Current(u) ==
  LET begun == {i \in Live(rows[u]) : rows[u][i].from <= Today(u)}
  IN  IF begun # {} THEN Latest(rows[u], begun) ELSE Earliest(rows[u], Live(rows[u]))

ClosedAt(t, S, date) ==
  [i \in DOMAIN t |-> IF i \in S THEN [t[i] EXCEPT !.to = date] ELSE t[i]]

\* A transfer that leaves the past alone closes the open row.
Appended(t, p, from) == Enrolled(ClosedAt(t, Open(t), from), p, from, FALSE)

\* A back-dated one supersedes what starts later, and cuts short what straddles
\* its date: an open row in place, a closed one by a copy.
Later(t, from) == {i \in Live(t) : t[i].from >= from}

Straddling(t, from) ==
  {i \in Live(t) \ Later(t, from) : t[i].to = NoDate \/ t[i].to > from}

Closing(t, from) == Straddling(t, from) \cap Open(t)

Replaced(t, from) == Later(t, from) \cup (Straddling(t, from) \ Closing(t, from))

Superseded(t, S, by) ==
  [i \in DOMAIN t |-> IF i \in S THEN [t[i] EXCEPT !.by = by] ELSE t[i]]

Rewritten(t, p, from) ==
  LET moved  == Enrolled(ClosedAt(t, Closing(t, from), from), p, from, FALSE)
      marked == Superseded(moved, Replaced(t, from), NewRow(t))
      copied == CHOOSE i \in Straddling(t, from) : TRUE
  IN  IF Straddling(t, from) = Closing(t, from) THEN marked
      ELSE Inserted(marked, [t[copied] EXCEPT !.to = from])

\* planPolicyTransferTx, transferEmployeePolicy: plain is a transfer today or
\* later, the other two are back-dated.
Transfer(u, p, date, mode) ==
  LET from == IF mode = "retroactive" THEN EarliestTransfer(u) ELSE date
      t    == rows[u]
  IN  /\ u \in Accounts /\ hired[u] # NoDate
      /\ p \in DOMAIN policies /\ ~Retired(policies, p) /\ policies[p].from <= date
      /\ mode = "plain" <=> date >= Today(u)
      /\ date >= EarliestTransfer(u)
      /\ Scheduled(u) = {}
      /\ Live(t) = {} \/ \E i \in Current(u) : t[i].policy # p
      /\ mode = "prospective" => \A i \in Open(t) : from > t[i].from
      /\ EditMemberships(u, IF mode = "retroactive" THEN Rewritten(t, p, from)
                            ELSE Appended(t, p, from))
      /\ UNCHANGED <<policies, hired>>

\* Mutant: the predecessor stays closed.
CancelOnly(u) ==
  /\ u \in Accounts
  /\ \E i \in Scheduled(u) : EditMemberships(u, Removed(rows[u], {i}))
  /\ UNCHANGED <<policies, hired>>

\* cancelScheduledPolicyTransfer: the row goes, and the one that ends where it
\* began reopens.
CancelTransfer(u) ==
  /\ u \in Accounts
  /\ \E i \in Scheduled(u) :
       LET rest   == Removed(rows[u], {i})
           ending == {j \in Live(rows[u]) \ {i} : rows[u][j].to = rows[u][i].from}
       IN  IF ending = {} THEN EditMemberships(u, rest)
           ELSE \E j \in Earliest(rest, ending) :
                  EditMemberships(u, [rest EXCEPT ![j].to = NoDate])
  /\ UNCHANGED <<policies, hired>>

-----------------------------------------------------------------------------
(* The history import *)

Exact(t, p, from) ==
  \E i \in Live(t) :
    /\ Live(t) = {i}
    /\ t[i].policy = p /\ t[i].from = from /\ t[i].to = NoDate

AutoEnrolled(t) == \E i \in Live(t) : Live(t) = {i} /\ t[i].auto /\ t[i].to = NoDate

\* assignHistoricalMembershipTx: what becomes of the memberships.  In mode add
\* a timeline that somebody has set up is kept.
Assigned(t, p, from, mode) ==
  IF Exact(t, p, from) \/ (mode = "add" /\ Live(t) # {} /\ ~AutoEnrolled(t)) THEN t
  ELSE Enrolled(Removed(t, Live(t)), p, from, FALSE)

OneOpenRow(t) == Cardinality(Open(t)) <= 1

\* applyUserData: the start date, the policy and the membership of one
\* employee.  A retired policy, or a second open row (the unique index), rolls
\* all of it back.
ImportEmployee(u, row, chosen, mode) ==
  LET joined == Joined(policies, row)
      enrol(p) == /\ hired' = [hired EXCEPT ![u] = row.hire]
                  /\ OneOpenRow(Assigned(rows[u], p, row.hire, mode))
                  /\ EditMemberships(u, Assigned(rows[u], p, row.hire, mode))
  IN  /\ u \in Accounts
      /\ IF joined # NoPolicy
         THEN /\ ~Retired(policies, joined)
              /\ policies' = Backdated(policies, joined, row.hire)
              /\ enrol(joined)
         ELSE \E p \in PolicyIds \ DOMAIN policies :
                /\ policies' = Added(policies, p, Minted(policies, row, chosen))
                /\ enrol(p)

-----------------------------------------------------------------------------
Next ==
  \/ Tick
  \/ \E p \in PolicyIds :
       \/ \E offer \in Offers : CreatePolicy(p, offer)
       \/ \E stem \in Typed : RenamePolicy(p, stem)
       \/ \E date \in FirstDay..(LastDay + 1) : RetirePolicy(p, date)
       \/ ReopenPolicy(p) \/ SetDefault(p) \/ DeletePolicy(p)
  \/ \E u \in Users :
       \/ ReadDefault(u) \/ CancelTransfer(u)
       \/ \E hire \in Hires \cup {NoDate} : Provision(u, hire)
       \/ \E hire \in Hires : SetStartDate(u, hire)
       \/ \E p \in PolicyIds, date \in 0..(LastDay + 2),
             mode \in {"plain", "prospective", "retroactive"} : Transfer(u, p, date, mode)
       \/ \E row \in Imports, chosen \in Typed \cup {NoName}, mode \in {"add", "override"} :
            row.user = u /\ ImportEmployee(u, row, chosen, mode)

Spec == Init /\ [][Next]_vars

-----------------------------------------------------------------------------
(* Properties *)

\* Every value is of its kind, references lead somewhere, and the default
\* policy is in force.
TypeOK ==
  /\ DOMAIN policies \subseteq PolicyIds
  /\ policies \in [DOMAIN policies -> Policy]
  /\ default \in DOMAIN policies /\ ~Retired(policies, default)
  /\ hired \in [Users -> Nat \cup {NoDate, NoAccount}]
  /\ joining \in [Users -> PolicyIds \cup {NoPolicy}]
  /\ now \in FirstDay..LastDay /\ edits \in 0..MaxEdits
  /\ \A u \in Users :
       /\ DOMAIN rows[u] \subseteq RowIds /\ rows[u] \in [DOMAIN rows[u] -> Row]
       /\ \A i \in DOMAIN rows[u] :
            rows[u][i].policy \in DOMAIN policies /\ rows[u][i].by \in DOMAIN rows[u] \cup {NoRow}

Governs(row, day) == row.from <= day /\ (row.to = NoDate \/ day < row.to)

\* Whatever transfers, cancellations and imports do to the memberships of an
\* account, each day since the first is governed by exactly one of those alive.
OneTimeline ==
  \A u \in Accounts :
    LET live == {rows[u][i] : i \in Live(rows[u])}
    IN  \A row \in live, day \in 0..(LastDay + 3) :
          row.from <= day
            => Cardinality({i \in Live(rows[u]) : Governs(rows[u][i], day)}) = 1

Outlives(row, policy) == policy.to # NoDate /\ (row.to = NoDate \/ row.to > policy.to)

Outlived(u) ==
  \E i \in Live(rows[u]) : Outlives(rows[u][i], policies[rows[u][i].policy])

\* A membership comes to outlive its policy in two ways only: a cancelled
\* transfer reopens it after the policy was retired, or a provisioning joins a
\* default it has read before another took its place.
OutlivedOnlyByReopening ==
  [][\A u \in Users :
       Outlived(u)' /\ ~Outlived(u) =>
         CancelTransfer(u) \/ joining[u] \notin {NoPolicy, default}]_vars

\* "Deleting-then-inserting keeps the one-open-row partial unique index
\* satisfied at every step": an import in override mode deletes the live rows of
\* an account, and then none that is open is left.
DeletingLeavesRoom ==
  \A u \in Accounts : Open(Removed(rows[u], Live(rows[u]))) = {}

\* The names an operator may type over the groups of a report.
NamesTyped(file) ==
  [Renameable(policies, Plan(policies, file)) -> Unstated(file) \cup {NoName}]

\* What the report says of a file comes true when the run follows at once.
PlanIsCarriedOut ==
  \A file \in Files : \A chosen \in NamesTyped(file) : AsPlanned(policies, file, chosen)
=============================================================================
