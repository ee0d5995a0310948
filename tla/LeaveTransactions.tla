--------------------------- MODULE LeaveTransactions ---------------------------
(***************************************************************************)
(* The transactions of LeaveDomainService as PostgreSQL interleaves them.  *)
(*                                                                         *)
(* LeaveRequests makes one step of every transaction.  Here a transaction  *)
(* is the sequence of statements that decide its outcome: it takes row     *)
(* locks (lockRequestForUpdate) and one advisory lock per leave type       *)
(* (lockUserBalanceForUpdate), reads rows, and writes when it commits.     *)
(* The database runs at READ COMMITTED, its default: every statement sees  *)
(* what was committed before it, and an inserted row is invisible to the   *)
(* others until then, so writes appear here only in the committing step.   *)
(*                                                                         *)
(* Balances are left to BalanceTransactions, the questions in the feeds to *)
(* LeaveRequests.                                                          *)
(***************************************************************************)
EXTENDS Integers, FiniteSets

CONSTANTS
    Sessions,          \* database connections, each with one transaction at most
    Nobody,            \* the holder of a free lock
    RequestIds,        \* ids of leave requests, all of one employee
    NoRequest,
    Approvers,
    NoApprover,
    LeaveTypes,
    Periods,           \* the <<first, last>> ranges the employee asks for
    Gates,             \* the lists of approvers a submission names
    LastDay            \* the bound on the clock, in days

ASSUME NameAssumption ==
    /\ Nobody \notin Sessions
    /\ NoRequest \notin RequestIds
    /\ RequestIds \cap LeaveTypes = {}
    /\ LeaveTypes # {}
    /\ Periods # {}
    /\ Gates \subseteq SUBSET Approvers
    /\ LastDay \in Nat

VARIABLES
    rows,              \* the committed request rows, with their approver rows
    today,             \* the UTC date
    tx,                \* tx[s]: the transaction open on session s
    holder             \* holder[l]: the session that holds lock l

vars == <<rows, today, tx, holder>>

--------------------------------------------------------------------------------
(* Rows, locks and open transactions *)

Statuses == {"Absent", "Pending", "Approved", "Rejected", "Cancelled", "Superseded"}

Rows ==
    [status     : Statuses,
     type       : LeaveTypes,
     period     : Periods,
     supersedes : RequestIds \cup {NoRequest},
     votes      : [Approvers -> {"none", "pending", "approved", "rejected"}]]

Locks == RequestIds \cup LeaveTypes

Kinds == {"none", "submission", "approval", "rejection", "override", "veto",
          "removal", "cancellation"}

\* The next statement of an open transaction.
Points == {"idle", "original", "replacement", "type", "overlap",
           "request", "approvers", "swap", "commit"}

Transactions ==
    [kind     : Kinds,
     at       : Points,
     request  : RequestIds \cup {NoRequest},
     original : RequestIds \cup {NoRequest},   \* the leave it replaces
     type     : LeaveTypes,
     period   : Periods,
     to       : SUBSET Approvers,              \* whom a submission asks
     approver : Approvers \cup {NoApprover},
     missing  : SUBSET Approvers]              \* the others yet to approve, as it read

Idle ==
    [kind |-> "none", at |-> "idle", request |-> NoRequest, original |-> NoRequest,
     type |-> CHOOSE k \in LeaveTypes : TRUE, period |-> CHOOSE p \in Periods : TRUE,
     to |-> {}, approver |-> NoApprover, missing |-> {}]

Open(s) == tx[s].kind # "none"

IsActive(q) == q.status \in {"Pending", "Approved"}

HasStarted(q) == q.period[1] <= today

Overlap(q, period) == q.period[1] <= period[2] /\ period[1] <= q.period[2]

ToApprovers(q) == {a \in Approvers : q.votes[a] # "none"}

HasPendingReplacement(o) ==
    \E r \in RequestIds : rows[r].status = "Pending" /\ rows[r].supersedes = o

\* Mutant: the rows are read without FOR UPDATE.
AlwaysFree(l, s) == TRUE

\* Mutant: the second lock is asked for on another connection.
FreeForOthers(l, s) == holder[l] = Nobody

\* Locks are re-entrant within their transaction.
Free(l, s) == holder[l] \in {Nobody, s}

\* Mutant: the advisory lock belongs to the session, not to the transaction.
EndKeepingTypeLock(s) ==
    /\ tx' = [tx EXCEPT ![s] = Idle]
    /\ holder' = [l \in Locks |-> IF holder[l] = s /\ l \in RequestIds THEN Nobody ELSE holder[l]]

\* The transaction is over, and PostgreSQL drops its locks.
End(s) ==
    /\ tx' = [tx EXCEPT ![s] = Idle]
    /\ holder' = [l \in Locks |-> IF holder[l] = s THEN Nobody ELSE holder[l]]

\* A throw, or a lost connection: nothing of it was ever visible.
Rollback(s) == End(s) /\ UNCHANGED <<rows, today>>

\* A read that lets the transaction go on to `next', or makes it throw.
Check(s, ok, next) ==
    IF ok
    THEN /\ tx' = [tx EXCEPT ![s].at = next]
         /\ UNCHANGED <<rows, today, holder>>
    ELSE Rollback(s)

\* SELECT ... FOR UPDATE: waits for the lock, then sees the latest row.
Lock(s, l, ok, next) ==
    /\ Free(l, s)
    /\ IF ok
       THEN /\ tx' = [tx EXCEPT ![s].at = next]
            /\ holder' = [holder EXCEPT ![l] = s]
            /\ UNCHANGED <<rows, today>>
       ELSE Rollback(s)

--------------------------------------------------------------------------------
(* Submissions and modifications: createLeaveRequestTx *)

Fresh(r) == rows[r].status = "Absent" /\ \A s \in Sessions : tx[s].request # r

\* o = NoRequest is a new leave; otherwise a change to the leave o, which was
\* approved when the employee looked.
BeginSubmission(s, r, o) ==
    /\ ~Open(s)
    /\ Fresh(r)
    /\ o # r
    /\ \E k \in LeaveTypes, period \in Periods, to \in Gates :
        /\ o # NoRequest => rows[o].status = "Approved" /\ k = rows[o].type
        /\ tx' = [tx EXCEPT ![s] =
                    [Idle EXCEPT !.kind = "submission", !.request = r, !.original = o,
                                 !.type = k, !.period = period, !.to = to,
                                 !.at = IF o = NoRequest THEN "type" ELSE "original"]]
    /\ UNCHANGED <<rows, today, holder>>

\* Mutant: the original is read without FOR UPDATE.
ReadOriginal(s) ==
    LET q == rows[tx[s].original]
    IN  /\ tx[s].at = "original"
        /\ Check(s, q.status = "Approved" /\ ~HasStarted(q), "replacement")

LockOriginal(s) ==
    LET q == rows[tx[s].original]
    IN  /\ tx[s].at = "original"
        /\ Lock(s, tx[s].original, q.status = "Approved" /\ ~HasStarted(q), "replacement")

\* Asked by a modification of its original, and by a cancellation of approved leave.
CheckReplacement(s) ==
    /\ tx[s].at = "replacement"
    /\ IF tx[s].kind = "submission"
       THEN Check(s, ~HasPendingReplacement(tx[s].original), "type")
       ELSE Check(s, ~HasPendingReplacement(tx[s].request), "commit")

\* Mutant: the advisory lock is taken on the pool, and let go at once.
PassType(s) == tx[s].at = "type" /\ Free(tx[s].type, s) /\ Check(s, TRUE, "overlap")

\* lockUserBalanceForUpdate: one advisory lock per leave type.
LockType(s) == tx[s].at = "type" /\ Lock(s, tx[s].type, TRUE, "overlap")

\* findOverlappingRequests looks at every leave type.  A submission that asks
\* nobody goes on to promote.
CheckOverlap(s) ==
    LET t == tx[s]
    IN  /\ t.at = "overlap"
        /\ Check(s,
                 \A x \in RequestIds \ {t.original} :
                    ~(IsActive(rows[x]) /\ Overlap(rows[x], t.period)),
                 IF t.to = {} /\ t.original # NoRequest THEN "swap" ELSE "commit")

\* promoteToApprovedTx locks the original second; an original that is no
\* longer approved is left alone.
LockSwapped(s) ==
    LET q == rows[tx[s].original]
    IN  /\ tx[s].at = "swap"
        /\ Lock(s, tx[s].original, ~(q.status = "Approved" /\ HasStarted(q)), "commit")

\* The rows once r is approved in place of o.
Swapped(rs, r, o) ==
    [x \in RequestIds |->
        IF x = r THEN [rs[r] EXCEPT !.status = "Approved"]
        ELSE IF x = o /\ rs[o].status = "Approved" THEN [rs[o] EXCEPT !.status = "Superseded"]
        ELSE rs[x]]

CommitSubmission(s) ==
    LET t == tx[s]
        row == [status |-> "Pending", type |-> t.type, period |-> t.period,
                supersedes |-> t.original,
                votes |-> [a \in Approvers |-> IF a \in t.to THEN "pending" ELSE "none"]]
        filed == [rows EXCEPT ![t.request] = row]
    IN  /\ t.at = "commit" /\ t.kind = "submission"
        /\ rows' = IF t.to = {} THEN Swapped(filed, t.request, t.original) ELSE filed
        /\ End(s)
        /\ UNCHANGED today

--------------------------------------------------------------------------------
(* Votes, overrides, removals and cancellations of a request on file *)

Votes == {"approval", "rejection", "removal"}

\* r was active when the caller looked at it; it may have settled since.
BeginDecision(s, kind, r, a) ==
    /\ ~Open(s)
    /\ IsActive(rows[r])
    /\ kind \in Votes <=> a # NoApprover
    /\ tx' = [tx EXCEPT ![s] = [Idle EXCEPT !.kind = kind, !.request = r, !.approver = a,
                                            !.original = rows[r].supersedes,
                                            !.at = "request"]]
    /\ UNCHANGED <<rows, today, holder>>

\* Mutant: the status is trusted to be what the caller saw.
WasOpen(t, q) == q.status # "Absent"

\* What the status must still be under the lock.
StillOpen(t, q) ==
    \/ q.status = "Pending"
    \/ t.kind = "cancellation" /\ q.status = "Approved" /\ ~HasStarted(q)

\* Every path locks the request first and checks its status under the lock.
LockRequest(s) ==
    LET t == tx[s]
        q == rows[t.request]
    IN  /\ t.at = "request"
        /\ Lock(s, t.request, StillOpen(t, q),
                CASE t.kind \in Votes -> "approvers"
                  [] t.kind = "override" /\ t.original # NoRequest -> "swap"
                  [] t.kind = "cancellation" /\ q.status = "Approved" -> "replacement"
                  [] OTHER -> "commit")

\* loadApprovers: the acting row must still be undecided, or removable, and the
\* other rows tell whether this completes the gate.
ReadApprovers(s) ==
    LET t == tx[s]
        q == rows[t.request]
        missing == {a \in ToApprovers(q) \ {t.approver} : q.votes[a] # "approved"}
        ok == IF t.kind = "removal"
              THEN t.approver \in ToApprovers(q) /\ ToApprovers(q) # {t.approver}
              ELSE q.votes[t.approver] = "pending"
    IN  /\ t.at = "approvers"
        /\ IF ok
           THEN /\ tx' = [tx EXCEPT
                            ![s].missing = missing,
                            ![s].at = IF t.kind # "rejection" /\ missing = {} /\ t.original # NoRequest
                                      THEN "swap" ELSE "commit"]
                /\ UNCHANGED <<rows, today, holder>>
           ELSE Rollback(s)

\* The gate is complete when nobody else is missing.
Promotes(t) == t.kind = "override" \/ (t.kind \in {"approval", "removal"} /\ t.missing = {})

\* What a vote leaves in the acting approver row.
VoteOf(kind) ==
    CASE kind = "approval" -> "approved"
      [] kind = "rejection" -> "rejected"
      [] kind = "removal" -> "none"

\* The vote and what becomes of the request are written together.
CommitDecision(s) ==
    LET t == tx[s]
        r == t.request
        voted == IF t.kind \in Votes
                 THEN [rows EXCEPT ![r].votes[t.approver] = VoteOf(t.kind)] ELSE rows
    IN  /\ t.at = "commit" /\ t.kind # "submission"
        /\ rows' = IF Promotes(t) THEN Swapped(voted, r, t.original)
                   ELSE IF t.kind \in {"rejection", "veto"}
                   THEN [voted EXCEPT ![r].status = "Rejected"]
                   ELSE IF t.kind = "cancellation"
                   THEN [voted EXCEPT ![r].status = "Cancelled"]
                   ELSE voted
        /\ End(s)
        /\ UNCHANGED today

--------------------------------------------------------------------------------
Init ==
    /\ rows = [r \in RequestIds |->
                [status |-> "Absent", type |-> Idle.type, period |-> Idle.period,
                 supersedes |-> NoRequest, votes |-> [a \in Approvers |-> "none"]]]
    /\ today = 0
    /\ tx = [s \in Sessions |-> Idle]
    /\ holder = [l \in Locks |-> Nobody]

Begin(s) ==
    \/ \E r \in RequestIds, o \in RequestIds \cup {NoRequest} : BeginSubmission(s, r, o)
    \/ \E kind \in Kinds \ {"none", "submission"}, r \in RequestIds,
          a \in Approvers \cup {NoApprover} : BeginDecision(s, kind, r, a)

\* The next statement of the transaction open on s.
Step(s) ==
    \/ LockOriginal(s) \/ CheckReplacement(s) \/ LockType(s) \/ CheckOverlap(s)
    \/ LockSwapped(s) \/ CommitSubmission(s)
    \/ LockRequest(s) \/ ReadApprovers(s) \/ CommitDecision(s)

Midnight == today < LastDay /\ today' = today + 1 /\ UNCHANGED <<rows, tx, holder>>

Next ==
    \/ \E s \in Sessions : Begin(s) \/ Step(s) \/ (Open(s) /\ Rollback(s))
    \/ Midnight

Spec == Init /\ [][Next]_vars

--------------------------------------------------------------------------------
(* Properties *)

\* Every variable has its kind, and a lock is only ever held by a transaction
\* still open: all of them end with it.
TypeOK ==
    /\ rows \in [RequestIds -> Rows]
    /\ today \in 0..LastDay
    /\ tx \in [Sessions -> Transactions]
    /\ holder \in [Locks -> Sessions \cup {Nobody}]
    /\ \A l \in Locks : holder[l] # Nobody => Open(holder[l])

\* Requests r and x are active, share a date, and neither is the pending
\* replacement of the other.
Clash(r, x) ==
    /\ r # x
    /\ IsActive(rows[r]) /\ IsActive(rows[x])
    /\ Overlap(rows[r], rows[x].period)
    /\ ~(rows[r].status = "Pending" /\ rows[r].supersedes = x)
    /\ ~(rows[x].status = "Pending" /\ rows[x].supersedes = r)

\* "You cannot be on two leaves at once", whatever their types, says
\* findOverlappingRequests, and createLeaveRequestTx says that its lock is what
\* stands between two concurrent submissions of the same dates.
BookedOnce == \A r, x \in RequestIds : ~Clash(r, x)

\* Within one leave type the advisory lock does keep concurrent submissions,
\* modifications and swaps from booking a date twice.
BookedOncePerType ==
    \A r, x \in RequestIds : rows[r].type = rows[x].type => ~Clash(r, x)

\* Whatever overlaps, a pending replacement has an approved original, and is
\* the only one it has: the row lock on the original orders modifications,
\* cancellations and swaps.
ReplacementHasOriginal ==
    \A r \in RequestIds :
        rows[r].status = "Pending" /\ rows[r].supersedes # NoRequest
        => /\ rows[rows[r].supersedes].status = "Approved"
           /\ \A x \in RequestIds \ {r} :
                rows[x].status = "Pending" => rows[x].supersedes # rows[r].supersedes

\* No request is left pending with every approver in favour: of two concurrent
\* votes, or a vote and a removal, the later one sees the earlier.
GateNeverStuck ==
    \A r \in RequestIds :
        rows[r].status = "Pending" => \E a \in Approvers : rows[r].votes[a] = "pending"

\* A request settles once, so its hold is released once and its approvers hear
\* one outcome, however a vote, an override and a cancellation overlap; and a
\* vote once cast is never overwritten by another.
SettledOnce ==
    [][\A r \in RequestIds :
        /\ rows[r].status \in {"Rejected", "Cancelled", "Superseded"} => rows'[r] = rows[r]
        /\ \A a \in Approvers :
            rows[r].votes[a] \in {"approved", "rejected"}
            => rows'[r].votes[a] \in {rows[r].votes[a], "none"}]_vars

\* The lock that the next statement of s asks for, if it asks for one.
NextLock(s) ==
    CASE tx[s].at \in {"original", "swap"} -> {tx[s].original}
      [] tx[s].at = "type"                 -> {tx[s].type}
      [] tx[s].at = "request"              -> {tx[s].request}
      [] OTHER                             -> {}

Waiting == {s \in Sessions : \E l \in NextLock(s) : ~Free(l, s)}

\* Whatever overlaps, no transactions wait for each other in a circle, and none
\* for itself: the order in which requests, originals and leave types are
\* locked has no cycle, so PostgreSQL never has to kill one of them.
NobodyWaitsInACircle ==
    \A W \in (SUBSET Waiting) \ {{}} :
        \E s \in W : \E l \in NextLock(s) : holder[l] \notin W

================================================================================
