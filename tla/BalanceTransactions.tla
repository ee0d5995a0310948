-------------------------- MODULE BalanceTransactions --------------------------
(***************************************************************************)
(* The statements by which overlapping transactions move one balance row   *)
(* and the requests that charge it.                                        *)
(*                                                                         *)
(* reconcileApprovedLeaveTx and recordBalanceChange lock nothing.  They    *)
(* read a row, compute the new columns and call save, and TypeORM's save   *)
(* is two statements: it reads the row again, then updates the columns     *)
(* that differ, with absolute values.  At READ COMMITTED each read sees    *)
(* what was committed before it; an UPDATE waits for the row's lock, and   *)
(* holds it until the transaction ends.                                    *)
(*                                                                         *)
(* Every leave day here is whole and paid, and all of them charge the one  *)
(* balance row of their type and year.                                     *)
(***************************************************************************)
EXTENDS Integers, FiniteSets, FiniteSetsExt

CONSTANTS
    Sessions,          \* database connections, each with one transaction at most
    Nobody,            \* the holder of a free lock
    Requests,          \* the employee's, numbered in the order they were submitted
    LeaveDays,         \* LeaveDays[r]: the dates request r covers
    Original,          \* Original[r]: the leave r replaces, or NoRequest
    LastDay            \* the bound on the clock, in days

\* No request has these numbers, and no day.
NoRequest == 0
Balance == -1
TypeLock == -2
NoDay == -1

ASSUME OrderAssumption ==
    /\ Requests \subseteq Nat \ {0} /\ IsFiniteSet(Requests)
    /\ LeaveDays \in [Requests -> SUBSET Nat]
    /\ \A r \in Requests : IsFiniteSet(LeaveDays[r]) /\ LeaveDays[r] # {}
    /\ Original \in [Requests -> Requests \cup {NoRequest}]
    /\ Nobody \notin Sessions
    /\ LastDay \in Nat

VARIABLES
    db,                \* the committed rows: each request, and the balance
    draft,             \* the same rows as the transaction that locked them sees them
    ledger,            \* ledger[r, d]: committed 'spent' entries for day d of request r
    today,             \* the date; day d ends when d + 1 begins
    tx,                \* tx[s]: the transaction open on session s
    holder             \* holder[l]: the session that holds lock l

vars == <<db, draft, ledger, today, tx, holder>>

--------------------------------------------------------------------------------
(* Rows, locks and open transactions *)

Rows == Requests \cup {Balance}

Locks == Rows \cup {TypeLock}

LedgerDays == {k \in Requests \X (0..LastDay) : k[2] \in LeaveDays[k[1]]}

IsActive(q) == q.status \in {"Pending", "Approved"}

FirstDay(r) == Min(LeaveDays[r])

Idle == [kind |-> "none", request |-> NoRequest, asOf |-> 0, at |-> "idle",
         copies |-> <<>>, todo |-> {}, hold |-> 0, value |-> <<>>, columns |-> {}, posted |-> {}]

Open(s) == tx[s].kind # "none"

\* Own writes are seen before they are committed, those of others are not.
Visible(s, l) == IF holder[l] = s THEN draft[l] ELSE db[l]

Free(l, s) == holder[l] \in {Nobody, s}

\* Mutant: the date is compared with >.
HasStartedDayLater(r, q, t) == t > FirstDay(r) \/ q.consumed # {}

\* The guard of promoteToApprovedTx and assertCancellable, at instant t.
HasStarted(r, q, t) == t >= FirstDay(r) \/ q.consumed # {}

\* Mutant: the days already consumed are looked at again.
ElapsedEver(r, q, t) == {d \in LeaveDays[r] : q.status = "Approved" /\ d < t}

Elapsed(r, q, t) == {d \in LeaveDays[r] \ q.consumed : q.status = "Approved" /\ d < t}

--------------------------------------------------------------------------------
(* What a transaction has yet to do *)

\* reconcileApprovedLeaveTx goes through its copies of the requests in which a
\* day has elapsed (todo), in their order.
Current(t) == Min(t.todo)

DaysElapsed(t, r) == Elapsed(r, t.copies[r], t.asOf)

\* It enters the days of a request in the ledger one by one, and then saves it.
DaysLeft(t) == {d \in DaysElapsed(t, Current(t)) : <<Current(t), d>> \notin t.posted}

Spends(t) == t.todo # {} /\ DaysLeft(t) # {}
Saves(t)  == t.todo # {} /\ DaysLeft(t) = {}

\* After that a submission or a cancellation posts its hold.  A day spent is
\* entered as of its own end, a hold as of now.
Change(t) ==
    IF Spends(t) THEN [onHold |-> -1, spent |-> 1, occurred |-> Min(DaysLeft(t))]
                 ELSE [onHold |-> t.hold, spent |-> 0, occurred |-> NoDay]

\* Mutant: the held remainder is left for the next reader to fix.
SavedCursorOnly(q, days) == [q EXCEPT !.consumed = @ \cup days]

\* The request as reconcile saves it: cursor and held remainder together.
Saved(q, days) == [q EXCEPT !.consumed = @ \cup days, !.held = @ - Cardinality(days)]

\* A movement begins with the read of the balance, a request is saved as it is.
Onward(t) ==
    CASE Spends(t) -> [t EXCEPT !.at = "read"]
      [] Saves(t)  -> [t EXCEPT !.at = "reselect",
                                !.value = Saved(t.copies[Current(t)], DaysElapsed(t, Current(t)))]
      [] OTHER     -> [t EXCEPT !.at = CASE t.kind = "submission" -> "read"
                                         [] t.kind = "approval"   -> "check"
                                         [] OTHER                 -> "commit"]

--------------------------------------------------------------------------------
(* Beginning and ending *)

Begin(s, kind, r, at) ==
    /\ ~Open(s)
    /\ tx' = [tx EXCEPT ![s] = [Idle EXCEPT !.kind = kind, !.request = r, !.asOf = today, !.at = at]]
    /\ UNCHANGED <<db, draft, ledger, today, holder>>

\* refreshBalances, by any read of a balance.
BeginRefresh(s) == Begin(s, "refresh", NoRequest, "candidates")

\* createLeaveRequestTx, for a leave that replaces none.
BeginSubmission(s, r) ==
    /\ db[r].status = "Absent" /\ Original[r] = NoRequest
    /\ \A x \in Sessions : tx[x].request # r
    /\ Begin(s, "submission", r, "type")

\* A withdrawal or a rejection, and an approval.
BeginDecision(s, kind, r) ==
    /\ IsActive(db[r])
    /\ Begin(s, kind, r, "request")

End(s) ==
    /\ tx' = [tx EXCEPT ![s] = Idle]
    /\ holder' = [l \in Locks |-> IF holder[l] = s THEN Nobody ELSE holder[l]]

\* A throw, a lost connection, or PostgreSQL breaking a deadlock.
Rollback(s) ==
    /\ End(s)
    /\ draft' = [l \in DOMAIN db |-> IF holder[l] = s THEN db[l] ELSE draft[l]]
    /\ UNCHANGED <<db, ledger, today>>

\* What the request row of the transaction itself becomes.
Settled(t, q) ==
    CASE t.kind = "refresh" -> q
      [] t.kind = "submission" ->
            [status |-> "Pending", consumed |-> {}, held |-> Cardinality(LeaveDays[t.request])]
      [] t.kind = "cancellation" -> [q EXCEPT !.status = "Cancelled", !.held = 0]
      [] t.kind = "approval" -> [q EXCEPT !.status = "Approved"]

\* A row as the transaction leaves it
Left(s, l) ==
    LET t == tx[s]
        q == Visible(s, l)
    IN  IF l = t.request THEN Settled(t, q)
        ELSE IF t.kind = "approval" /\ l = Original[t.request] /\ q.status = "Approved"
        THEN [q EXCEPT !.status = "Superseded", !.held = 0]
        ELSE q

\* The written rows, and those whose locks it holds, become what others see.
Commit(s) ==
    /\ tx[s].at = "commit"
    /\ db' = [l \in DOMAIN db |-> Left(s, l)]
    /\ draft' = [l \in DOMAIN db |->
                    IF holder[l] \in Sessions \ {s} THEN draft[l] ELSE Left(s, l)]
    /\ ledger' = [k \in LedgerDays |-> ledger[k] + (IF k \in tx[s].posted THEN 1 ELSE 0)]
    /\ End(s)
    /\ UNCHANGED today

--------------------------------------------------------------------------------
(* Statements *)

Take(s, l, hold, at) ==
    /\ Free(l, s)
    /\ holder' = [holder EXCEPT ![l] = s]
    /\ tx' = [tx EXCEPT ![s].hold = hold, ![s].at = at]
    /\ UNCHANGED <<db, draft, ledger, today>>

\* lockUserBalanceForUpdate: a submission waits for submissions only.
LockType(s) == tx[s].at = "type" /\ Take(s, TypeLock, 0, "candidates")

\* lockRequestForUpdate and the status guards.
LockRequest(s) ==
    LET t == tx[s]
        q == db[t.request]
        o == Original[t.request]
        ok == \/ q.status = "Pending"
              \/ /\ t.kind = "cancellation" /\ q.status = "Approved"
                 /\ ~HasStarted(t.request, q, t.asOf)
                 /\ \A x \in Requests : Original[x] = t.request => db[x].status # "Pending"
    IN  /\ t.at = "request"
        /\ Free(t.request, s)
        /\ IF ~ok THEN Rollback(s)
           ELSE IF t.kind = "cancellation"
           THEN Take(s, t.request, -q.held, "read")
           ELSE Take(s, t.request, 0, IF o = NoRequest THEN "commit" ELSE "original")

\* promoteToApprovedTx takes the original second, and reconciles under both locks.
LockOriginal(s) ==
    LET t == tx[s]
        o == Original[t.request]
    IN  /\ t.at = "original"
        /\ Take(s, o, 0, IF db[o].status = "Approved" THEN "candidates" ELSE "commit")

\* The unlocked read reconcileApprovedLeaveTx begins with.
ReadCandidates(s) ==
    LET copies == [r \in Requests |-> Visible(s, r)]
        t == [tx[s] EXCEPT
                !.copies = copies,
                !.todo = {r \in Requests : Elapsed(r, copies[r], tx[s].asOf) # {}},
                !.hold = IF tx[s].kind = "submission"
                         THEN Cardinality(LeaveDays[tx[s].request]) ELSE 0]
    IN  /\ tx[s].at = "candidates"
        /\ tx' = [tx EXCEPT ![s] = Onward(t)]
        /\ UNCHANGED <<db, draft, ledger, today, holder>>

\* The original is read again: the swap is refused once the leave has started.
CheckOriginal(s) ==
    LET t == tx[s]
        o == Original[t.request]
        q == Visible(s, o)
    IN  /\ t.at = "check"
        /\ IF HasStarted(o, q, t.asOf)
           THEN Rollback(s)
           ELSE /\ tx' = [tx EXCEPT ![s].hold = -q.held, ![s].at = "read"]
                /\ UNCHANGED <<db, draft, ledger, today, holder>>

\* recordBalanceChange reads the row and refuses a negative column.
ReadBalance(s) ==
    LET t == tx[s]
        b == Visible(s, Balance)
        next == [onHold |-> b.onHold + Change(t).onHold, spent |-> b.spent + Change(t).spent,
                 updatedAt |-> Change(t).occurred]
    IN  /\ t.at = "read"
        /\ IF next.onHold < 0
           THEN Rollback(s)
           ELSE /\ tx' = [tx EXCEPT ![s].value = next, ![s].at = "reselect"]
                /\ UNCHANGED <<db, draft, ledger, today, holder>>

Target(t) == IF Saves(t) THEN Current(t) ELSE Balance

\* What is saved is done with; a movement also leaves its row in the ledger.
Done(t) ==
    LET clear == [t EXCEPT !.value = <<>>, !.columns = {}]
    IN  CASE Spends(t) -> Onward([clear EXCEPT !.posted = @ \cup {<<Current(t), Min(DaysLeft(t))>>}])
          [] Saves(t)  -> Onward([clear EXCEPT !.todo = @ \ {Current(t)}])
          [] OTHER     -> [clear EXCEPT !.at = "commit"]

\* The columns to be written.  The present moment is in no row yet.
Stale(row, value) ==
    {c \in DOMAIN row : row[c] # value[c] \/ (c = "updatedAt" /\ value[c] = NoDay)}

\* First half of save: which columns differ from the row as it is now?  When
\* none does there is no UPDATE, and no lock.
Reselect(s) ==
    LET t == tx[s]
        columns == Stale(Visible(s, Target(t)), t.value)
    IN  /\ t.at = "reselect"
        /\ tx' = [tx EXCEPT ![s] = IF columns = {} THEN Done(t)
                                   ELSE [t EXCEPT !.columns = columns, !.at = "update"]]
        /\ UNCHANGED <<db, draft, ledger, today, holder>>

\* Second half: the UPDATE, once nobody else has the row.
Update(s) ==
    LET t == tx[s]
        l == Target(t)
        row == Visible(s, l)
    IN  /\ t.at = "update"
        /\ Free(l, s)
        /\ holder' = [holder EXCEPT ![l] = s]
        /\ draft' = [draft EXCEPT ![l] = [c \in DOMAIN row |-> IF c \in t.columns
                                                              THEN t.value[c] ELSE row[c]]]
        /\ tx' = [tx EXCEPT ![s] = Done(t)]
        /\ UNCHANGED <<db, ledger, today>>

--------------------------------------------------------------------------------
\* Any mix of requests, none of whose days has passed, with its holds posted.
Init ==
    /\ \E status \in [Requests -> {"Absent", "Pending", "Approved"}] :
        /\ \A r \in Requests :
            Original[r] # NoRequest /\ status[r] # "Absent"
            => status[r] = "Pending" /\ status[Original[r]] = "Approved"
        /\ LET held(r) == IF status[r] = "Absent" THEN 0 ELSE Cardinality(LeaveDays[r])
               taken == {k \in LedgerDays : status[k[1]] # "Absent"}
           IN  db = [l \in Rows |->
                        IF l = Balance
                        THEN [onHold |-> Cardinality(taken), spent |-> 0, updatedAt |-> NoDay]
                        ELSE [status |-> status[l], consumed |-> {}, held |-> held(l)]]
    /\ draft = db
    /\ ledger = [k \in LedgerDays |-> 0]
    /\ today = 0
    /\ tx = [s \in Sessions |-> Idle]
    /\ holder = [l \in Locks |-> Nobody]

\* A transaction lasts less than a day: it sees one midnight pass at most.
Midnight ==
    /\ today < LastDay
    /\ \A s \in Sessions : Open(s) => tx[s].asOf = today
    /\ today' = today + 1
    /\ UNCHANGED <<db, draft, ledger, tx, holder>>

Step(s) ==
    \/ LockType(s) \/ LockRequest(s) \/ LockOriginal(s)
    \/ ReadCandidates(s) \/ CheckOriginal(s)
    \/ ReadBalance(s) \/ Reselect(s) \/ Update(s) \/ Commit(s)

Next ==
    \/ \E s \in Sessions :
        \/ BeginRefresh(s) \/ Step(s) \/ (Open(s) /\ Rollback(s))
        \/ \E r \in Requests :
            BeginSubmission(s, r) \/ BeginDecision(s, "cancellation", r)
                                  \/ BeginDecision(s, "approval", r)
    \/ Midnight

Spec == Init /\ [][Next]_vars

--------------------------------------------------------------------------------
(* Properties *)

\* Rows keep their kind, and a row nobody has locked has no uncommitted version.
TypeOK ==
    /\ \A r \in Requests :
        /\ db[r].status \in {"Absent", "Pending", "Approved", "Cancelled", "Superseded"}
        /\ db[r].consumed \subseteq LeaveDays[r]
        /\ db[r].held \in Nat
    /\ db[Balance] \in [onHold : Nat, spent : Nat, updatedAt : Nat \cup {NoDay}]
    /\ ledger \in [LedgerDays -> Nat]
    /\ today \in 0..LastDay
    /\ holder \in [Locks -> Sessions \cup {Nobody}]
    /\ \A l \in DOMAIN db : holder[l] = Nobody => draft[l] = db[l]

\* However refreshes overlap, a request's cursor and its held remainder are of
\* one writing: releaseHold and the guards may read either.
CursorMatchesHeld ==
    \A r \in Requests :
        db[r].held = IF IsActive(db[r]) THEN Cardinality(LeaveDays[r] \ db[r].consumed) ELSE 0

\* The copy of a request that reconcile writes back never undoes a cancellation
\* or a swap committed since it was read: the UTC guard closes before the first
\* day can elapse.
SettledStaySettled ==
    [][\A r \in Requests :
            db[r].status \in {"Cancelled", "Superseded"} => db'[r] = db[r]]_vars

\* A leave day is debited once: reconcileApprovedLeaveTx says the front-prefix
\* cursor keeps per-day entries idempotent, refreshBalances that it is
\* idempotent, recordBalanceChange that its floor stops over-consumption.
SpentOncePerDay == \A k \in LedgerDays : ledger[k] <= 1

\* The lock s is waiting for.
Awaits(s, l) ==
    \/ tx[s].at = "type" /\ l = TypeLock
    \/ tx[s].at = "request" /\ l = tx[s].request
    \/ tx[s].at = "original" /\ l = Original[tx[s].request]
    \/ tx[s].at = "update" /\ l = Target(tx[s])

Waiting(s) == {l \in Locks : Awaits(s, l) /\ ~Free(l, s)}

\* Is it a change to a leave that has started by then, and would be refused anyway?
IsRefusedSwap(s) ==
    LET o == Original[tx[s].request]
    IN  tx[s].kind = "approval" /\ o # NoRequest /\ HasStarted(o, Visible(s, o), tx[s].asOf)

\* Did it spend days and find the balance each time as it wanted to write it,
\* because another transaction had spent the same days and committed?
LostMovement(s) == tx[s].posted # {} /\ holder[Balance] # s

\* Transactions wait for one another in a circle only when one of them approves
\* a change to a leave that has started, and is refused anyway, or has lost its
\* movements of the balance: then it has no lock of it, and may lock a request
\* before the balance, against the order in which all others take the two.
\* promoteToApprovedTx counts the request rows it locks and sees "no cycle to
\* deadlock on"; the reconcile it calls under both locks writes the balance and
\* the employee's other requests as well.
OnlyRefusedOrLostDeadlock ==
    \A W \in (SUBSET Sessions) \ {{}} :
        (\A s \in W : \E l \in Waiting(s) : holder[l] \in W)
        => \E s \in W : IsRefusedSwap(s) \/ LostMovement(s)

================================================================================
