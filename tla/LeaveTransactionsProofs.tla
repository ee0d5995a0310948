------------------------ MODULE LeaveTransactionsProofs ------------------------
(***************************************************************************)
(* What the locks of LeaveTransactions protect, for any number of          *)
(* sessions, requests, approvers and leave types.                          *)
(*                                                                         *)
(* The argument is that of two-phase locking: what an open transaction has *)
(* read (Knows) stays true until it commits, because whoever could make it *)
(* false needs a lock that the transaction holds (Locked).                 *)
(***************************************************************************)
EXTENDS LeaveTransactions, TLAPS

--------------------------------------------------------------------------------
(* Types *)

LEMMA IdleType == Idle \in Transactions
<1>1. Idle.type \in LeaveTypes /\ Idle.period \in Periods
    BY NameAssumption DEF Idle
<1>. QED
    BY <1>1 DEF Idle, Transactions, Kinds, Points

LEMMA IdleIsClosed ==
    /\ Idle.kind = "none" /\ Idle.at = "idle"
    /\ Idle.request = NoRequest /\ Idle.original = NoRequest
    /\ Idle.approver = NoApprover /\ Idle.missing = {}
    BY DEF Idle

LEMMA EndType ==
    ASSUME TypeOK, NEW s \in Sessions, End(s)
    PROVE  /\ tx' \in [Sessions -> Transactions]
           /\ holder' \in [Locks -> Sessions \cup {Nobody}]
           /\ \A l \in Locks : holder'[l] # Nobody => Open(holder[l])'
<1>1. tx' \in [Sessions -> Transactions] /\ holder' \in [Locks -> Sessions \cup {Nobody}]
    BY IdleType DEF End, TypeOK
<1>2. ASSUME NEW l \in Locks, holder'[l] # Nobody
      PROVE  Open(holder[l])'
    <2>1. holder'[l] = holder[l] /\ holder[l] # s
        BY <1>2 DEF End, TypeOK
    <2>2. tx'[holder[l]] = tx[holder[l]]
        BY <1>2, <2>1 DEF End, TypeOK
    <2>. QED
        BY <1>2, <2>1, <2>2 DEF TypeOK, Open
<1>. QED
    BY <1>1, <1>2

LEMMA LockKeepsType ==
    ASSUME TypeOK, NEW s \in Sessions, Open(s), NEW l, NEW ok, NEW next \in Points,
           Lock(s, l, ok, next)
    PROVE  TypeOK'
<1>1. CASE ok
    <2>1. /\ tx' = [tx EXCEPT ![s].at = next]
          /\ holder' = [holder EXCEPT ![l] = s]
          /\ UNCHANGED <<rows, today>>
        BY <1>1 DEF Lock
    <2>2. tx' \in [Sessions -> Transactions] /\ \A u \in Sessions : tx'[u].kind = tx[u].kind
        BY <2>1 DEF TypeOK, Transactions
    <2>. QED
        BY <2>1, <2>2 DEF TypeOK, Open
<1>2. CASE ~ok
    BY <1>2, EndType DEF Lock, Rollback, TypeOK
<1>. QED
    BY <1>1, <1>2

LEMMA CheckKeepsType ==
    ASSUME TypeOK, NEW s \in Sessions, Open(s), NEW ok, NEW next \in Points,
           Check(s, ok, next)
    PROVE  TypeOK'
<1>1. CASE ok
    <2>1. tx' = [tx EXCEPT ![s].at = next] /\ UNCHANGED <<rows, today, holder>>
        BY <1>1 DEF Check
    <2>2. tx' \in [Sessions -> Transactions] /\ \A u \in Sessions : tx'[u].kind = tx[u].kind
        BY <2>1 DEF TypeOK, Transactions
    <2>. QED
        BY <2>1, <2>2 DEF TypeOK, Open
<1>2. CASE ~ok
    BY <1>2, EndType DEF Check, Rollback, TypeOK
<1>. QED
    BY <1>1, <1>2

LEMMA SwappedType ==
    ASSUME NEW rs \in [RequestIds -> Rows], NEW r, NEW o
    PROVE  Swapped(rs, r, o) \in [RequestIds -> Rows]
    BY DEF Swapped, Rows, Statuses

\* The row that a submission files.
Filed(t) ==
    [status |-> "Pending", type |-> t.type, period |-> t.period, supersedes |-> t.original,
     votes |-> [a \in Approvers |-> IF a \in t.to THEN "pending" ELSE "none"]]

LEMMA FiledType ==
    ASSUME NEW t \in Transactions
    PROVE  Filed(t) \in Rows
    BY DEF Filed, Transactions, Rows, Statuses

LEMMA RowsType ==
    ASSUME TypeOK, NEW s \in Sessions, CommitSubmission(s) \/ CommitDecision(s)
    PROVE  rows' \in [RequestIds -> Rows]
<1> DEFINE t == tx[s]
<1>1. t \in Transactions /\ rows \in [RequestIds -> Rows]
    BY DEF TypeOK
<1>2. CASE CommitSubmission(s)
    <2> DEFINE filed == [rows EXCEPT ![t.request] = Filed(t)]
    <2>1. filed \in [RequestIds -> Rows]
        BY <1>1, FiledType
    <2>2. rows' = IF t.to = {} THEN Swapped(filed, t.request, t.original) ELSE filed
        BY <1>2 DEF CommitSubmission, Filed
    <2>. QED
        BY <2>1, <2>2, SwappedType
<1>3. CASE CommitDecision(s)
    <2> DEFINE voted == IF t.kind \in Votes
                        THEN [rows EXCEPT ![t.request].votes[t.approver] = VoteOf(t.kind)] ELSE rows
    <2>1. voted \in [RequestIds -> Rows]
        <3>1. t.kind \in Votes => VoteOf(t.kind) \in {"none", "pending", "approved", "rejected"}
            BY DEF Votes, VoteOf
        <3>2. ASSUME NEW q \in Rows, NEW a, NEW v \in {"none", "pending", "approved", "rejected"}
              PROVE  [q EXCEPT !.votes[a] = v] \in Rows
            BY <3>2 DEF Rows
        <3>. QED
            BY <1>1, <3>1, <3>2
    <2>2. ASSUME NEW x \in [RequestIds -> Rows], NEW st \in Statuses
          PROVE  [x EXCEPT ![t.request].status = st] \in [RequestIds -> Rows]
        BY <2>2 DEF Rows
    <2>3. rows' \in {Swapped(voted, t.request, t.original), voted,
                     [voted EXCEPT ![t.request].status = "Rejected"],
                     [voted EXCEPT ![t.request].status = "Cancelled"]}
        BY <1>3 DEF CommitDecision
    <2>4. {"Rejected", "Cancelled"} \subseteq Statuses
        BY DEF Statuses
    <2> HIDE DEF voted
    <2>. QED
        BY <2>1, <2>2, <2>3, <2>4, SwappedType
<1>. QED
    BY <1>2, <1>3

LEMMA BeginType ==
    ASSUME TypeOK, NEW s \in Sessions, Begin(s)
    PROVE  TypeOK'
<1>1. ASSUME NEW t \in Transactions, tx' = [tx EXCEPT ![s] = t], ~Open(s),
             UNCHANGED <<rows, today, holder>>
      PROVE  TypeOK'
    BY <1>1 DEF TypeOK, Open
<1>2. ASSUME NEW r \in RequestIds, NEW o \in RequestIds \cup {NoRequest}, BeginSubmission(s, r, o)
      PROVE  TypeOK'
    <2>1. PICK k \in LeaveTypes, period \in Periods, to \in Gates :
            tx' = [tx EXCEPT ![s] =
                    [Idle EXCEPT !.kind = "submission", !.request = r, !.original = o,
                                 !.type = k, !.period = period, !.to = to,
                                 !.at = IF o = NoRequest THEN "type" ELSE "original"]]
        BY <1>2 DEF BeginSubmission
    <2>2. [Idle EXCEPT !.kind = "submission", !.request = r, !.original = o,
                       !.type = k, !.period = period, !.to = to,
                       !.at = IF o = NoRequest THEN "type" ELSE "original"] \in Transactions
        BY IdleType, NameAssumption DEF Transactions, Kinds, Points
    <2>. QED
        BY ONLY <1>1, <1>2, <2>1, <2>2 DEF BeginSubmission
<1>3. ASSUME NEW kind \in Kinds \ {"none", "submission"}, NEW r \in RequestIds,
             NEW a \in Approvers \cup {NoApprover}, BeginDecision(s, kind, r, a)
      PROVE  TypeOK'
    <2>1. [Idle EXCEPT !.kind = kind, !.request = r, !.approver = a,
                       !.original = rows[r].supersedes, !.at = "request"] \in Transactions
        BY IdleType DEF Transactions, Points, TypeOK, Rows
    <2>. QED
        BY ONLY <1>1, <1>3, <2>1 DEF BeginDecision
<1>. QED
    BY <1>2, <1>3 DEF Begin

--------------------------------------------------------------------------------
(* The inductive invariant                                                 *)
(*                                                                         *)
(* Its parts take rows and transactions as parameters, to speak of them    *)
(* before and after a step.                                                *)

Filing(t) == t.kind = "submission"

Deciding(t) == t.kind \in Kinds \ {"none", "submission"}

\* Where a transaction can be, and what it is about.
Shape(t) ==
    \/ t = Idle
    \/ /\ Filing(t) /\ t.request \in RequestIds /\ t.original # t.request
       /\ t.at \in {"original", "replacement", "type", "overlap", "swap", "commit"}
       /\ t.original = NoRequest => t.at \in {"type", "overlap", "commit"}
    \/ /\ Deciding(t) /\ t.request \in RequestIds
       /\ t.kind \in Votes => t.approver \in Approvers
       /\ t.at \in {"request", "approvers", "replacement", "swap", "commit"}
       /\ t.at = "approvers" => t.kind \in Votes
       /\ t.at = "replacement" => t.kind = "cancellation"
       /\ t.at = "swap" => t.original # NoRequest /\ Promotes(t)

\* The locks it has taken on its way there.
Holds(t) ==
    IF Filing(t)
    THEN (IF t.at # "original" /\ t.original # NoRequest THEN {t.original} ELSE {})
           \cup (IF t.at \in {"overlap", "swap", "commit"} THEN {t.type} ELSE {})
    ELSE IF Deciding(t)
    THEN (IF t.at # "request" THEN {t.request} ELSE {})
           \cup (IF t.at = "commit" /\ Promotes(t) /\ t.original # NoRequest
                 THEN {t.original} ELSE {})
    ELSE {}

Locked(h, x) == \A s \in Sessions, l \in Locks : h[l] = s <=> l \in Holds(x[s])

Awaited(rs, o) == \E r \in RequestIds : rs[r].status = "Pending" /\ rs[r].supersedes = o

\* What it has read of the row it decides.
Counted(q, t) ==
    /\ t.missing = {a \in ToApprovers(q) \ {t.approver} : q.votes[a] # "approved"}
    /\ IF t.kind = "removal" THEN ToApprovers(q) # {t.approver}
       ELSE q.votes[t.approver] = "pending"

\* What it has read, and relies upon.
FilingKnows(rs, t) ==
    /\ rs[t.request].status = "Absent"
    /\ t.original # NoRequest =>
         /\ t.at # "original" => rs[t.original].status = "Approved"
         /\ t.at \notin {"original", "replacement"} => ~Awaited(rs, t.original)
    /\ t.at \in {"swap", "commit"} =>
         \A x \in RequestIds \ {t.original} :
            IsActive(rs[x]) /\ rs[x].type = t.type => ~Overlap(rs[x], t.period)

DecidingKnows(rs, t) ==
    LET q == rs[t.request]
    IN  /\ q.status # "Absent" /\ q.supersedes = t.original
        /\ t.at # "request" =>
             q.status = "Pending" \/ (t.kind = "cancellation" /\ q.status = "Approved")
        /\ t.at = "replacement" => q.status = "Approved"
        /\ t.at = "commit" /\ q.status = "Approved" => ~Awaited(rs, t.request)
        /\ t.at \in {"swap", "commit"} /\ t.kind \in Votes => Counted(q, t)

Knows(rs, t) ==
    /\ Filing(t) => FilingKnows(rs, t)
    /\ Deciding(t) => DecidingKnows(rs, t)

Distinct(x) == \A s, u \in Sessions : s # u /\ Filing(x[s]) => x[u].request # x[s].request

\* The four statements about committed rows.
Paired(rs) ==
    \A r \in RequestIds :
        rs[r].status = "Pending" /\ rs[r].supersedes # NoRequest
        => /\ rs[rs[r].supersedes].status = "Approved"
           /\ \A x \in RequestIds \ {r} :
                rs[x].status = "Pending" => rs[x].supersedes # rs[r].supersedes

Excused(p, x) == p.status = "Pending" /\ p.supersedes = x

Apart(rs) ==
    \A r, x \in RequestIds :
        /\ r # x /\ rs[r].type = rs[x].type
        /\ IsActive(rs[r]) /\ IsActive(rs[x])
        /\ Overlap(rs[r], rs[x].period)
        => Excused(rs[r], x) \/ Excused(rs[x], r)

\* Nobody has answered what is not on file; of a pending request somebody has
\* yet to answer, and nobody has refused it.
GateOpen(q) ==
    /\ q.status = "Absent" => \A a \in Approvers : q.votes[a] = "none"
    /\ q.status = "Pending" =>
        /\ \E a \in Approvers : q.votes[a] = "pending"
        /\ \A a \in Approvers : q.votes[a] # "rejected"

Lawful(rs) == Paired(rs) /\ Apart(rs) /\ \A r \in RequestIds : GateOpen(rs[r])

IInv ==
    /\ TypeOK
    /\ Locked(holder, tx)
    /\ Distinct(tx)
    /\ \A s \in Sessions : Shape(tx[s]) /\ Knows(rows, tx[s])
    /\ Lawful(rows)

LEMMA InvImplies ==
    IInv => TypeOK /\ BookedOncePerType /\ ReplacementHasOriginal /\ GateNeverStuck
<1>1. Lawful(rows) => BookedOncePerType
    BY DEF Lawful, Apart, Excused, BookedOncePerType, Clash
<1>2. Lawful(rows) => ReplacementHasOriginal
    BY DEF Lawful, Paired, ReplacementHasOriginal
<1>3. Lawful(rows) => GateNeverStuck
    BY DEF Lawful, GateOpen, GateNeverStuck
<1>. QED
    BY <1>1, <1>2, <1>3 DEF IInv

LEMMA InitInv == Init => IInv
<1> SUFFICES ASSUME Init PROVE IInv
    OBVIOUS
<1>1. TypeOK
    <2>1. Idle.type \in LeaveTypes /\ Idle.period \in Periods
        BY IdleType DEF Transactions
    <2>2. 0 \in 0..LastDay
        BY NameAssumption
    <2>. QED
        BY <2>1, <2>2, IdleType DEF Init, TypeOK, Rows, Statuses
<1>2. \A s \in Sessions : tx[s] = Idle /\ ~Filing(tx[s]) /\ ~Deciding(tx[s])
    BY IdleIsClosed DEF Init, Filing, Deciding
<1>3. \A r \in RequestIds :
        rows[r].status = "Absent" /\ \A a \in Approvers : rows[r].votes[a] = "none"
    BY DEF Init
<1>4. Locked(holder, tx)
    BY <1>2, NameAssumption DEF Locked, Holds, Init
<1>5. Lawful(rows)
    BY <1>3 DEF Lawful, Paired, Apart, GateOpen, IsActive
<1>. QED
    BY <1>1, <1>2, <1>4, <1>5 DEF IInv, Shape, Knows, Distinct

--------------------------------------------------------------------------------
(* Steps that write no row                                                 *)

\* A transaction is over: its locks are gone, and the others stay as they are.
LEMMA EndKeeps ==
    ASSUME IInv, NEW s \in Sessions, End(s)
    PROVE  /\ tx'[s] = Idle
           /\ \A u \in Sessions \ {s} : tx'[u] = tx[u]
           /\ Locked(holder', tx')
           /\ Distinct(tx')
           /\ \A u \in Sessions : Shape(tx'[u])
<1>1. tx'[s] = Idle /\ \A u \in Sessions \ {s} : tx'[u] = tx[u]
    BY DEF End, IInv, TypeOK
<1>2. Holds(Idle) = {} /\ ~Filing(Idle)
    BY IdleIsClosed DEF Holds, Filing, Deciding
<1>3. Locked(holder', tx')
    <2>1. ASSUME NEW u \in Sessions, NEW l \in Locks
          PROVE  holder'[l] = u <=> l \in Holds(tx'[u])
        <3>1. holder'[l] = IF holder[l] = s THEN Nobody ELSE holder[l]
            BY DEF End
        <3>2. \A v \in Sessions : holder[l] = v <=> l \in Holds(tx[v])
            BY DEF IInv, Locked
        <3>. QED
            BY <1>1, <1>2, <3>1, <3>2, NameAssumption
    <2>. QED
        BY <2>1 DEF Locked
<1>4. Distinct(tx')
    <2>1. \A r \in RequestIds : r # NoRequest
        BY NameAssumption
    <2>2. \A u \in Sessions : Filing(tx[u]) => tx[u].request \in RequestIds
        BY IdleIsClosed DEF IInv, Shape, Filing, Deciding
    <2>. QED
        BY <1>1, <1>2, <2>1, <2>2, IdleIsClosed DEF Distinct, IInv
<1>5. \A u \in Sessions : Shape(tx'[u])
    BY <1>1 DEF Shape, IInv
<1>. QED
    BY <1>1, <1>3, <1>4, <1>5

LEMMA IdleKnows == \A rs : Knows(rs, Idle)
    BY IdleIsClosed DEF Knows, Filing, Deciding

LEMMA RollbackKeeps ==
    ASSUME IInv, NEW s \in Sessions, Rollback(s)
    PROVE  IInv'
<1>1. End(s) /\ rows' = rows /\ today' = today
    BY DEF Rollback
<1>2. TypeOK'
    BY <1>1, EndType DEF IInv, TypeOK
<1>3. \A u \in Sessions : Shape(tx'[u]) /\ Knows(rows', tx'[u])
    BY <1>1, EndKeeps, IdleKnows DEF IInv
<1>. QED
    BY <1>1, <1>2, <1>3, EndKeeps DEF IInv

\* A transaction goes on: whatever it takes or learns, it now holds and knows.
LEMMA AdvanceKeeps ==
    ASSUME IInv, NEW s \in Sessions, NEW t \in Transactions, TypeOK',
           tx' = [tx EXCEPT ![s] = t], rows' = rows,
           Shape(t), Knows(rows, t),
           \A l \in Locks :
              holder'[l] = IF l \in Holds(t) THEN s ELSE holder[l],
           \A l \in Locks : l \in Holds(t) => holder[l] \in {Nobody, s},
           \A l \in Locks : l \in Holds(tx[s]) => l \in Holds(t),
           \A u \in Sessions \ {s} : Filing(t) \/ Filing(tx[u]) => t.request # tx[u].request
    PROVE  IInv'
<1>1. tx'[s] = t /\ \A u \in Sessions \ {s} : tx'[u] = tx[u]
    BY DEF IInv, TypeOK
<1>2. Locked(holder', tx')
    <2>1. ASSUME NEW u \in Sessions, NEW l \in Locks
          PROVE  holder'[l] = u <=> l \in Holds(tx'[u])
        <3>1. \A v \in Sessions : holder[l] = v <=> l \in Holds(tx[v])
            BY DEF IInv, Locked
        <3>. QED
            BY <1>1, <3>1, NameAssumption
    <2>. QED
        BY <2>1 DEF Locked
<1>3. Distinct(tx')
    BY <1>1 DEF Distinct, IInv
<1>4. \A u \in Sessions : Shape(tx'[u]) /\ Knows(rows', tx'[u])
    BY <1>1 DEF IInv
<1>. QED
    BY <1>2, <1>3, <1>4 DEF IInv

\* The transaction t, at its next statement.
At(t, next) == [t EXCEPT !.at = next]

LEMMA AtIs ==
    ASSUME NEW t \in Transactions, NEW next \in Points
    PROVE  /\ At(t, next) \in Transactions /\ At(t, next).at = next
           /\ At(t, next).kind = t.kind /\ At(t, next).request = t.request
           /\ At(t, next).original = t.original /\ At(t, next).type = t.type
           /\ At(t, next).period = t.period /\ At(t, next).to = t.to
           /\ At(t, next).approver = t.approver /\ At(t, next).missing = t.missing
    BY DEF At, Transactions

LEMMA LockKeeps ==
    ASSUME IInv, NEW s \in Sessions, Open(s), NEW l \in Locks, NEW ok, NEW next \in Points,
           Lock(s, l, ok, next),
           ok => /\ Shape(At(tx[s], next)) /\ Knows(rows, At(tx[s], next))
                 /\ Holds(At(tx[s], next)) = Holds(tx[s]) \cup {l}
    PROVE  IInv'
<1>1. CASE ok
    <2> DEFINE t == At(tx[s], next)
    <2>1. /\ tx' = [tx EXCEPT ![s] = t]
          /\ holder' = [holder EXCEPT ![l] = s]
          /\ rows' = rows /\ Free(l, s)
        BY <1>1 DEF Lock, At
    <2>2. t \in Transactions /\ t.kind = tx[s].kind /\ t.request = tx[s].request
        BY AtIs DEF IInv, TypeOK
    <2>3. TypeOK'
        BY LockKeepsType DEF IInv
    <2>4. Holds(t) = Holds(tx[s]) \cup {l}
        BY <1>1
    <2>5. \A k \in Locks : holder'[k] = IF k \in Holds(t) THEN s ELSE holder[k]
        BY <2>1, <2>4 DEF IInv, Locked, TypeOK
    <2>6. \A k \in Locks : k \in Holds(t) => holder[k] \in {Nobody, s}
        BY <2>1, <2>4 DEF IInv, Locked, Free
    <2>7. \A u \in Sessions \ {s} : Filing(t) \/ Filing(tx[u]) => t.request # tx[u].request
        BY <2>2 DEF IInv, Distinct, Filing
    <2> HIDE DEF t
    <2>. QED
        BY <1>1, <2>1, <2>2, <2>3, <2>4, <2>5, <2>6, <2>7, AdvanceKeeps DEF t
<1>2. CASE ~ok
    BY <1>2, RollbackKeeps DEF Lock
<1>. QED
    BY <1>1, <1>2

LEMMA CheckKeeps ==
    ASSUME IInv, NEW s \in Sessions, Open(s), NEW ok, NEW next \in Points,
           Check(s, ok, next),
           ok => /\ Shape(At(tx[s], next)) /\ Knows(rows, At(tx[s], next))
                 /\ Holds(At(tx[s], next)) = Holds(tx[s])
    PROVE  IInv'
<1>1. CASE ok
    <2> DEFINE t == At(tx[s], next)
    <2>1. tx' = [tx EXCEPT ![s] = t] /\ holder' = holder /\ rows' = rows
        BY <1>1 DEF Check, At
    <2>2. t \in Transactions /\ t.kind = tx[s].kind /\ t.request = tx[s].request
        BY AtIs DEF IInv, TypeOK
    <2>3. TypeOK'
        BY CheckKeepsType DEF IInv
    <2>4. Holds(t) = Holds(tx[s])
        BY <1>1
    <2>5. \A k \in Locks : holder'[k] = IF k \in Holds(t) THEN s ELSE holder[k]
        BY <2>1, <2>4 DEF IInv, Locked, TypeOK
    <2>6. \A k \in Locks : k \in Holds(t) => holder[k] \in {Nobody, s}
        BY <2>4 DEF IInv, Locked
    <2>7. \A u \in Sessions \ {s} : Filing(t) \/ Filing(tx[u]) => t.request # tx[u].request
        BY <2>2 DEF IInv, Distinct, Filing
    <2> HIDE DEF t
    <2>. QED
        BY <1>1, <2>1, <2>2, <2>3, <2>4, <2>5, <2>6, <2>7, AdvanceKeeps DEF t
<1>2. CASE ~ok
    BY <1>2, RollbackKeeps DEF Check
<1>. QED
    BY <1>1, <1>2

LEMMA BeginKeeps ==
    ASSUME IInv, NEW s \in Sessions, Begin(s)
    PROVE  IInv'
<1>1. TypeOK /\ TypeOK'
    BY BeginType DEF IInv
<1>2. Shape(tx[s]) /\ ~Open(s) => Holds(tx[s]) = {}
    BY DEF Shape, Open, Holds, Filing, Deciding
<1>3. ASSUME NEW t \in Transactions, tx' = [tx EXCEPT ![s] = t], ~Open(s),
             rows' = rows, holder' = holder, Holds(t) = {}, Shape(t), Knows(rows, t),
             \A u \in Sessions \ {s} : Filing(t) \/ Filing(tx[u]) => t.request # tx[u].request
      PROVE  IInv'
    BY <1>1, <1>2, <1>3, AdvanceKeeps DEF IInv
<1>4. ASSUME NEW r \in RequestIds, NEW o \in RequestIds \cup {NoRequest}, BeginSubmission(s, r, o)
      PROVE  IInv'
    <2>1. PICK k \in LeaveTypes, period \in Periods, to \in Gates :
            /\ o # NoRequest => rows[o].status = "Approved"
            /\ tx' = [tx EXCEPT ![s] =
                    [Idle EXCEPT !.kind = "submission", !.request = r, !.original = o,
                                 !.type = k, !.period = period, !.to = to,
                                 !.at = IF o = NoRequest THEN "type" ELSE "original"]]
        BY <1>4 DEF BeginSubmission
    <2> DEFINE t == [Idle EXCEPT !.kind = "submission", !.request = r, !.original = o,
                                 !.type = k, !.period = period, !.to = to,
                                 !.at = IF o = NoRequest THEN "type" ELSE "original"]
    <2>2. t \in Transactions
        BY IdleType, NameAssumption DEF Transactions, Kinds, Points
    <2>3. /\ t.kind = "submission" /\ t.request = r /\ t.original = o
          /\ t.at = IF o = NoRequest THEN "type" ELSE "original"
        BY IdleType DEF Transactions
    <2>4. /\ ~Open(s) /\ rows' = rows /\ holder' = holder
          /\ Fresh(r) /\ o # r
        BY <1>4 DEF BeginSubmission
    <2> HIDE DEF t
    <2>5. Holds(t) = {} /\ Shape(t) /\ Knows(rows, t)
        BY <2>3, <2>4 DEF Holds, Shape, Knows, FilingKnows, Filing, Deciding, Fresh
    <2>6. \A u \in Sessions \ {s} : t.request # tx[u].request
        BY <2>3, <2>4 DEF Fresh
    <2>. QED
        BY <1>3, <2>1, <2>2, <2>4, <2>5, <2>6 DEF t
<1>5. ASSUME NEW kind \in Kinds \ {"none", "submission"}, NEW r \in RequestIds,
             NEW a \in Approvers \cup {NoApprover}, BeginDecision(s, kind, r, a)
      PROVE  IInv'
    <2> DEFINE t == [Idle EXCEPT !.kind = kind, !.request = r, !.approver = a,
                                 !.original = rows[r].supersedes, !.at = "request"]
    <2>1. t \in Transactions
        BY <1>1, IdleType DEF Transactions, Points, TypeOK, Rows
    <2>2. /\ t.kind = kind /\ t.request = r /\ t.approver = a /\ t.at = "request"
          /\ t.original = rows[r].supersedes
        BY IdleType DEF Transactions
    <2>3. /\ ~Open(s) /\ rows' = rows /\ holder' = holder /\ tx' = [tx EXCEPT ![s] = t]
          /\ IsActive(rows[r]) /\ (kind \in Votes => a \in Approvers)
        BY <1>5 DEF BeginDecision
    <2> HIDE DEF t
    <2>4. ~Filing(t) /\ Deciding(t)
        BY <2>2 DEF Filing, Deciding
    <2>5. Holds(t) = {} /\ Shape(t) /\ Knows(rows, t)
        BY <2>2, <2>3, <2>4 DEF Holds, Shape, Knows, DecidingKnows, IsActive
    <2>6. \A u \in Sessions \ {s} : Filing(tx[u]) => t.request # tx[u].request
        BY <2>2, <2>3 DEF IInv, Knows, FilingKnows, IsActive
    <2>. QED
        BY <1>3, <2>1, <2>3, <2>4, <2>5, <2>6
<1>. QED
    BY <1>4, <1>5 DEF Begin

\* What a transaction at a given point is known to be.
LEMMA PointTells ==
    ASSUME IInv, NEW s \in Sessions, tx[s].at # "idle"
    PROVE  /\ Open(s) /\ tx[s] \in Transactions /\ tx[s].request \in RequestIds
           /\ Shape(tx[s]) /\ Knows(rows, tx[s])
           /\ Filing(tx[s]) \/ Deciding(tx[s])
           /\ ~(Filing(tx[s]) /\ Deciding(tx[s]))
           /\ tx[s].original # NoRequest => tx[s].original \in RequestIds
<1>1. tx[s] # Idle
    BY IdleIsClosed
<1>. QED
    BY <1>1 DEF IInv, TypeOK, Transactions, Shape, Open, Filing, Deciding

LEMMA LockOriginalKeeps ==
    ASSUME IInv, NEW s \in Sessions, LockOriginal(s)
    PROVE  IInv'
<1> DEFINE t == tx[s]
           u == At(t, "replacement")
           ok == rows[t.original].status = "Approved" /\ ~HasStarted(rows[t.original])
<1>1. t.at = "original" /\ Lock(s, t.original, ok, "replacement")
    BY DEF LockOriginal
<1>2. /\ Open(s) /\ t \in Transactions /\ Shape(t) /\ Knows(rows, t) /\ Filing(t)
      /\ t.original \in RequestIds /\ t.original # NoRequest /\ t.request \in RequestIds
      /\ t.original # t.request
    BY <1>1, PointTells, IdleIsClosed DEF Shape
<1>3. /\ u.at = "replacement" /\ u.kind = t.kind /\ u.request = t.request
      /\ u.original = t.original /\ u.type = t.type /\ u.period = t.period
    BY <1>2, AtIs DEF Points
<1> HIDE DEF t, u
<1>4. Holds(u) = Holds(t) \cup {t.original}
    BY <1>1, <1>2, <1>3 DEF Holds, Filing
<1>5. Shape(u)
    BY <1>2, <1>3 DEF Shape, Filing
<1>6. ok => Knows(rows, u)
    BY <1>2, <1>3 DEF Knows, FilingKnows, Filing, Deciding
<1>. QED
    BY <1>1, <1>2, <1>4, <1>5, <1>6, LockKeeps DEF t, u, Locks, Points

LEMMA CheckReplacementKeeps ==
    ASSUME IInv, NEW s \in Sessions, CheckReplacement(s)
    PROVE  IInv'
<1> DEFINE t == tx[s]
<1>1. t.at = "replacement"
    BY DEF CheckReplacement
<1>2. /\ Open(s) /\ t \in Transactions /\ Shape(t) /\ Knows(rows, t)
      /\ t.request \in RequestIds /\ (Filing(t) \/ Deciding(t))
    BY <1>1, PointTells
<1>3. CASE Filing(t)
    <2> DEFINE u == At(t, "type")
    <2>1. Check(s, ~Awaited(rows, t.original), "type")
        BY <1>3 DEF CheckReplacement, Filing, HasPendingReplacement, Awaited
    <2>2. /\ u.at = "type" /\ u.kind = t.kind /\ u.request = t.request
          /\ u.original = t.original /\ u.type = t.type /\ u.period = t.period
        BY <1>2, AtIs DEF Points
    <2> HIDE DEF t, u
    <2>3. Holds(u) = Holds(t) /\ Shape(u)
        BY <1>1, <1>2, <1>3, <2>2, IdleIsClosed DEF Holds, Shape, Filing, Deciding
    <2>4. ~Awaited(rows, t.original) => Knows(rows, u)
        BY <1>1, <1>2, <1>3, <2>2 DEF Knows, FilingKnows, Filing, Deciding
    <2>. QED
        BY <1>2, <2>1, <2>3, <2>4, CheckKeeps DEF t, u, Points
<1>4. CASE ~Filing(t)
    <2> DEFINE u == At(t, "commit")
    <2>1. Check(s, ~Awaited(rows, t.request), "commit")
        BY <1>4 DEF CheckReplacement, Filing, HasPendingReplacement, Awaited
    <2>2. /\ u.at = "commit" /\ u.kind = t.kind /\ u.request = t.request
          /\ u.original = t.original /\ u.type = t.type /\ u.period = t.period
          /\ u.missing = t.missing /\ u.approver = t.approver
        BY <1>2, AtIs DEF Points
    <2> HIDE DEF t, u
    <2>3. t.kind = "cancellation" /\ Deciding(t) /\ Deciding(u) /\ ~Filing(u) /\ ~Promotes(u)
        BY <1>1, <1>2, <1>4, <2>2, IdleIsClosed DEF Shape, Filing, Deciding, Promotes, Kinds
    <2>4. Holds(u) = Holds(t) /\ Shape(u)
        BY <1>1, <1>2, <1>4, <2>2, <2>3 DEF Holds, Shape, Votes
    <2>5. ~Awaited(rows, t.request) => Knows(rows, u)
        BY <1>1, <1>2, <1>4, <2>2, <2>3 DEF Knows, DecidingKnows, Votes
    <2>. QED
        BY <1>2, <2>1, <2>4, <2>5, CheckKeeps DEF t, u, Points
<1>. QED
    BY <1>3, <1>4

LEMMA LockTypeKeeps ==
    ASSUME IInv, NEW s \in Sessions, LockType(s)
    PROVE  IInv'
<1> DEFINE t == tx[s]
           u == At(t, "overlap")
<1>1. t.at = "type" /\ Lock(s, t.type, TRUE, "overlap")
    BY DEF LockType
<1>2. /\ Open(s) /\ t \in Transactions /\ Shape(t) /\ Knows(rows, t) /\ Filing(t)
      /\ t.type \in LeaveTypes
    BY <1>1, PointTells, IdleIsClosed DEF Shape, Transactions
<1>3. /\ u.at = "overlap" /\ u.kind = t.kind /\ u.request = t.request
      /\ u.original = t.original /\ u.type = t.type /\ u.period = t.period
    BY <1>2, AtIs DEF Points
<1> HIDE DEF t, u
<1>4. Holds(u) = Holds(t) \cup {t.type}
    BY <1>1, <1>2, <1>3 DEF Holds, Filing
<1>5. Shape(u) /\ Knows(rows, u)
    BY <1>1, <1>2, <1>3, IdleIsClosed DEF Shape, Knows, FilingKnows, Filing, Deciding
<1>. QED
    BY <1>1, <1>2, <1>4, <1>5, LockKeeps DEF t, u, Locks, Points

LEMMA CheckOverlapKeeps ==
    ASSUME IInv, NEW s \in Sessions, CheckOverlap(s)
    PROVE  IInv'
<1> DEFINE t == tx[s]
           next == IF t.to = {} /\ t.original # NoRequest THEN "swap" ELSE "commit"
           u == At(t, next)
           ok == \A x \in RequestIds \ {t.original} :
                    ~(IsActive(rows[x]) /\ Overlap(rows[x], t.period))
<1>1. t.at = "overlap" /\ Check(s, ok, next)
    BY DEF CheckOverlap
<1>2. /\ Open(s) /\ t \in Transactions /\ Shape(t) /\ Knows(rows, t) /\ Filing(t)
    BY <1>1, PointTells, IdleIsClosed DEF Shape
<1>3. next \in Points /\ next \in {"swap", "commit"} /\ (next = "swap" => t.original # NoRequest)
    BY DEF Points
<1>4. /\ u.at = next /\ u.kind = t.kind /\ u.request = t.request
      /\ u.original = t.original /\ u.type = t.type /\ u.period = t.period
    BY <1>2, <1>3, AtIs
<1> HIDE DEF t, u, next
<1>5. Holds(u) = Holds(t)
    BY <1>1, <1>2, <1>3, <1>4 DEF Holds, Filing
<1>6. Shape(u)
    BY <1>1, <1>2, <1>3, <1>4, IdleIsClosed DEF Shape, Filing, Deciding
<1>7. ok => Knows(rows, u)
    BY <1>1, <1>2, <1>3, <1>4 DEF Knows, FilingKnows, Filing, Deciding
<1> HIDE DEF ok
<1>. QED
    BY <1>1, <1>2, <1>3, <1>5, <1>6, <1>7, CheckKeeps DEF t, u

LEMMA LockSwappedKeeps ==
    ASSUME IInv, NEW s \in Sessions, LockSwapped(s)
    PROVE  IInv'
<1> DEFINE t == tx[s]
           u == At(t, "commit")
           ok == ~(rows[t.original].status = "Approved" /\ HasStarted(rows[t.original]))
<1>1. t.at = "swap" /\ Lock(s, t.original, ok, "commit")
    BY DEF LockSwapped
<1>2. /\ Open(s) /\ t \in Transactions /\ Shape(t) /\ Knows(rows, t)
      /\ t.original \in RequestIds /\ t.original # NoRequest
      /\ Filing(t) \/ Deciding(t)
      /\ ~(Filing(t) /\ Deciding(t))
    BY <1>1, PointTells, IdleIsClosed DEF Shape, Filing, Deciding
<1>3. /\ u.at = "commit" /\ u.kind = t.kind /\ u.request = t.request
      /\ u.original = t.original /\ u.type = t.type /\ u.period = t.period
      /\ u.missing = t.missing /\ u.approver = t.approver
    BY <1>2, AtIs DEF Points
<1> HIDE DEF t, u
<1>4. Filing(u) <=> Filing(t)
    BY <1>3 DEF Filing
<1>5. (Deciding(u) <=> Deciding(t)) /\ (Promotes(u) <=> Promotes(t))
    BY <1>3 DEF Deciding, Promotes
<1>6. Deciding(t) => Promotes(t)
    BY <1>1, <1>2, IdleIsClosed DEF Shape, Filing, Deciding
<1>7. Holds(u) = Holds(t) \cup {t.original}
    BY <1>1, <1>2, <1>3, <1>4, <1>5, <1>6 DEF Holds
<1>8. Shape(u)
    BY <1>1, <1>2, <1>3, <1>4, <1>5, IdleIsClosed DEF Shape
<1>9. Knows(rows, u)
    <2>1. Filing(t) => FilingKnows(rows, u)
        BY <1>1, <1>2, <1>3 DEF Knows, FilingKnows
    <2>2. ASSUME Deciding(t) PROVE DecidingKnows(rows, u)
        <3>1. t.kind # "cancellation"
            BY <1>6, <2>2 DEF Promotes
        <3>2. rows[t.request].status = "Pending"
            BY <1>1, <1>2, <2>2, <3>1 DEF Knows, DecidingKnows
        <3>3. t.kind \in Votes => Counted(rows[t.request], u)
            BY <1>1, <1>2, <1>3, <2>2 DEF Knows, DecidingKnows, Counted
        <3>. QED
            BY <1>1, <1>2, <1>3, <2>2, <3>2, <3>3 DEF Knows, DecidingKnows
    <2>. QED
        BY <2>1, <2>2, <1>4, <1>5 DEF Knows
<1>. QED
    BY <1>1, <1>2, <1>7, <1>8, <1>9, LockKeeps DEF t, u, Locks, Points

LEMMA LockRequestKeeps ==
    ASSUME IInv, NEW s \in Sessions, LockRequest(s)
    PROVE  IInv'
<1> DEFINE t == tx[s]
           q == rows[t.request]
           next == CASE t.kind \in Votes -> "approvers"
                     [] t.kind = "override" /\ t.original # NoRequest -> "swap"
                     [] t.kind = "cancellation" /\ q.status = "Approved" -> "replacement"
                     [] OTHER -> "commit"
           u == At(t, next)
<1>1. t.at = "request" /\ Lock(s, t.request, StillOpen(t, q), next)
    BY DEF LockRequest
<1>2. /\ Open(s) /\ t \in Transactions /\ Shape(t) /\ Knows(rows, t)
      /\ t.request \in RequestIds /\ Deciding(t) /\ ~Filing(t)
    BY <1>1, PointTells, IdleIsClosed DEF Shape
<1>3. /\ next \in {"approvers", "swap", "replacement", "commit"}
      /\ next = "approvers" <=> t.kind \in Votes
      /\ next = "replacement" => t.kind = "cancellation" /\ q.status = "Approved"
      /\ next = "commit" /\ t.kind = "cancellation" => q.status # "Approved"
      /\ next = "swap" => t.kind = "override" /\ t.original # NoRequest
      /\ next = "commit" /\ Promotes(t) => t.original = NoRequest
    BY <1>2 DEF Votes, Deciding, Kinds, Promotes
<1>4. /\ u.at = next /\ u.kind = t.kind /\ u.request = t.request
      /\ u.original = t.original /\ u.type = t.type /\ u.period = t.period
      /\ u.missing = t.missing /\ u.approver = t.approver
    BY <1>2, <1>3, AtIs DEF Points
<1> HIDE DEF t, u, next, q
<1>5. Deciding(u) /\ ~Filing(u) /\ (Promotes(u) <=> Promotes(t))
    BY <1>2, <1>4 DEF Deciding, Filing, Promotes
<1>6. Holds(u) = Holds(t) \cup {t.request}
    BY <1>1, <1>2, <1>3, <1>4, <1>5 DEF Holds
<1>7. Shape(u)
    BY <1>1, <1>2, <1>3, <1>4, <1>5, IdleIsClosed DEF Shape, Promotes
<1>8. ASSUME StillOpen(t, q) PROVE Knows(rows, u)
    <2>1. q.status = "Pending" \/ (t.kind = "cancellation" /\ q.status = "Approved")
        BY <1>8 DEF StillOpen
    <2>2. u.at \in {"swap", "commit"} => u.kind \notin Votes
        BY <1>3, <1>4
    <2>. QED
        BY <1>1, <1>2, <1>3, <1>4, <1>5, <2>1, <2>2 DEF Knows, DecidingKnows, q
<1>. QED
    BY <1>1, <1>2, <1>3, <1>6, <1>7, <1>8, LockKeeps DEF t, u, Locks, Points

LEMMA ReadApproversKeeps ==
    ASSUME IInv, NEW s \in Sessions, ReadApprovers(s)
    PROVE  IInv'
<1> DEFINE t == tx[s]
           q == rows[t.request]
           missing == {a \in ToApprovers(q) \ {t.approver} : q.votes[a] # "approved"}
           ok == IF t.kind = "removal"
                 THEN t.approver \in ToApprovers(q) /\ ToApprovers(q) # {t.approver}
                 ELSE q.votes[t.approver] = "pending"
           next == IF t.kind # "rejection" /\ missing = {} /\ t.original # NoRequest
                   THEN "swap" ELSE "commit"
           u == [t EXCEPT !.missing = missing, !.at = next]
<1>1. /\ t.at = "approvers"
      /\ IF ok
         THEN tx' = [tx EXCEPT ![s] = u] /\ UNCHANGED <<rows, today, holder>>
         ELSE Rollback(s)
    BY DEF ReadApprovers
<1>2. /\ Open(s) /\ t \in Transactions /\ Shape(t) /\ Knows(rows, t)
      /\ t.request \in RequestIds /\ Deciding(t) /\ ~Filing(t) /\ t.kind \in Votes
    BY <1>1, PointTells, IdleIsClosed DEF Shape, Filing, Deciding, Votes
<1>3. CASE ~ok
    BY <1>1, <1>3, RollbackKeeps
<1>4. CASE ok
    <2>1. next \in {"swap", "commit"}
        OBVIOUS
    <2>2. missing \subseteq Approvers
        BY DEF ToApprovers
    <2>3. /\ u \in Transactions /\ u.at = next /\ u.missing = missing
          /\ u.kind = t.kind /\ u.request = t.request /\ u.original = t.original
          /\ u.type = t.type /\ u.period = t.period /\ u.approver = t.approver
        BY <1>2, <2>1, <2>2 DEF Transactions, Points
    <2>4. tx' = [tx EXCEPT ![s] = u] /\ UNCHANGED <<rows, today, holder>>
        BY <1>1, <1>4
    <2>5. Counted(q, u)
        BY <1>4, <2>3 DEF Counted
    <2>6. next = "swap" <=> t.kind # "rejection" /\ missing = {} /\ t.original # NoRequest
        OBVIOUS
    <2> HIDE DEF t, q, missing, ok, next, u
    <2>7. Deciding(u) /\ ~Filing(u)
        BY <1>2, <2>3 DEF Deciding, Filing
    <2>8. Holds(u) = Holds(t) /\ Shape(u)
        BY <1>1, <1>2, <2>1, <2>3, <2>6, <2>7, IdleIsClosed
           DEF Holds, Shape, Promotes, Votes
    <2>9. Knows(rows, u)
        <3>1. q.status = "Pending" /\ q.supersedes = t.original
            BY <1>1, <1>2 DEF Knows, DecidingKnows, Votes, q
        <3>. QED
            BY <1>2, <2>1, <2>3, <2>5, <2>7, <3>1 DEF Knows, DecidingKnows, q
    <2>10. TypeOK'
        BY <2>3, <2>4, <1>2 DEF IInv, TypeOK, Open, t
    <2>11. \A l \in Locks : holder'[l] = IF l \in Holds(u) THEN s ELSE holder[l]
        BY <2>4, <2>8 DEF IInv, Locked, t
    <2>12. \A l \in Locks : l \in Holds(u) => holder[l] \in {Nobody, s}
        BY <2>8 DEF IInv, Locked, t
    <2>13. \A v \in Sessions \ {s} : Filing(u) \/ Filing(tx[v]) => u.request # tx[v].request
        BY <2>3, <2>7 DEF IInv, Distinct, t
    <2>14. \A l \in Locks : l \in Holds(tx[s]) => l \in Holds(u)
        BY <2>8 DEF t
    <2>. QED
        BY <2>3, <2>4, <2>8, <2>9, <2>10, <2>11, <2>12, <2>13, <2>14, AdvanceKeeps
<1>. QED
    BY <1>3, <1>4

--------------------------------------------------------------------------------
(* What a commit does to the rows, and what it leaves to the others        *)

\* Whatever is locked is on file.
LEMMA HeldIsOnFile ==
    ASSUME IInv, NEW s \in Sessions, NEW x \in RequestIds, x \in Holds(tx[s])
    PROVE  rows[x].status # "Absent"
<1> DEFINE t == tx[s]
<1>1. /\ t \in Transactions /\ Shape(t) /\ Knows(rows, t)
      /\ rows \in [RequestIds -> Rows] /\ Paired(rows)
    BY DEF IInv, TypeOK, Lawful
<1>2. CASE Filing(t)
    <2>1. t.type \notin RequestIds
        BY <1>1, NameAssumption DEF Transactions
    <2>. QED
        BY <1>1, <1>2, <2>1 DEF Holds, Knows, FilingKnows
<1>3. CASE Deciding(t) /\ ~Filing(t)
    <2>1. t.request \in RequestIds /\ DecidingKnows(rows, t)
        BY <1>1, <1>3, IdleIsClosed DEF Shape, Knows, Deciding
    <2>2. CASE x = t.request
        BY <2>1, <2>2 DEF DecidingKnows
    <2>3. CASE x # t.request
        <3>1. t.at = "commit" /\ Promotes(t) /\ x = t.original /\ x # NoRequest
            BY <1>3, <2>3 DEF Holds
        <3>2. rows[t.request].status = "Pending" /\ rows[t.request].supersedes = x
            BY <2>1, <3>1 DEF DecidingKnows, Promotes
        <3>. QED
            BY <1>1, <2>1, <3>1, <3>2 DEF Paired
    <2>. QED
        BY <2>2, <2>3
<1>. QED
    BY <1>2, <1>3 DEF Holds

\* What another transaction does with its own locks leaves what t knows true.
LEMMA StillKnows ==
    ASSUME NEW rs \in [RequestIds -> Rows], NEW rs2 \in [RequestIds -> Rows],
           NEW t \in Transactions, Shape(t), Knows(rs, t),
           \A x \in RequestIds : x \in Holds(t) => rs2[x] = rs[x],
           Filing(t) => rs2[t.request] = rs[t.request],
           \A x \in RequestIds : rs[x].status # "Absent" =>
              rs2[x].status # "Absent" /\ rs2[x].supersedes = rs[x].supersedes,
           \A x \in RequestIds : rs2[x].status = "Pending" =>
              \/ rs2[x] = rs[x] \/ rs[x].status = "Pending"
              \/ rs2[x].supersedes = NoRequest \/ rs2[x].supersedes \notin Holds(t),
           \A x \in RequestIds : IsActive(rs2[x]) =>
              \/ /\ IsActive(rs[x])
                 /\ rs2[x].type = rs[x].type /\ rs2[x].period = rs[x].period
              \/ rs2[x].type \notin Holds(t)
    PROVE  Knows(rs2, t)
<1>1. ASSUME NEW o \in Holds(t), o # NoRequest, ~Awaited(rs, o)
      PROVE  ~Awaited(rs2, o)
    <2>1. ASSUME NEW x \in RequestIds, rs2[x].status = "Pending", rs2[x].supersedes = o
          PROVE  FALSE
        <3>1. rs[x].status = "Pending"
            BY <1>1, <2>1
        <3>2. rs[x].supersedes = o
            BY <2>1, <3>1
        <3>. QED
            BY <1>1, <2>1, <3>1, <3>2 DEF Awaited
    <2>. QED
        BY <2>1 DEF Awaited
<1>2. CASE Filing(t)
    <2>1. t.request \in RequestIds /\ ~Deciding(t) /\ FilingKnows(rs, t)
        BY <1>2, IdleIsClosed DEF Shape, Filing, Deciding, Knows
    <2>2. t.original # NoRequest => t.original \in RequestIds
        BY DEF Transactions
    <2>3. t.original # NoRequest /\ t.at # "original" => t.original \in Holds(t)
        BY <1>2 DEF Holds
    <2>4. t.at \in {"swap", "commit"} => t.type \in Holds(t)
        BY <1>2 DEF Holds
    <2>5. t.at \in {"swap", "commit"} =>
            \A x \in RequestIds \ {t.original} :
              IsActive(rs2[x]) /\ rs2[x].type = t.type => ~Overlap(rs2[x], t.period)
        BY <2>1, <2>4 DEF FilingKnows, Overlap
    <2>6. t.original # NoRequest /\ t.at # "original" => rs2[t.original].status = "Approved"
        BY <2>1, <2>2, <2>3 DEF FilingKnows
    <2>7. t.original # NoRequest /\ t.at \notin {"original", "replacement"}
            => ~Awaited(rs2, t.original)
        BY <1>1, <2>1, <2>3 DEF FilingKnows
    <2>8. rs2[t.request].status = "Absent"
        BY <1>2, <2>1 DEF FilingKnows
    <2>. QED
        BY <2>1, <2>5, <2>6, <2>7, <2>8 DEF Knows, FilingKnows
<1>3. CASE Deciding(t)
    <2>1. t.request \in RequestIds /\ ~Filing(t) /\ DecidingKnows(rs, t)
        BY <1>3, IdleIsClosed DEF Shape, Filing, Deciding, Knows
    <2>2. t.at # "request" => t.request \in Holds(t)
        BY <1>3, <2>1 DEF Holds
    <2>3. rs2[t.request].status # "Absent" /\ rs2[t.request].supersedes = t.original
        BY <2>1 DEF DecidingKnows
    <2>4. t.at # "request" => rs2[t.request] = rs[t.request]
        BY <2>1, <2>2
    <2>5. t.at = "commit" /\ ~Awaited(rs, t.request) => ~Awaited(rs2, t.request)
        BY <1>1, <2>1, <2>2, NameAssumption
    <2>. QED
        BY <2>1, <2>3, <2>4, <2>5 DEF Knows, DecidingKnows
<1>. QED
    BY <1>2, <1>3 DEF Knows

\* The rows once row r has become q; with an approval goes the leave it replaces.
Written(rs, r, q) ==
    [x \in RequestIds |->
        IF x = r THEN q
        ELSE IF q.status = "Approved" /\ x = q.supersedes
        THEN [rs[x] EXCEPT !.status = "Superseded"]
        ELSE rs[x]]

LEMMA WrittenIs ==
    ASSUME NEW rs \in [RequestIds -> Rows], NEW r \in RequestIds, NEW q \in Rows
    PROVE  /\ Written(rs, r, q) \in [RequestIds -> Rows]
           /\ Written(rs, r, q)[r] = q
           /\ \A x \in RequestIds \ {r} :
                \/ Written(rs, r, q)[x] = rs[x]
                \/ /\ q.status = "Approved" /\ x = q.supersedes
                   /\ Written(rs, r, q)[x].status = "Superseded"
                   /\ Written(rs, r, q)[x].supersedes = rs[x].supersedes
                   /\ Written(rs, r, q)[x].votes = rs[x].votes
           /\ \A x \in RequestIds \ {r} :
                q.status = "Approved" /\ x = q.supersedes
                => Written(rs, r, q)[x].status = "Superseded"
    BY DEF Written, Rows, Statuses

\* A decision keeps the rows lawful.
LEMMA DecidedLawful ==
    ASSUME NEW rs \in [RequestIds -> Rows], Lawful(rs), NEW r \in RequestIds, NEW q \in Rows,
           rs[r].status \in {"Pending", "Approved"},
           q.supersedes = rs[r].supersedes, q.type = rs[r].type, q.period = rs[r].period,
           IsActive(q) => rs[r].status = "Pending",
           rs[r].status = "Approved" => ~Awaited(rs, r),
           GateOpen(q)
    PROVE  Lawful(Written(rs, r, q))
<1> DEFINE new == Written(rs, r, q)
<1>1. /\ new[r] = q
      /\ \A x \in RequestIds \ {r} :
            \/ new[x] = rs[x]
            \/ q.status = "Approved" /\ x = q.supersedes /\ new[x].status = "Superseded"
      /\ \A x \in RequestIds \ {r} :
            q.status = "Approved" /\ x = q.supersedes => new[x].status = "Superseded"
    BY WrittenIs
<1> HIDE DEF new
<1>2. Paired(new)
    <2> SUFFICES ASSUME NEW y \in RequestIds, new[y].status = "Pending",
                        new[y].supersedes # NoRequest
                 PROVE  /\ new[new[y].supersedes].status = "Approved"
                        /\ \A x \in RequestIds \ {y} :
                             new[x].status = "Pending" => new[x].supersedes # new[y].supersedes
        BY DEF Paired
    <2> DEFINE o == rs[y].supersedes
    <2>1. rs[y].status = "Pending" /\ new[y].supersedes = o /\ o # NoRequest
        BY <1>1 DEF IsActive
    <2>2. o \in RequestIds /\ rs[o].status = "Approved"
        BY <2>1 DEF Lawful, Paired, Rows
    <2>3. \A x \in RequestIds : new[x].status = "Pending" =>
            rs[x].status = "Pending" /\ new[x].supersedes = rs[x].supersedes
        BY <1>1 DEF IsActive
    <2>4. \A x \in RequestIds \ {y} : rs[x].status = "Pending" => rs[x].supersedes # o
        BY <2>1 DEF Lawful, Paired
    <2>5. o # r
        BY <2>1, <2>2 DEF Awaited
    <2>6. new[o] = rs[o]
        <3>1. CASE q.status = "Approved" /\ o = q.supersedes
            <4>1. rs[r].status = "Pending" /\ r # y
                BY <1>1, <3>1 DEF IsActive
            <4>. QED
                BY <2>4, <3>1, <4>1
        <3>. QED
            BY <1>1, <2>2, <2>5, <3>1
    <2>. QED
        BY <2>1, <2>2, <2>3, <2>4, <2>6
<1>3. Apart(new)
    <2> SUFFICES ASSUME NEW y \in RequestIds, NEW z \in RequestIds, y # z,
                        new[y].type = new[z].type, IsActive(new[y]), IsActive(new[z]),
                        Overlap(new[y], new[z].period)
                 PROVE  Excused(new[y], z) \/ Excused(new[z], y)
        BY DEF Apart
    <2>1. \A x \in RequestIds : IsActive(new[x]) =>
            /\ IsActive(rs[x]) /\ new[x].type = rs[x].type /\ new[x].period = rs[x].period
            /\ new[x].supersedes = rs[x].supersedes
        BY <1>1 DEF IsActive
    <2>2. Excused(rs[y], z) \/ Excused(rs[z], y)
        BY <2>1 DEF Lawful, Apart, Overlap
    <2>3. ASSUME NEW a \in RequestIds, NEW b \in RequestIds, a # b, Excused(rs[a], b),
                 IsActive(new[a]), IsActive(new[b])
          PROVE  Excused(new[a], b)
        <3>1. CASE a # r
            BY <1>1, <2>3, <3>1 DEF Excused, IsActive
        <3>2. CASE a = r
            BY <1>1, <2>3, <3>2 DEF Excused, IsActive
        <3>. QED
            BY <3>1, <3>2
    <2>. QED
        BY <2>2, <2>3
<1>4. \A x \in RequestIds : GateOpen(new[x])
    BY <1>1 DEF Lawful, GateOpen
<1>. QED
    BY <1>2, <1>3, <1>4 DEF Lawful, new

\* So does a submission.
LEMMA FiledLawful ==
    ASSUME NEW rs \in [RequestIds -> Rows], Lawful(rs), NEW r \in RequestIds, NEW q \in Rows,
           rs[r].status = "Absent", q.supersedes # r, GateOpen(q),
           q.supersedes # NoRequest =>
              rs[q.supersedes].status = "Approved" /\ ~Awaited(rs, q.supersedes),
           \A x \in RequestIds \ {q.supersedes} :
              IsActive(rs[x]) /\ rs[x].type = q.type => ~Overlap(rs[x], q.period),
           q.status \in {"Pending", "Approved"}
    PROVE  Lawful(Written(rs, r, q))
<1> DEFINE new == Written(rs, r, q)
<1>1. /\ new[r] = q
      /\ \A x \in RequestIds \ {r} :
            \/ new[x] = rs[x]
            \/ q.status = "Approved" /\ x = q.supersedes /\ new[x].status = "Superseded"
      /\ \A x \in RequestIds \ {r} :
            q.status = "Approved" /\ x = q.supersedes => new[x].status = "Superseded"
    BY WrittenIs
<1>2. NoRequest \notin RequestIds /\ (q.supersedes # NoRequest => q.supersedes \in RequestIds)
    BY NameAssumption DEF Rows
<1> HIDE DEF new
<1>3. Paired(new)
    <2> SUFFICES ASSUME NEW y \in RequestIds, new[y].status = "Pending",
                        new[y].supersedes # NoRequest
                 PROVE  /\ new[new[y].supersedes].status = "Approved"
                        /\ \A x \in RequestIds \ {y} :
                             new[x].status = "Pending" => new[x].supersedes # new[y].supersedes
        BY DEF Paired
    <2>1. CASE y = r
        <3> DEFINE o == q.supersedes
        <3>1. new[y].supersedes = o /\ o \in RequestIds /\ o # r /\ q.status = "Pending"
            BY <1>1, <1>2, <2>1
        <3>2. new[o] = rs[o] /\ rs[o].status = "Approved"
            BY <1>1, <1>2, <3>1
        <3>3. \A x \in RequestIds \ {y} : new[x].status = "Pending" => new[x].supersedes # o
            BY <1>1, <1>2, <2>1, <3>1 DEF Awaited
        <3>. QED
            BY <3>1, <3>2, <3>3
    <2>2. CASE y # r
        <3> DEFINE o == rs[y].supersedes
        <3>1. new[y] = rs[y] /\ o # NoRequest /\ rs[y].status = "Pending"
            BY <1>1, <2>2
        <3>2. o \in RequestIds /\ rs[o].status = "Approved" /\ o # r
            BY <3>1 DEF Lawful, Paired, Rows
        <3>3. o # q.supersedes
            BY <1>2, <3>1, <3>2 DEF Awaited
        <3>4. new[o] = rs[o]
            BY <1>1, <3>2, <3>3
        <3>5. \A x \in RequestIds \ {y} : new[x].status = "Pending" => new[x].supersedes # o
            BY <1>1, <3>1, <3>3 DEF Lawful, Paired
        <3>. QED
            BY <3>1, <3>2, <3>4, <3>5
    <2>. QED
        BY <2>1, <2>2
<1>4. Apart(new)
    <2> SUFFICES ASSUME NEW y \in RequestIds, NEW z \in RequestIds, y # z,
                        new[y].type = new[z].type, IsActive(new[y]), IsActive(new[z]),
                        Overlap(new[y], new[z].period)
                 PROVE  Excused(new[y], z) \/ Excused(new[z], y)
        BY DEF Apart
    <2>1. \A x \in RequestIds \ {r} : IsActive(new[x]) => new[x] = rs[x]
        BY <1>1 DEF IsActive
    <2>2. \A p, x : Overlap(p, x.period) <=> Overlap(x, p.period)
        BY DEF Overlap
    <2>3. ASSUME NEW x \in RequestIds \ {r}, IsActive(new[x]), new[x].type = q.type,
                 Overlap(new[x], q.period)
          PROVE  Excused(q, x)
        <3>1. x = q.supersedes
            BY <2>1, <2>3
        <3>. QED
            BY <1>1, <2>3, <3>1 DEF Excused, IsActive
    <2>4. CASE y = r
        BY <1>1, <2>2, <2>3, <2>4
    <2>5. CASE z = r
        BY <1>1, <2>2, <2>3, <2>5
    <2>6. CASE y # r /\ z # r
        BY <2>1, <2>6 DEF Lawful, Apart
    <2>. QED
        BY <2>4, <2>5, <2>6
<1>5. \A x \in RequestIds : GateOpen(new[x])
    BY <1>1 DEF Lawful, GateOpen
<1>. QED
    BY <1>3, <1>4, <1>5 DEF Lawful, new

\* The row that transaction t leaves when it commits.
LeftBy(t) ==
    IF Filing(t)
    THEN [Filed(t) EXCEPT !.status = IF t.to = {} THEN "Approved" ELSE "Pending"]
    ELSE LET q == rows[t.request]
             voted == IF t.kind \in Votes
                      THEN [q EXCEPT !.votes[t.approver] = VoteOf(t.kind)] ELSE q
         IN  [voted EXCEPT !.status =
                IF Promotes(t) THEN "Approved"
                ELSE IF t.kind \in {"rejection", "veto"} THEN "Rejected"
                ELSE IF t.kind = "cancellation" THEN "Cancelled"
                ELSE @]

LEMMA SubmissionWrites ==
    ASSUME IInv, NEW s \in Sessions, CommitSubmission(s)
    PROVE  LET t == tx[s]
               q == LeftBy(t)
           IN  /\ Filing(t) /\ Shape(t) /\ t.at = "commit"
               /\ q \in Rows /\ rows' = Written(rows, t.request, q)
               /\ rows[t.request].status = "Absent"
               /\ q.status \in {"Pending", "Approved"}
               /\ q.supersedes = t.original /\ q.type = t.type /\ q.period = t.period
               /\ GateOpen(q)
<1> DEFINE t == tx[s]
           r == t.request
           o == t.original
           q == LeftBy(t)
           status == IF t.to = {} THEN "Approved" ELSE "Pending"
           filed == [rows EXCEPT ![r] = Filed(t)]
<1>1. t.at = "commit" /\ Filing(t)
    BY DEF CommitSubmission, Filing
<1>2. /\ t \in Transactions /\ r \in RequestIds /\ Shape(t) /\ FilingKnows(rows, t)
      /\ rows \in [RequestIds -> Rows] /\ o # r
      /\ o # NoRequest => o \in RequestIds
    BY <1>1, PointTells, IdleIsClosed DEF Shape, Knows, Filing, Deciding, IInv, TypeOK
<1>3. Filed(t) \in Rows
    BY <1>2, FiledType
<1>4. rows' = IF t.to = {} THEN Swapped(filed, r, o) ELSE filed
    BY DEF CommitSubmission, Filed
<1>5. q = [Filed(t) EXCEPT !.status = status]
    BY <1>1 DEF LeftBy
<1>6. /\ q \in Rows /\ q.status = status /\ q.supersedes = o /\ q.type = t.type
      /\ q.period = t.period /\ q.votes = Filed(t).votes
    BY <1>3, <1>5 DEF Rows, Statuses, Filed
<1>7. rows[r].status = "Absent" /\ (o # NoRequest => rows[o].status = "Approved")
    BY <1>1, <1>2 DEF FilingKnows
<1>8. rows' = Written(rows, r, q)
    <2>1. filed \in [RequestIds -> Rows] /\ filed[r] = Filed(t)
          /\ \A x \in RequestIds \ {r} : filed[x] = rows[x]
        BY <1>2, <1>3
    <2> HIDE DEF q, filed, t, r, o, status
    <2>2. CASE t.to = {}
        <3>1. ASSUME NEW x \in RequestIds
              PROVE  Swapped(filed, r, o)[x] = Written(rows, r, q)[x]
            <4>1. CASE x = r
                BY <1>5, <2>1, <2>2, <4>1 DEF Swapped, Written, status
            <4>2. CASE x # r /\ x = o
                <5>1. filed[o] = rows[o] /\ rows[o].status = "Approved" /\ q.status = "Approved"
                    BY <1>2, <1>6, <1>7, <2>1, <2>2, <4>2, NameAssumption DEF status
                <5>. QED
                    BY <1>6, <4>2, <5>1 DEF Swapped, Written
            <4>3. CASE x # r /\ x # o
                BY <1>6, <2>1, <4>3 DEF Swapped, Written
            <4>. QED
                BY <4>1, <4>2, <4>3
        <3>. QED
            BY <1>4, <2>2, <3>1 DEF Swapped, Written
    <2>3. CASE t.to # {}
        <3>1. q = Filed(t) /\ q.status # "Approved"
            BY <1>3, <1>5, <1>6, <2>3 DEF Filed, status
        <3>. QED
            BY <1>4, <2>1, <2>3, <3>1 DEF Written
    <2>. QED
        BY <2>2, <2>3
<1>9. GateOpen(q)
    <2>1. t.to \subseteq Approvers
        BY <1>2 DEF Transactions
    <2>. QED
        BY <1>6, <2>1 DEF GateOpen, Filed
<1>. QED
    BY <1>1, <1>2, <1>6, <1>7, <1>8, <1>9

LEMMA DecisionWrites ==
    ASSUME IInv, NEW s \in Sessions, CommitDecision(s)
    PROVE  LET t == tx[s]
               q == LeftBy(t)
               p == rows[t.request]
           IN  /\ Deciding(t) /\ ~Filing(t) /\ Shape(t) /\ t.at = "commit"
               /\ q \in Rows /\ rows' = Written(rows, t.request, q)
               /\ p.status = "Pending" \/ (p.status = "Approved" /\ q.status = "Cancelled")
               /\ p.status = "Approved" => ~Awaited(rows, t.request)
               /\ q.status = "Approved" <=> Promotes(t)
               /\ q.status \in {"Pending", "Approved", "Rejected", "Cancelled"}
               /\ q.supersedes = p.supersedes /\ q.type = p.type /\ q.period = p.period
               /\ p.supersedes = t.original
               /\ GateOpen(q)
               /\ \A a \in Approvers : p.votes[a] \in {"approved", "rejected"}
                    => q.votes[a] \in {p.votes[a], "none"}
<1> DEFINE t == tx[s]
           r == t.request
           o == t.original
           p == rows[r]
           q == LeftBy(t)
           vp == IF t.kind \in Votes THEN [p EXCEPT !.votes[t.approver] = VoteOf(t.kind)] ELSE p
           status == IF Promotes(t) THEN "Approved"
                     ELSE IF t.kind \in {"rejection", "veto"} THEN "Rejected"
                     ELSE IF t.kind = "cancellation" THEN "Cancelled"
                     ELSE p.status
           voted == IF t.kind \in Votes
                    THEN [rows EXCEPT ![r].votes[t.approver] = VoteOf(t.kind)] ELSE rows
<1>1. t.at = "commit" /\ t.kind # "submission"
    BY DEF CommitDecision
<1>2. /\ t \in Transactions /\ r \in RequestIds /\ Shape(t) /\ Deciding(t) /\ ~Filing(t)
      /\ DecidingKnows(rows, t)
      /\ rows \in [RequestIds -> Rows] /\ p \in Rows
      /\ t.kind \in Votes => t.approver \in Approvers
    BY <1>1, PointTells, IdleIsClosed DEF Shape, Knows, Filing, Deciding, IInv, TypeOK
<1>3. /\ p.supersedes = o
      /\ p.status = "Pending" \/ (t.kind = "cancellation" /\ p.status = "Approved")
      /\ p.status = "Approved" => ~Awaited(rows, r)
      /\ t.kind \in Votes => Counted(p, t)
    BY <1>1, <1>2 DEF DecidingKnows
<1>4. rows' = IF Promotes(t) THEN Swapped(voted, r, o)
              ELSE IF t.kind \in {"rejection", "veto"}
              THEN [voted EXCEPT ![r].status = "Rejected"]
              ELSE IF t.kind = "cancellation"
              THEN [voted EXCEPT ![r].status = "Cancelled"]
              ELSE voted
    BY DEF CommitDecision
<1>5. VoteOf(t.kind) = CASE t.kind = "approval" -> "approved"
                         [] t.kind = "rejection" -> "rejected"
                         [] t.kind = "removal" -> "none"
    BY DEF VoteOf
<1>6. t.kind \in Votes => VoteOf(t.kind) \in {"none", "approved", "rejected"}
    BY DEF Votes, VoteOf
<1>7. /\ vp \in Rows /\ vp.status = p.status /\ vp.supersedes = p.supersedes
      /\ vp.type = p.type /\ vp.period = p.period
      /\ \A a \in Approvers : vp.votes[a] =
            IF t.kind \in Votes /\ a = t.approver THEN VoteOf(t.kind) ELSE p.votes[a]
    BY <1>2, <1>6 DEF Rows
<1>8. voted \in [RequestIds -> Rows] /\ voted[r] = vp
      /\ \A x \in RequestIds \ {r} : voted[x] = rows[x]
    BY <1>2, <1>7
<1>9. q = [vp EXCEPT !.status = status]
    BY <1>2, <1>7 DEF LeftBy
<1>10. p.status \in Statuses
    BY <1>2 DEF Rows
<1> HIDE DEF t, r, o, p, q, vp, status, voted
<1>11. status \in Statuses
    BY <1>10 DEF status, Statuses
<1>12. /\ q \in Rows /\ q.status = status /\ q.supersedes = p.supersedes
       /\ q.type = p.type /\ q.period = p.period /\ q.votes = vp.votes
    BY <1>7, <1>9, <1>11 DEF Rows
<1>13. Promotes(t) => p.status = "Pending"
    BY <1>3 DEF Promotes
<1>14. /\ q.status = "Approved" <=> Promotes(t)
       /\ q.status \in {"Pending", "Approved", "Rejected", "Cancelled"}
       /\ p.status = "Approved" => q.status = "Cancelled"
    BY <1>3, <1>12, <1>13 DEF status, Promotes
<1>15. rows' = Written(rows, r, q)
    <2>1. CASE Promotes(t)
        <3>1. o # NoRequest => o \in RequestIds /\ rows[o].status = "Approved" /\ o # r
            <4>1. p.status = "Pending" /\ p.supersedes = o /\ rows[r] = p
                BY <1>3, <1>13, <2>1 DEF p
            <4>2. Paired(rows)
                BY DEF IInv, Lawful
            <4>3. o # NoRequest => o \in RequestIds
                BY <1>2 DEF Transactions, o
            <4>4. o # NoRequest => rows[o].status = "Approved"
                BY <1>2, <4>1, <4>2 DEF Paired
            <4>. QED
                BY <4>1, <4>3, <4>4
        <3>2. q = [vp EXCEPT !.status = "Approved"] /\ q.status = "Approved" /\ q.supersedes = o
            BY <1>3, <1>9, <1>12, <1>14, <2>1 DEF status
        <3>3. ASSUME NEW x \in RequestIds
              PROVE  Swapped(voted, r, o)[x] = Written(rows, r, q)[x]
            <4>1. CASE x = r
                BY <1>8, <3>2, <4>1 DEF Swapped, Written
            <4>2. CASE x # r /\ x = o
                <5>1. voted[o] = rows[o] /\ rows[o].status = "Approved"
                    BY <1>8, <3>1, <4>2, NameAssumption
                <5>. QED
                    BY <3>2, <4>2, <5>1 DEF Swapped, Written
            <4>3. CASE x # r /\ x # o
                BY <1>8, <3>2, <4>3 DEF Swapped, Written
            <4>. QED
                BY <4>1, <4>2, <4>3
        <3>. QED
            BY <1>4, <2>1, <3>3 DEF Swapped, Written
    <2>2. CASE ~Promotes(t)
        <3>1. \A x \in RequestIds : Written(rows, r, q)[x] = IF x = r THEN q ELSE rows[x]
            BY <1>14, <2>2 DEF Written
        <3>2. rows' \in [RequestIds -> Rows] /\ \A x \in RequestIds \ {r} : rows'[x] = rows[x]
            <4>1. rows' \in [RequestIds -> Rows]
                BY RowsType DEF IInv
            <4>. QED
                BY <1>4, <1>8, <2>2, <4>1
        <3>3. rows'[r] = q
            BY <1>2, <1>4, <1>7, <1>8, <1>9, <2>2 DEF status, Rows
        <3>. QED
            BY <3>1, <3>2, <3>3 DEF Written
    <2>. QED
        BY <2>1, <2>2
<1>16. GateOpen(q)
    <2> SUFFICES ASSUME q.status = "Pending"
                 PROVE  /\ \E a \in Approvers : q.votes[a] = "pending"
                        /\ \A a \in Approvers : q.votes[a] # "rejected"
        BY <1>14 DEF GateOpen
    <2>1. p.status = "Pending" /\ t.kind \in {"approval", "removal"} /\ t.missing # {}
        BY <1>2, <1>3, <1>12 DEF status, Promotes, Deciding, Kinds
    <2>2. \A a \in Approvers : p.votes[a] \in {"none", "pending", "approved"}
        BY <1>2, <2>1 DEF IInv, Lawful, GateOpen, Rows, p
    <2>3. PICK a \in Approvers : a # t.approver /\ p.votes[a] \notin {"none", "approved"}
        BY <1>3, <2>1 DEF Counted, ToApprovers, Votes
    <2>4. q.votes[a] = "pending"
        BY <1>7, <1>12, <2>2, <2>3
    <2>5. \A b \in Approvers : q.votes[b] # "rejected"
        BY <1>5, <1>7, <1>12, <2>1, <2>2
    <2>. QED
        BY <2>4, <2>5
<1>17. ASSUME NEW a \in Approvers, p.votes[a] \in {"approved", "rejected"}
       PROVE  q.votes[a] \in {p.votes[a], "none"}
    <2>1. CASE t.kind \in Votes /\ a = t.approver
        BY <1>3, <1>5, <1>7, <1>12, <1>17, <2>1 DEF Counted, Votes
    <2>2. CASE ~(t.kind \in Votes /\ a = t.approver)
        BY <1>7, <1>12, <2>2
    <2>. QED
        BY <2>1, <2>2
<1>. QED
    BY <1>1, <1>2, <1>3, <1>12, <1>14, <1>15, <1>16, <1>17 DEF t, r, o, p, q

\* A commit that lets go of what it has changed.
LEMMA CommitKeeps ==
    ASSUME IInv, NEW s \in Sessions, End(s), TypeOK',
           NEW r \in RequestIds, NEW q \in Rows, rows' = Written(rows, r, q), Lawful(rows'),
           r = tx[s].request, q.status # "Absent",
           q.status = "Approved" /\ q.supersedes # NoRequest => q.supersedes \in Holds(tx[s]),
           \/ /\ Filing(tx[s]) /\ rows[r].status = "Absent"
              /\ q.type \in Holds(tx[s])
              /\ q.supersedes # NoRequest => q.supersedes \in Holds(tx[s])
           \/ /\ rows[r].status # "Absent" /\ r \in Holds(tx[s])
              /\ q.supersedes = rows[r].supersedes /\ q.type = rows[r].type
              /\ q.period = rows[r].period
              /\ IsActive(q) => rows[r].status = "Pending"
    PROVE  IInv'
<1> DEFINE rs2 == rows'
<1>1. /\ rs2 \in [RequestIds -> Rows] /\ rows \in [RequestIds -> Rows] /\ rs2[r] = q
      /\ \A x \in RequestIds \ {r} :
            \/ rs2[x] = rows[x]
            \/ /\ q.status = "Approved" /\ x = q.supersedes
               /\ rs2[x].status = "Superseded" /\ rs2[x].supersedes = rows[x].supersedes
    <2>1. rows \in [RequestIds -> Rows]
        BY DEF IInv, TypeOK
    <2> DEFINE new == Written(rows, r, q)
    <2>2. /\ new \in [RequestIds -> Rows] /\ new[r] = q
          /\ \A x \in RequestIds \ {r} :
                \/ new[x] = rows[x]
                \/ /\ q.status = "Approved" /\ x = q.supersedes
                   /\ new[x].status = "Superseded" /\ new[x].supersedes = rows[x].supersedes
        BY <2>1, WrittenIs
    <2>3. rs2 = new
        OBVIOUS
    <2> HIDE DEF new, rs2
    <2>. QED
        BY <2>1, <2>2, <2>3
<1>2. NoRequest \notin RequestIds
    BY NameAssumption
<1> HIDE DEF rs2
<1>3. ASSUME NEW u \in Sessions \ {s}
      PROVE  Knows(rs2, tx[u])
    <2> DEFINE t == tx[u]
    <2>1. t \in Transactions /\ Shape(t) /\ Knows(rows, t)
        BY DEF IInv, TypeOK
    <2>2. \A l \in Locks : ~(l \in Holds(t) /\ l \in Holds(tx[s]))
        BY DEF IInv, Locked
    <2>3. Filing(t) => t.request \in RequestIds /\ rows[t.request].status = "Absent"
        BY <2>1, IdleIsClosed DEF Shape, Knows, FilingKnows, Filing, Deciding
    <2>4. \A x \in RequestIds : x \in Holds(t) \/ x \in Holds(tx[s]) => rows[x].status # "Absent"
        BY HeldIsOnFile
    <2>5. \A x \in RequestIds : x \in Locks
        BY DEF Locks
    <2>6. Filing(t) => t.request # r
        BY <2>3 DEF IInv, Distinct
    <2> HIDE DEF t
    <2>7. ASSUME NEW x \in RequestIds, x \in Holds(t)
          PROVE  rs2[x] = rows[x]
        <3>1. x # r
            BY <2>2, <2>4, <2>5, <2>7
        <3>. QED
            BY <1>1, <1>2, <2>2, <2>5, <2>7, <3>1
    <2>8. Filing(t) => rs2[t.request] = rows[t.request]
        BY <1>1, <1>2, <2>3, <2>4, <2>6
    <2>9. \A x \in RequestIds : rows[x].status # "Absent" =>
              rs2[x].status # "Absent" /\ rs2[x].supersedes = rows[x].supersedes
        BY <1>1
    <2>10. ASSUME NEW x \in RequestIds, rs2[x].status = "Pending"
           PROVE  \/ rs2[x] = rows[x] \/ rows[x].status = "Pending"
                  \/ rs2[x].supersedes = NoRequest \/ rs2[x].supersedes \notin Holds(t)
        <3>1. CASE x = r
            <4>1. q.supersedes # NoRequest => q.supersedes \in Locks
                BY DEF Rows, Locks
            <4>. QED
                BY <1>1, <2>2, <2>10, <3>1, <4>1 DEF IsActive
        <3>. QED
            BY <1>1, <2>10, <3>1
    <2>11. ASSUME NEW x \in RequestIds, IsActive(rs2[x])
           PROVE  \/ /\ IsActive(rows[x])
                     /\ rs2[x].type = rows[x].type /\ rs2[x].period = rows[x].period
                  \/ rs2[x].type \notin Holds(t)
        <3>1. CASE x = r
            <4>1. q.type \in Locks
                BY DEF Rows, Locks
            <4>. QED
                BY <1>1, <2>2, <2>11, <3>1, <4>1 DEF IsActive
        <3>2. CASE x # r
            BY <1>1, <2>11, <3>2 DEF IsActive
        <3>. QED
            BY <3>1, <3>2
    <2>. QED
        BY <1>1, <2>1, <2>7, <2>8, <2>9, <2>10, <2>11, StillKnows DEF t
<1>4. \A u \in Sessions : Knows(rows', tx'[u])
    BY <1>3, EndKeeps, IdleKnows DEF rs2
<1>. QED
    BY <1>4, EndKeeps DEF IInv

LEMMA CommitSubmissionKeeps ==
    ASSUME IInv, NEW s \in Sessions, CommitSubmission(s)
    PROVE  IInv'
<1> DEFINE t == tx[s]
           r == t.request
           q == LeftBy(t)
<1>1. End(s) /\ today' = today
    BY DEF CommitSubmission
<1>2. /\ Filing(t) /\ Shape(t) /\ t.at = "commit"
      /\ q \in Rows /\ rows' = Written(rows, r, q)
      /\ rows[r].status = "Absent"
      /\ q.status \in {"Pending", "Approved"}
      /\ q.supersedes = t.original /\ q.type = t.type /\ q.period = t.period
      /\ GateOpen(q)
    BY SubmissionWrites
<1>3. /\ r \in RequestIds /\ t.original # r /\ FilingKnows(rows, t)
      /\ rows \in [RequestIds -> Rows] /\ Lawful(rows)
    BY <1>2, PointTells, IdleIsClosed DEF Shape, Knows, Filing, Deciding, IInv, TypeOK
<1>4. TypeOK'
    BY <1>1, EndType, RowsType DEF IInv, TypeOK
<1> HIDE DEF q
<1>5. Lawful(rows')
    <2>1. /\ q.supersedes # NoRequest =>
               rows[q.supersedes].status = "Approved" /\ ~Awaited(rows, q.supersedes)
          /\ \A x \in RequestIds \ {q.supersedes} :
               IsActive(rows[x]) /\ rows[x].type = q.type => ~Overlap(rows[x], q.period)
        BY <1>2, <1>3 DEF FilingKnows
    <2>. QED
        BY <1>2, <1>3, <2>1, FiledLawful
<1>6. t.type \in Holds(t) /\ (t.original # NoRequest => t.original \in Holds(t))
    BY <1>2 DEF Holds
<1>. QED
    BY <1>1, <1>2, <1>3, <1>4, <1>5, <1>6, CommitKeeps

LEMMA CommitDecisionKeeps ==
    ASSUME IInv, NEW s \in Sessions, CommitDecision(s)
    PROVE  IInv'
<1> DEFINE t == tx[s]
           r == t.request
           p == rows[r]
           q == LeftBy(t)
<1>1. End(s) /\ today' = today
    BY DEF CommitDecision
<1>2. /\ Deciding(t) /\ ~Filing(t) /\ Shape(t) /\ t.at = "commit"
      /\ q \in Rows /\ rows' = Written(rows, r, q)
      /\ p.status = "Pending" \/ (p.status = "Approved" /\ q.status = "Cancelled")
      /\ p.status = "Approved" => ~Awaited(rows, r)
      /\ q.status = "Approved" <=> Promotes(t)
      /\ q.status \in {"Pending", "Approved", "Rejected", "Cancelled"}
      /\ q.supersedes = p.supersedes /\ q.type = p.type /\ q.period = p.period
      /\ p.supersedes = t.original
      /\ GateOpen(q)
    BY DecisionWrites
<1>3. r \in RequestIds /\ rows \in [RequestIds -> Rows] /\ Lawful(rows)
    BY <1>2, PointTells DEF IInv, TypeOK
<1>4. TypeOK'
    BY <1>1, EndType, RowsType DEF IInv, TypeOK
<1>5. IsActive(q) => p.status = "Pending"
    BY <1>2 DEF IsActive
<1> HIDE DEF q
<1>6. Lawful(rows')
    BY <1>2, <1>3, <1>5, DecidedLawful
<1>7. /\ r \in Holds(t)
      /\ q.status = "Approved" /\ q.supersedes # NoRequest => q.supersedes \in Holds(t)
    BY <1>2 DEF Holds
<1>. QED
    BY <1>1, <1>2, <1>3, <1>4, <1>5, <1>6, <1>7, CommitKeeps

LEMMA StepKeeps == IInv /\ [Next]_vars => IInv'
<1> SUFFICES ASSUME IInv, [Next]_vars PROVE IInv'
    OBVIOUS
<1>1. ASSUME NEW s \in Sessions, Begin(s) PROVE IInv'
    BY <1>1, BeginKeeps
<1>2. ASSUME NEW s \in Sessions, Step(s) PROVE IInv'
    BY <1>2, LockOriginalKeeps, CheckReplacementKeeps, LockTypeKeeps, CheckOverlapKeeps,
       LockSwappedKeeps, CommitSubmissionKeeps, LockRequestKeeps, ReadApproversKeeps,
       CommitDecisionKeeps DEF Step
<1>3. ASSUME NEW s \in Sessions, Rollback(s) PROVE IInv'
    BY <1>3, RollbackKeeps
<1>4. CASE Midnight
    <2>1. today' = today + 1 /\ today < LastDay /\ UNCHANGED <<rows, tx, holder>>
        BY <1>4 DEF Midnight
    <2>2. TypeOK'
        BY <2>1, NameAssumption DEF IInv, TypeOK, Open
    <2>. QED
        BY <2>1, <2>2 DEF IInv
<1>5. CASE UNCHANGED vars
    BY <1>5 DEF vars, IInv, TypeOK, Open
<1>. QED
    BY <1>1, <1>2, <1>3, <1>4, <1>5 DEF Next

--------------------------------------------------------------------------------
(* What a step may do to a row, and who can wait for whom                  *)

\* What SettledOnce says of one step.
Settles ==
    \A r \in RequestIds :
        /\ rows[r].status \in {"Rejected", "Cancelled", "Superseded"} => rows'[r] = rows[r]
        /\ \A a \in Approvers :
            rows[r].votes[a] \in {"approved", "rejected"}
            => rows'[r].votes[a] \in {rows[r].votes[a], "none"}

LEMMA WrittenSettles ==
    ASSUME IInv, NEW r \in RequestIds, NEW q \in Rows, rows' = Written(rows, r, q),
           rows[r].status \in {"Absent", "Pending", "Approved"},
           q.status = "Approved" /\ q.supersedes \in RequestIds
              => rows[q.supersedes].status = "Approved",
           \A a \in Approvers : rows[r].votes[a] \in {"approved", "rejected"}
              => q.votes[a] \in {rows[r].votes[a], "none"}
    PROVE  Settles
<1> DEFINE new == Written(rows, r, q)
<1>1. rows \in [RequestIds -> Rows]
    BY DEF IInv, TypeOK
<1>2. /\ new[r] = q
      /\ \A x \in RequestIds \ {r} :
            \/ new[x] = rows[x]
            \/ /\ q.status = "Approved" /\ x = q.supersedes
               /\ new[x].votes = rows[x].votes
    <2>1. /\ Written(rows, r, q)[r] = q
          /\ \A x \in RequestIds \ {r} :
                \/ Written(rows, r, q)[x] = rows[x]
                \/ /\ q.status = "Approved" /\ x = q.supersedes
                   /\ Written(rows, r, q)[x].status = "Superseded"
                   /\ Written(rows, r, q)[x].supersedes = rows[x].supersedes
                   /\ Written(rows, r, q)[x].votes = rows[x].votes
        BY <1>1, WrittenIs
    <2>. QED
        BY <2>1
<1>3. rows' = new
    OBVIOUS
<1> HIDE DEF new
<1>4. ASSUME NEW x \in RequestIds, rows[x].status \in {"Rejected", "Cancelled", "Superseded"}
      PROVE  new[x] = rows[x]
    BY <1>2, <1>4
<1>5. ASSUME NEW x \in RequestIds, NEW a \in Approvers,
             rows[x].votes[a] \in {"approved", "rejected"}
      PROVE  new[x].votes[a] \in {rows[x].votes[a], "none"}
    BY <1>2, <1>5
<1>. QED
    BY <1>3, <1>4, <1>5 DEF Settles

LEMMA StepSettles == IInv /\ [Next]_vars => [Settles]_vars
<1> SUFFICES ASSUME IInv, [Next]_vars PROVE Settles
    OBVIOUS
<1>1. CASE rows' = rows
    BY <1>1 DEF Settles
<1>2. ASSUME NEW s \in Sessions, CommitSubmission(s)
      PROVE  Settles
    <2> DEFINE t == tx[s]
               r == t.request
               q == LeftBy(t)
    <2>1. /\ Filing(t) /\ t.at = "commit" /\ q \in Rows /\ rows' = Written(rows, r, q)
          /\ rows[r].status = "Absent" /\ q.supersedes = t.original
        BY <1>2, SubmissionWrites
    <2>2. r \in RequestIds /\ FilingKnows(rows, t)
        BY <2>1, PointTells DEF Knows
    <2> HIDE DEF q
    <2>3. q.supersedes \in RequestIds => rows[q.supersedes].status = "Approved"
        BY <2>1, <2>2, NameAssumption DEF FilingKnows
    <2>4. \A a \in Approvers : rows[r].votes[a] = "none"
        BY <2>1, <2>2 DEF IInv, Lawful, GateOpen
    <2>. QED
        BY <2>1, <2>2, <2>3, <2>4, WrittenSettles
<1>3. ASSUME NEW s \in Sessions, CommitDecision(s)
      PROVE  Settles
    <2> DEFINE t == tx[s]
               r == t.request
               p == rows[r]
               q == LeftBy(t)
    <2>1. /\ t.at = "commit" /\ q \in Rows /\ rows' = Written(rows, r, q)
          /\ p.status = "Pending" \/ (p.status = "Approved" /\ q.status = "Cancelled")
          /\ q.supersedes = p.supersedes
          /\ \A a \in Approvers : p.votes[a] \in {"approved", "rejected"}
               => q.votes[a] \in {p.votes[a], "none"}
        BY <1>3, DecisionWrites
    <2>2. r \in RequestIds /\ Paired(rows)
        BY <2>1, PointTells DEF IInv, Lawful
    <2> HIDE DEF q
    <2>3. q.status = "Approved" /\ q.supersedes \in RequestIds
            => rows[q.supersedes].status = "Approved"
        BY <2>1, <2>2, NameAssumption DEF Paired
    <2>. QED
        BY <2>1, <2>2, <2>3, WrittenSettles
<1>4. ASSUME NEW s \in Sessions, Step(s), ~CommitSubmission(s), ~CommitDecision(s)
      PROVE  rows' = rows
    BY <1>4 DEF Step, LockOriginal, CheckReplacement, LockType, CheckOverlap, LockSwapped,
                LockRequest, ReadApprovers, Lock, Check, Rollback
<1>5. ASSUME NEW s \in Sessions, Begin(s) \/ Rollback(s)
      PROVE  rows' = rows
    BY <1>5 DEF Begin, BeginSubmission, BeginDecision, Rollback
<1>6. Midnight \/ UNCHANGED vars => rows' = rows
    BY DEF Midnight, vars
<1>. QED
    BY <1>1, <1>2, <1>3, <1>4, <1>5, <1>6 DEF Next

\* A waiting transaction holds what it has locked on the way, and its next lock
\* is with another session.
LEMMA WaitingTells ==
    ASSUME IInv, NEW s \in Waiting
    PROVE  LET t == tx[s]
           IN  \/ t.at \in {"original", "request"} /\ Holds(t) = {}
               \/ /\ t.at = "type" /\ NextLock(s) = {t.type} /\ t.type \in LeaveTypes
                  /\ Holds(t) \subseteq RequestIds
               \/ /\ t.at = "swap" /\ NextLock(s) = {t.original}
                  /\ Holds(t) = {t.request} /\ t.request \in RequestIds
                  /\ t.original \in RequestIds
                  /\ rows[t.request].status = "Pending"
                  /\ rows[t.original].status = "Approved"
<1> DEFINE t == tx[s]
<1>1. s \in Sessions /\ \E l \in NextLock(s) : ~Free(l, s)
    BY DEF Waiting
<1>2. t.at \in {"original", "swap", "type", "request"}
    BY <1>1 DEF NextLock
<1>3. /\ t \in Transactions /\ t.request \in RequestIds /\ Shape(t) /\ Knows(rows, t)
      /\ Filing(t) \/ Deciding(t)
      /\ ~(Filing(t) /\ Deciding(t))
      /\ t.original # NoRequest => t.original \in RequestIds
    BY <1>1, <1>2, PointTells
<1>4. t # Idle
    BY <1>2, IdleIsClosed
<1>5. CASE t.at \in {"original", "request"}
    BY <1>3, <1>4, <1>5 DEF Holds, Shape
<1>6. CASE t.at = "type"
    <2>1. NextLock(s) = {t.type} /\ t.type \in LeaveTypes
        BY <1>3, <1>6 DEF NextLock, Transactions
    <2>2. Holds(t) \subseteq RequestIds
        BY <1>3, <1>4, <1>6 DEF Holds, Shape
    <2>. QED
        BY <1>6, <2>1, <2>2
<1>7. CASE t.at = "swap"
    <2>1. NextLock(s) = {t.original} /\ t.original # NoRequest
        BY <1>3, <1>4, <1>7 DEF NextLock, Shape, Filing, Deciding
    <2>2. ~Filing(t)
        <3>1. ASSUME Filing(t) PROVE FALSE
            <4>1. t.original \in Holds(t) /\ t.original \in Locks
                BY <1>3, <1>7, <2>1, <3>1 DEF Holds, Locks
            <4>2. holder[t.original] = s
                BY <1>1, <4>1 DEF IInv, Locked
            <4>. QED
                BY <1>1, <2>1, <4>2 DEF Free
        <3>. QED
            BY <3>1
    <2>3. Deciding(t) /\ Promotes(t) /\ DecidingKnows(rows, t)
        BY <1>3, <1>4, <1>7, <2>2 DEF Shape, Knows
    <2>4. rows[t.request].status = "Pending" /\ rows[t.request].supersedes = t.original
        BY <1>7, <2>3 DEF DecidingKnows, Promotes
    <2>5. rows[t.original].status = "Approved"
        BY <1>3, <2>1, <2>4 DEF IInv, Lawful, Paired
    <2>6. Holds(t) = {t.request}
        BY <1>7, <2>2, <2>3 DEF Holds
    <2>. QED
        BY <1>3, <1>7, <2>1, <2>4, <2>5, <2>6
<1>. QED
    BY <1>2, <1>5, <1>6, <1>7

LEMMA InvNoCircle == IInv => NobodyWaitsInACircle
<1> SUFFICES ASSUME IInv, NEW W \in SUBSET Waiting, W # {},
                    \A s \in W : \A l \in NextLock(s) : holder[l] \in W
             PROVE  FALSE
    BY DEF NobodyWaitsInACircle
<1>1. ASSUME NEW s \in W
      PROVE  \E l \in NextLock(s), u \in W : l \in Holds(tx[u])
    <2>1. s \in Sessions
        BY DEF Waiting
    <2>2. PICK l \in NextLock(s) : ~Free(l, s)
        BY DEF Waiting
    <2>3. holder[l] \in W /\ holder[l] \in Sessions
        BY <2>2 DEF Waiting
    <2>4. l \in Locks
        <3>1. tx[s].at \in {"original", "swap", "type", "request"}
            BY <2>2 DEF NextLock
        <3>2. tx[s] \in Transactions /\ tx[s].request \in RequestIds /\ Shape(tx[s])
              /\ (tx[s].original # NoRequest => tx[s].original \in RequestIds)
            BY <2>1, <3>1, PointTells
        <3>3. tx[s].at \in {"original", "swap"} => tx[s].original # NoRequest
            BY <3>2, IdleIsClosed DEF Shape, Filing, Deciding
        <3>4. tx[s].type \in LeaveTypes
            BY <3>2 DEF Transactions
        <3>. QED
            BY <2>2, <3>1, <3>2, <3>3, <3>4 DEF NextLock, Locks
    <2>5. l \in Holds(tx[holder[l]])
        BY <2>3, <2>4 DEF IInv, Locked
    <2>. QED
        BY <2>2, <2>3, <2>5
<1>2. \A s \in W : tx[s].at # "type"
    <2>1. ASSUME NEW s \in W, tx[s].at = "type" PROVE FALSE
        <3>1. PICK l \in NextLock(s), u \in W : l \in Holds(tx[u])
            BY <1>1
        <3>2. l \in LeaveTypes
            BY <2>1, <3>1, WaitingTells
        <3>3. l \in RequestIds
            BY <3>1, WaitingTells
        <3>. QED
            BY <3>2, <3>3, NameAssumption
    <2>. QED
        BY <2>1
<1>3. \A s \in W : \E l \in NextLock(s), u \in W :
        /\ tx[u].at = "swap" /\ l = tx[u].request /\ rows[l].status = "Pending"
    <2>1. ASSUME NEW s \in W
          PROVE  \E l \in NextLock(s), u \in W :
                    tx[u].at = "swap" /\ l = tx[u].request /\ rows[l].status = "Pending"
        <3>1. PICK l \in NextLock(s), u \in W : l \in Holds(tx[u])
            BY <1>1
        <3>2. tx[u].at = "swap" /\ l = tx[u].request /\ rows[l].status = "Pending"
            BY <1>2, <3>1, WaitingTells
        <3>. QED
            BY <3>2
    <2>. QED
        BY <2>1
<1>4. PICK u \in W : tx[u].at = "swap"
    BY <1>3
<1>5. \A l \in NextLock(u) : rows[l].status = "Approved"
    BY <1>4, WaitingTells
<1>. QED
    BY <1>3, <1>5

--------------------------------------------------------------------------------
(* The theorems *)

\* However transactions overlap, fail or lose their connection, the rows keep
\* their shape and no lock outlives the transaction that took it.
THEOREM TypeCorrect == Spec => []TypeOK
<1>1. IInv => TypeOK
    BY InvImplies
<1>. QED
    BY <1>1, InitInv, StepKeeps, PTL DEF Spec

\* lockUserBalanceForUpdate: for any number of sessions, no two active requests
\* of one leave type share a date, but a pending change and its original.
THEOREM WithinTypeBookedOnce == Spec => []BookedOncePerType
<1>1. IInv => BookedOncePerType
    BY InvImplies
<1>. QED
    BY <1>1, InitInv, StepKeeps, PTL DEF Spec

\* lockRequestForUpdate on the original: a pending change always has a leave in
\* force to replace, and no rival, whatever cancels, changes or swaps meanwhile.
THEOREM ReplacementsStayPaired == Spec => []ReplacementHasOriginal
<1>1. IInv => ReplacementHasOriginal
    BY InvImplies
<1>. QED
    BY <1>1, InitInv, StepKeeps, PTL DEF Spec

\* approve and the removal of an approver count the other votes under the lock
\* on the request: no interleaving of them leaves it pending with nobody to ask.
THEOREM GateDoesNotStick == Spec => []GateNeverStuck
<1>1. IInv => GateNeverStuck
    BY InvImplies
<1>. QED
    BY <1>1, InitInv, StepKeeps, PTL DEF Spec

\* Every decision checks the status under the lock: what has settled never
\* changes again, and a vote once cast is never overwritten by another.
THEOREM OneSettlement == Spec => SettledOnce
<1>. QED
    BY InitInv, StepKeeps, StepSettles, PTL DEF Spec, SettledOnce, Settles

\* The order of the locks has no cycle: of any set of waiting transactions, one
\* waits for a lock that none of them holds.
THEOREM NoCircle == Spec => []NobodyWaitsInACircle
<1>. QED
    BY InvNoCircle, InitInv, StepKeeps, PTL DEF Spec
================================================================================
