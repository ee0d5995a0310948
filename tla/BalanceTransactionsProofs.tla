---------------------- MODULE BalanceTransactionsProofs ----------------------
(***************************************************************************)
(* What unlocked writes cannot break, for any number of sessions, requests *)
(* and days.                                                               *)
(*                                                                         *)
(* Transactions overwrite one another's rows with what they have computed  *)
(* from older ones, so nothing is left to say of the figures but that each *)
(* row is of one writing.  The rest is time: the copy of a request that a  *)
(* transaction writes back is of a leave with a day behind it, whoever     *)
(* settles a leave has found it ahead, and two transactions open together  *)
(* are a midnight apart at most.                                           *)
(***************************************************************************)
EXTENDS BalanceTransactions, OrderLemmas

-----------------------------------------------------------------------------
(* The inductive invariant: rows *)

Statuses == {"Absent", "Pending", "Approved", "Cancelled", "Superseded"}

\* A request of one writing, as of some moment before the given day: the cursor
\* is a prefix of its days, all of them past, and the held remainder the rest.
Whole(r, q, day) ==
  /\ q = [status |-> q.status, consumed |-> q.consumed, held |-> q.held]
  /\ q.status \in Statuses
  /\ q.consumed \subseteq LeaveDays[r]
  /\ \A d \in q.consumed : d < day /\ \A e \in LeaveDays[r] : e < d => e \in q.consumed
  /\ q.held = IF IsActive(q) THEN Cardinality(LeaveDays[r] \ q.consumed) ELSE 0
  /\ q.consumed # {} => q.status = "Approved"

Balances == [onHold : Nat, spent : Nat, updatedAt : Nat \cup {NoDay}]

\* Only approved rows are written before the commit, and only figures of them;
\* a leave that a change replaces has been approved.
Tables ==
  /\ db = [l \in Rows |-> db[l]] /\ draft = [l \in Rows |-> draft[l]]
  /\ db[Balance] \in Balances /\ draft[Balance] \in Balances
  /\ \A r \in Requests :
       /\ Whole(r, db[r], today) /\ Whole(r, draft[r], today)
       /\ draft[r].status = db[r].status
       /\ db[r].status # "Approved" => draft[r] = db[r]
       /\ Original[r] # NoRequest /\ db[r].status # "Absent"
          => db[Original[r]].status \notin {"Absent", "Pending"}

-----------------------------------------------------------------------------
(* The inductive invariant: transactions *)

IsTransaction(t) ==
  /\ t = [kind |-> t.kind, request |-> t.request, asOf |-> t.asOf, at |-> t.at,
          copies |-> t.copies, todo |-> t.todo, hold |-> t.hold, value |-> t.value,
          columns |-> t.columns, posted |-> t.posted]
  /\ t.asOf \in Nat /\ t.hold \in Int

Decides(t) == t.kind \in {"cancellation", "approval"}

Stages(kind) ==
  CASE kind = "none"         -> {"idle"}
    [] kind = "refresh"      -> {"candidates", "read", "reselect", "update", "commit"}
    [] kind = "submission"   -> {"type", "candidates", "read", "reselect", "update", "commit"}
    [] kind = "cancellation" -> {"request", "read", "reselect", "update", "commit"}
    [] kind = "approval"     -> {"request", "original", "candidates", "read", "reselect",
                                 "update", "check", "commit"}

Kinds == {"none", "refresh", "submission", "cancellation", "approval"}

\* Each kind goes through its stages; nothing is to be done before it is read
\* what, nor at the end.
Staged(t) ==
  /\ t.kind \in Kinds /\ t.at \in Stages(t.kind)
  /\ t.kind \in {"none", "refresh"} => t.request = NoRequest
  /\ t.kind \notin {"none", "refresh"} => t.request \in Requests
  /\ t.at \in {"idle", "type", "request", "original", "candidates"} \/ t.kind = "cancellation"
     => t.posted = {} /\ t.todo = {}
  /\ t.at \in {"check", "commit"} => t.todo = {}
  /\ t.kind = "approval" /\ t.at \notin {"request", "commit"} => Original[t.request] # NoRequest

\* What is to be reconciled are approved leaves with a day behind them.
ToDo(t) ==
  /\ t.todo \subseteq Requests
  /\ \A r \in t.todo :
       /\ Whole(r, t.copies[r], today) /\ t.copies[r].status = "Approved"
       /\ DaysElapsed(t, r) # {}
       /\ db[r].status = "Approved"

\* What is about to be written is of one writing, and written as one.
Writes(t) ==
  /\ t.at = "read" => ~Saves(t)
  /\ t.at \in {"reselect", "update"} =>
       IF Saves(t) THEN t.value = Saved(t.copies[Current(t)], DaysElapsed(t, Current(t)))
                   ELSE t.value \in Balances
  /\ t.at = "update" /\ Saves(t) => t.columns = {"consumed", "held"}

\* What a transaction has found out about its own rows, and relies upon.
Knows(s) ==
  LET t == tx[s]
      r == t.request
      o == Original[r]
  IN  /\ t.kind = "submission" => db[r].status = "Absent" /\ o = NoRequest
      /\ Decides(t) => db[r].status # "Absent"
      /\ Decides(t) /\ t.at # "request" =>
           /\ holder[r] = s
           /\ \/ db[r].status = "Pending"
              \/ t.kind = "cancellation" /\ db[r].status = "Approved" /\ t.asOf < FirstDay(r)
      /\ t.kind = "approval" /\ t.at \notin {"request", "original"} /\ o # NoRequest =>
           /\ holder[o] = s
           /\ t.at \in {"read", "reselect", "update", "commit"} /\ t.todo = {}
              /\ db[o].status = "Approved" => t.asOf < FirstDay(o)

\* Why a transaction holds a lock: the row is its own, or it has spent days and
\* written the leave back.
Holds(s) ==
  \A l \in Locks : holder[l] = s =>
    /\ tx[s].at \notin {"idle", "type", "request"}
    /\ l = Balance => tx[s].at \notin {"original", "candidates"}
    /\ l \in Requests =>
         /\ db[l].status # "Absent"
         /\ \/ Decides(tx[s]) /\ l = tx[s].request
            \/ tx[s].kind = "approval" /\ tx[s].at # "original" /\ l = Original[tx[s].request]
            \/ tx[s].posted # {} /\ FirstDay(l) < tx[s].asOf

Sound(s) ==
  /\ IsTransaction(tx[s]) /\ Staged(tx[s]) /\ ToDo(tx[s]) /\ Writes(tx[s])
  /\ Open(s) => tx[s].asOf <= today /\ today <= tx[s].asOf + 1
  /\ Knows(s) /\ Holds(s)

Inv ==
  /\ Tables
  /\ tx = [s \in Sessions |-> tx[s]] /\ \A s \in Sessions : Sound(s)
  /\ \A s, x \in Sessions :
       s # x /\ tx[s].kind = "submission" => tx[x].request # tx[s].request
  /\ ledger \in [LedgerDays -> Nat]
  /\ today \in 0..LastDay
  /\ holder \in [Locks -> Sessions \cup {Nobody}]
  /\ \A l \in Rows : holder[l] = Nobody => draft[l] = db[l]

-----------------------------------------------------------------------------
(* Numbers, days and rows *)

LEMMA LeastIsLeast ==
  ASSUME NEW S, S \subseteq Nat, S # {}
  PROVE  Min(S) \in S /\ Min(S) \in Nat /\ \A n \in S : Min(S) <= n
<1>1. \E n \in S : \A m \in S : n <= m
  BY LeastNumber
<1> QED BY <1>1 DEF Min

LEMMA DaysAreDays ==
  ASSUME NEW r \in Requests
  PROVE  /\ LeaveDays[r] \subseteq Nat /\ IsFiniteSet(LeaveDays[r])
         /\ FirstDay(r) \in LeaveDays[r] /\ FirstDay(r) \in Nat
         /\ \A d \in LeaveDays[r] : d \in Nat /\ FirstDay(r) <= d
<1>1. LeaveDays[r] \subseteq Nat /\ IsFiniteSet(LeaveDays[r]) /\ LeaveDays[r] # {}
  BY OrderAssumption
<1> QED BY <1>1, LeastIsLeast DEF FirstDay

LEMMA Names ==
  /\ Balance \notin Requests /\ NoRequest \notin Requests /\ TypeLock \notin Requests
  /\ TypeLock # Balance /\ NoRequest # Balance /\ Balance \in Rows /\ Balance \in Locks
  /\ Requests \subseteq Nat /\ Requests \subseteq Rows /\ Rows \subseteq Locks
  /\ \A r \in Requests : Original[r] \in Requests \cup {NoRequest}
  /\ \A l \in Rows : l = Balance \/ l \in Requests
  /\ Nobody \notin Sessions
BY OrderAssumption DEF Balance, NoRequest, TypeLock, Rows, Locks

\* Of two prefixes that leave equally many days, one is the other.
LEMMA PrefixByCount ==
  ASSUME NEW D, D \subseteq Nat, IsFiniteSet(D), NEW S, NEW T, S \subseteq D, T \subseteq D,
         \A d \in S : \A e \in D : e < d => e \in S,
         \A d \in T : \A e \in D : e < d => e \in T,
         Cardinality(D \ S) = Cardinality(D \ T)
  PROVE  S = T
<1>1. S \subseteq T \/ T \subseteq S
  <2> SUFFICES ASSUME NEW a \in S, a \notin T, NEW b \in T, b \notin S PROVE FALSE
    OBVIOUS
  <2>1. a \in Nat /\ b \in Nat /\ a # b
    OBVIOUS
  <2>2. a < b \/ b < a
    BY <2>1
  <2> QED BY <2>2
<1>2. IsFiniteSet(D \ S) /\ IsFiniteSet(D \ T)
  BY FS_Subset
<1>3. CASE S \subseteq T
  <2>1. D \ T \subseteq D \ S
    BY <1>3
  <2>2. D \ T = D \ S
    BY <2>1, <1>2, FS_Subset
  <2> QED BY <2>2
<1>4. CASE T \subseteq S
  <2>1. D \ S \subseteq D \ T
    BY <1>4
  <2>2. D \ T = D \ S
    BY <2>1, <1>2, FS_Subset
  <2> QED BY <2>2
<1> QED BY <1>1, <1>3, <1>4

LEMMA WholeLasts ==
  ASSUME NEW r \in Requests, NEW day \in Nat, NEW later \in Nat, day <= later,
         NEW q, Whole(r, q, day)
  PROVE  Whole(r, q, later)
<1>1. \A d \in q.consumed : d \in Nat
  BY DaysAreDays DEF Whole
<1>2. \A d \in q.consumed : d < later
  BY <1>1 DEF Whole
<1> QED BY <1>2 DEF Whole

\* Nothing of a leave is consumed on the eve of its first day.
LEMMA UntouchedBefore ==
  ASSUME NEW r \in Requests, NEW day \in Nat, NEW n \in Nat, day <= n + 1, n < FirstDay(r),
         NEW q, Whole(r, q, day)
  PROVE  q.consumed = {}
<1> SUFFICES ASSUME NEW d \in q.consumed PROVE FALSE
  OBVIOUS
<1>1. d \in Nat /\ FirstDay(r) \in Nat /\ FirstDay(r) <= d /\ d < day
  BY DaysAreDays DEF Whole
<1> QED BY <1>1

LEMMA WholeIsTyped ==
  ASSUME NEW r \in Requests, NEW day, NEW q, Whole(r, q, day)
  PROVE  /\ q.status \in Statuses /\ q.consumed \subseteq LeaveDays[r] /\ q.held \in Nat
         /\ DOMAIN q = {"status", "consumed", "held"}
<1>1. IsFiniteSet(LeaveDays[r] \ q.consumed)
  BY DaysAreDays, FS_Subset
<1>2. q.held \in Nat
  BY <1>1, FS_CardinalityType DEF Whole
<1>3. DOMAIN q = {"status", "consumed", "held"}
  BY DEF Whole
<1> QED BY <1>2, <1>3 DEF Whole

\* What reconcile saves is whole again, with the days behind it consumed.
LEMMA SavedIsWhole ==
  ASSUME NEW r \in Requests, NEW day \in Nat, NEW n \in Nat, n <= day,
         NEW q, Whole(r, q, day), q.status = "Approved"
  PROVE  LET w == Saved(q, Elapsed(r, q, n))
         IN  Whole(r, w, day) /\ w.status = "Approved"
<1> DEFINE E == Elapsed(r, q, n)
           w == Saved(q, E)
<1>0. q = [status |-> q.status, consumed |-> q.consumed, held |-> q.held]
  BY DEF Whole
<1>1. w = [status |-> q.status, consumed |-> q.consumed \cup E, held |-> q.held - Cardinality(E)]
  <2>1. w = [q EXCEPT !.consumed = q.consumed \cup E, !.held = q.held - Cardinality(E)]
    BY DEF Saved
  <2> HIDE DEF w, E
  <2>2. /\ w = [status |-> w.status, consumed |-> w.consumed, held |-> w.held]
        /\ w.status = q.status /\ w.consumed = q.consumed \cup E
        /\ w.held = q.held - Cardinality(E)
    BY <1>0, <2>1
  <2> QED BY <2>2
<1>2. E = {d \in LeaveDays[r] \ q.consumed : d < n}
  BY DEF Elapsed
<1> HIDE DEF E, w
<1>3. IsFiniteSet(LeaveDays[r] \ q.consumed) /\ (LeaveDays[r] \ q.consumed) \cap E = E
  BY <1>2, DaysAreDays, FS_Subset
<1>4. (LeaveDays[r] \ q.consumed) \ E = LeaveDays[r] \ w.consumed
  BY <1>1
<1>5. IsFiniteSet(E) /\ Cardinality(LeaveDays[r] \ w.consumed)
                        = Cardinality(LeaveDays[r] \ q.consumed) - Cardinality(E)
  <2>1. E \subseteq LeaveDays[r] \ q.consumed
    BY <1>2
  <2>2. IsFiniteSet(E)
    BY <1>3, <2>1, FS_Subset
  <2>3. Cardinality((LeaveDays[r] \ q.consumed) \ E)
          = Cardinality(LeaveDays[r] \ q.consumed) - Cardinality((LeaveDays[r] \ q.consumed) \cap E)
    BY <1>3, <2>2, FS_Difference
  <2> QED BY <1>3, <1>4, <2>2, <2>3
<1>6. q.held = Cardinality(LeaveDays[r] \ q.consumed)
  BY DEF Whole, IsActive
<1>7. w = [status |-> w.status, consumed |-> w.consumed, held |-> w.held] /\ w.status = "Approved"
  BY <1>1
<1>8. w.held = Cardinality(LeaveDays[r] \ w.consumed)
  BY <1>1, <1>5, <1>6
<1>9. w.consumed \subseteq LeaveDays[r]
  BY <1>1, <1>2 DEF Whole
<1>10. ASSUME NEW d \in w.consumed
       PROVE  d < day /\ \A e \in LeaveDays[r] : e < d => e \in w.consumed
  <2>1. d \in LeaveDays[r] /\ d \in Nat /\ \A e \in LeaveDays[r] : e \in Nat
    BY <1>9, DaysAreDays
  <2>2. CASE d \in q.consumed
    BY <2>2, <1>1 DEF Whole
  <2>3. CASE d \in E
    BY <2>1, <2>3, <1>1, <1>2
  <2> QED BY <2>2, <2>3, <1>1
<1> QED BY <1>7, <1>8, <1>9, <1>10 DEF Whole, IsActive, Statuses, w, E

\* Two versions of an approved leave differ in cursor and remainder, or in nothing.
LEMMA DifferTogether ==
  ASSUME NEW r \in Requests, NEW day, NEW q, NEW w, Whole(r, q, day), Whole(r, w, day),
         q.status = "Approved", w.status = "Approved"
  PROVE  Stale(q, w) = {} \/ Stale(q, w) = {"consumed", "held"}
<1>1. DOMAIN q = {"status", "consumed", "held"}
  BY DEF Whole
<1>2. q.consumed = w.consumed => q.held = w.held
  BY DEF Whole, IsActive
<1>3. Cardinality(LeaveDays[r] \ q.consumed) = q.held /\ Cardinality(LeaveDays[r] \ w.consumed) = w.held
  BY DEF Whole, IsActive
<1>4. LeaveDays[r] \subseteq Nat /\ IsFiniteSet(LeaveDays[r])
  BY DaysAreDays
<1>5. /\ q.consumed \subseteq LeaveDays[r] /\ w.consumed \subseteq LeaveDays[r]
      /\ \A d \in q.consumed : \A e \in LeaveDays[r] : e < d => e \in q.consumed
      /\ \A d \in w.consumed : \A e \in LeaveDays[r] : e < d => e \in w.consumed
  BY DEF Whole
<1>6. q.held = w.held => q.consumed = w.consumed
  BY <1>3, <1>4, <1>5, PrefixByCount
<1>7. Stale(q, w) = {c \in {"status", "consumed", "held"} : q[c] # w[c]}
  BY <1>1 DEF Stale
<1>8. q["status"] = w["status"] /\ (q["consumed"] = w["consumed"] <=> q["held"] = w["held"])
  BY <1>2, <1>6
<1> QED BY <1>7, <1>8

\* Written together, they make the value.
LEMMA WrittenTogether ==
  ASSUME NEW r \in Requests, NEW day, NEW q, NEW w, Whole(r, q, day), Whole(r, w, day),
         q.status = "Approved", w.status = "Approved"
  PROVE  [c \in DOMAIN q |-> IF c \in {"consumed", "held"} THEN w[c] ELSE q[c]] = w
<1>1. DOMAIN q = {"status", "consumed", "held"}
  BY DEF Whole
<1>2. w = [c \in {"status", "consumed", "held"} |-> w[c]]
  BY DEF Whole
<1>3. q["status"] = w["status"]
  OBVIOUS
<1> QED BY <1>1, <1>2, <1>3

-----------------------------------------------------------------------------
(* What a transaction has yet to do *)

LEMMA SameWork ==
  ASSUME NEW t, NEW u,
         u.todo = t.todo, u.copies = t.copies, u.asOf = t.asOf, u.posted = t.posted
  PROVE  /\ Current(u) = Current(t) /\ \A r : DaysElapsed(u, r) = DaysElapsed(t, r)
         /\ DaysLeft(u) = DaysLeft(t) /\ Spends(u) = Spends(t) /\ Saves(u) = Saves(t)
<1>1. Current(u) = Current(t) /\ \A r : DaysElapsed(u, r) = DaysElapsed(t, r)
  BY DEF Current, DaysElapsed
<1>2. DaysLeft(u) = DaysLeft(t)
  BY <1>1 DEF DaysLeft
<1> QED BY <1>1, <1>2 DEF Spends, Saves

LEMMA CurrentIsToDo ==
  ASSUME NEW t, t.todo \subseteq Requests, t.todo # {}
  PROVE  Current(t) \in t.todo
BY Names, LeastIsLeast DEF Current

LEMMA ElapsedIsStarted ==
  ASSUME NEW r \in Requests, NEW q, NEW n \in Nat, Elapsed(r, q, n) # {}
  PROVE  FirstDay(r) < n
<1> PICK d \in LeaveDays[r] : d < n
  BY DEF Elapsed
<1> QED BY DaysAreDays

\* Whoever saves a leave has spent days, and the leave has a day behind it.
LEMMA SavesAfterPosting ==
  ASSUME NEW t, IsTransaction(t), ToDo(t), Saves(t)
  PROVE  /\ t.posted # {} /\ Current(t) \in t.todo /\ Current(t) \in Requests
         /\ FirstDay(Current(t)) < t.asOf
<1>1. Current(t) \in t.todo /\ Current(t) \in Requests
  BY CurrentIsToDo DEF ToDo, Saves
<1>2. DaysElapsed(t, Current(t)) # {}
  BY <1>1 DEF ToDo
<1>3. t.posted # {}
  BY <1>2 DEF Saves, DaysLeft
<1>4. FirstDay(Current(t)) < t.asOf
  BY <1>1, <1>2, ElapsedIsStarted DEF DaysElapsed, IsTransaction
<1> QED BY <1>1, <1>3, <1>4

\* On to the next movement, the next save, or what comes after them.
LEMMA OnwardIsFine ==
  ASSUME NEW t, IsTransaction(t), ToDo(t), t.kind \in {"refresh", "submission", "approval"},
         t.kind = "refresh" => t.request = NoRequest,
         t.kind # "refresh" => t.request \in Requests,
         t.kind = "approval" => Original[t.request] # NoRequest
  PROVE  LET u == Onward(t)
         IN  /\ IsTransaction(u) /\ Staged(u) /\ ToDo(u) /\ Writes(u)
             /\ u.kind = t.kind /\ u.request = t.request /\ u.asOf = t.asOf
             /\ u.todo = t.todo /\ u.posted = t.posted
             /\ u.at \in {"read", "reselect", "check", "commit"}
             /\ u.kind = "approval" /\ u.todo = {} => u.at = "check"
<1> DEFINE u == Onward(t)
<1>1. CASE Spends(t)
  <2> DEFINE v == [t EXCEPT !.at = "read"]
  <2>1. u = v
    BY <1>1 DEF Onward, Spends, Saves
  <2>2. v = [t EXCEPT !.at = "read"]
    OBVIOUS
  <2> HIDE DEF v
  <2>3. /\ IsTransaction(v)
        /\ v.kind = t.kind /\ v.request = t.request /\ v.asOf = t.asOf /\ v.copies = t.copies
        /\ v.todo = t.todo /\ v.posted = t.posted /\ v.at = "read"
    BY <2>2 DEF IsTransaction
  <2>4. Spends(v) /\ ~Saves(v) /\ v.todo # {}
    BY <1>1, <2>3, SameWork DEF Spends, Saves
  <2>5. Staged(v)
    BY <2>3, <2>4 DEF Staged, Stages, Kinds
  <2>6. ToDo(v)
    BY <2>3, SameWork DEF ToDo
  <2>7. Writes(v)
    BY <2>3, <2>4 DEF Writes
  <2> QED BY <2>1, <2>3, <2>4, <2>5, <2>6, <2>7
<1>2. CASE Saves(t)
  <2> DEFINE w == Saved(t.copies[Current(t)], DaysElapsed(t, Current(t)))
             v == [t EXCEPT !.at = "reselect", !.value = w]
  <2>1. u = v
    BY <1>2 DEF Onward, Spends, Saves
  <2> HIDE DEF w
  <2>2. v = [t EXCEPT !.at = "reselect", !.value = w]
    OBVIOUS
  <2> HIDE DEF v
  <2>3. /\ IsTransaction(v)
        /\ v.kind = t.kind /\ v.request = t.request /\ v.asOf = t.asOf /\ v.copies = t.copies
        /\ v.todo = t.todo /\ v.posted = t.posted /\ v.at = "reselect" /\ v.value = w
    BY <2>2 DEF IsTransaction
  <2>4. Saves(v) /\ v.todo # {}
    BY <1>2, <2>3, SameWork DEF Saves
  <2>5. Staged(v)
    BY <2>3, <2>4 DEF Staged, Stages, Kinds
  <2>6. ToDo(v)
    BY <2>3, SameWork DEF ToDo
  <2>7. w = Saved(v.copies[Current(v)], DaysElapsed(v, Current(v)))
    BY <2>3, SameWork DEF w
  <2>8. Writes(v)
    BY <2>3, <2>4, <2>7 DEF Writes
  <2> QED BY <2>1, <2>3, <2>4, <2>5, <2>6, <2>8
<1>3. CASE ~Spends(t) /\ ~Saves(t)
  <2> DEFINE a == CASE t.kind = "submission" -> "read"
                    [] t.kind = "approval"   -> "check"
                    [] OTHER                 -> "commit"
             v == [t EXCEPT !.at = a]
  <2>1. u = v
    BY <1>3 DEF Onward
  <2>0. /\ t.kind = "submission" => a = "read"
        /\ t.kind = "approval" => a = "check"
        /\ t.kind = "refresh" => a = "commit"
    OBVIOUS
  <2> HIDE DEF a
  <2>2. v = [t EXCEPT !.at = a]
    OBVIOUS
  <2> HIDE DEF v
  <2>3. /\ IsTransaction(v)
        /\ v.kind = t.kind /\ v.request = t.request /\ v.asOf = t.asOf /\ v.copies = t.copies
        /\ v.todo = t.todo /\ v.posted = t.posted /\ v.at = a
    BY <2>2 DEF IsTransaction
  <2>4. v.todo = {} /\ ~Saves(v)
    BY <1>3, <2>3, SameWork DEF Spends, Saves
  <2>5. Staged(v) /\ v.at \in {"read", "check", "commit"}
    BY <2>0, <2>3, <2>4 DEF Staged, Stages, Kinds
  <2>6. ToDo(v)
    BY <2>3, SameWork DEF ToDo
  <2>7. Writes(v)
    BY <2>4, <2>5 DEF Writes
  <2> QED BY <2>0, <2>1, <2>3, <2>5, <2>6, <2>7
<1> QED BY <1>1, <1>2, <1>3

\* After a save.
LEMMA DoneIsFine ==
  ASSUME NEW t, IsTransaction(t), Staged(t), ToDo(t), t.at \in {"reselect", "update"}
  PROVE  LET u == Done(t)
         IN  /\ IsTransaction(u) /\ Staged(u) /\ ToDo(u) /\ Writes(u)
             /\ u.kind = t.kind /\ u.request = t.request /\ u.asOf = t.asOf
             /\ u.todo \subseteq t.todo /\ t.posted \subseteq u.posted
             /\ u.at \in {"read", "reselect", "check", "commit"}
             /\ u.kind = "approval" /\ u.todo = {} => u.at = "check" \/ t.todo = {}
<1> DEFINE u == Done(t)
           clear == [t EXCEPT !.value = <<>>, !.columns = {}]
<1>0. clear = [t EXCEPT !.value = <<>>, !.columns = {}]
  OBVIOUS
<1>1. /\ t.kind \in {"refresh", "submission", "approval", "cancellation"}
      /\ t.kind = "refresh" => t.request = NoRequest
      /\ t.kind # "refresh" => t.request \in Requests
      /\ t.kind = "approval" => Original[t.request] # NoRequest
      /\ t.kind = "cancellation" => t.todo = {} /\ t.posted = {}
  BY DEF Staged, Stages, Kinds
<1>2. CASE Spends(t)
  <2> DEFINE v == [clear EXCEPT !.posted = @ \cup {<<Current(t), Min(DaysLeft(t))>>}]
  <2>1. u = Onward(v)
    BY <1>2 DEF Done, Spends, Saves
  <2>2. v = [clear EXCEPT !.posted = @ \cup {<<Current(t), Min(DaysLeft(t))>>}]
    OBVIOUS
  <2> HIDE DEF v, clear
  <2>3. IsTransaction(clear) /\ clear.posted = t.posted /\ clear.kind = t.kind
        /\ clear.request = t.request /\ clear.asOf = t.asOf /\ clear.copies = t.copies
        /\ clear.todo = t.todo
    BY <1>0 DEF IsTransaction
  <2>4. IsTransaction(v) /\ t.posted \subseteq v.posted /\ v.kind = t.kind
        /\ v.request = t.request /\ v.asOf = t.asOf /\ v.copies = t.copies /\ v.todo = t.todo
    BY <2>2, <2>3 DEF IsTransaction
  <2>5. ToDo(v)
    BY <2>4 DEF ToDo, DaysElapsed
  <2>6. v.todo # {} /\ v.kind \in {"refresh", "submission", "approval"}
    BY <1>1, <1>2, <2>4 DEF Spends
  <2> HIDE DEF u
  <2> QED BY <1>1, <2>1, <2>4, <2>5, <2>6, OnwardIsFine DEF u
<1>3. CASE Saves(t)
  <2> DEFINE v == [clear EXCEPT !.todo = @ \ {Current(t)}]
  <2>1. u = Onward(v)
    BY <1>3 DEF Done, Spends, Saves
  <2>2. v = [clear EXCEPT !.todo = @ \ {Current(t)}]
    OBVIOUS
  <2> HIDE DEF v, clear
  <2>3. IsTransaction(clear) /\ clear.posted = t.posted /\ clear.kind = t.kind
        /\ clear.request = t.request /\ clear.asOf = t.asOf /\ clear.copies = t.copies
        /\ clear.todo = t.todo
    BY <1>0 DEF IsTransaction
  <2>4. IsTransaction(v) /\ v.posted = t.posted /\ v.kind = t.kind
        /\ v.request = t.request /\ v.asOf = t.asOf /\ v.copies = t.copies
        /\ v.todo = t.todo \ {Current(t)}
    BY <2>2, <2>3 DEF IsTransaction
  <2>5. ToDo(v)
    BY <2>4 DEF ToDo, DaysElapsed
  <2>6. v.kind \in {"refresh", "submission", "approval"}
    BY <1>1, <1>3, <2>4 DEF Saves
  <2> HIDE DEF u
  <2> QED BY <1>1, <2>1, <2>4, <2>5, <2>6, OnwardIsFine DEF u
<1>4. CASE ~Spends(t) /\ ~Saves(t)
  <2> DEFINE v == [clear EXCEPT !.at = "commit"]
  <2>1. u = v
    BY <1>4 DEF Done
  <2>2. v = [clear EXCEPT !.at = "commit"]
    OBVIOUS
  <2> HIDE DEF v, clear
  <2>3. IsTransaction(clear) /\ clear.posted = t.posted /\ clear.kind = t.kind
        /\ clear.request = t.request /\ clear.asOf = t.asOf /\ clear.copies = t.copies
        /\ clear.todo = t.todo
    BY <1>0 DEF IsTransaction
  <2>4. IsTransaction(v) /\ v.posted = t.posted /\ v.kind = t.kind
        /\ v.request = t.request /\ v.asOf = t.asOf /\ v.copies = t.copies
        /\ v.todo = t.todo /\ v.at = "commit"
    BY <2>2, <2>3 DEF IsTransaction
  <2>5. t.todo = {}
    BY <1>4 DEF Spends, Saves
  <2>6. Staged(v)
    BY <1>1, <2>4, <2>5 DEF Staged, Stages, Kinds
  <2>7. ToDo(v) /\ Writes(v)
    BY <2>4, <2>5 DEF ToDo, Writes
  <2> HIDE DEF u
  <2> QED BY <2>1, <2>4, <2>5, <2>6, <2>7 DEF u
<1> QED BY <1>2, <1>3, <1>4

-----------------------------------------------------------------------------
(* What a step of one session leaves of the others *)

LEMMA SoundWork ==
  ASSUME Inv, NEW s \in Sessions
  PROVE  /\ IsTransaction(tx[s]) /\ Staged(tx[s]) /\ ToDo(tx[s]) /\ Writes(tx[s])
         /\ Knows(s) /\ Holds(s)
         /\ Open(s) => tx[s].asOf <= today /\ today <= tx[s].asOf + 1
         /\ tx[s].asOf \in Nat /\ today \in Nat /\ LastDay \in Nat
         /\ tx = [x \in Sessions |-> tx[x]]
         /\ holder \in [Locks -> Sessions \cup {Nobody}]
         /\ tx[s].kind \in Kinds /\ tx[s].at \in Stages(tx[s].kind)
<1>1. LastDay \in Nat
  BY OrderAssumption
<1>2. today \in Nat
  BY <1>1 DEF Inv
<1>3. Sound(s)
  BY DEF Inv
<1>4. IsTransaction(tx[s]) /\ Staged(tx[s])
  BY <1>3 DEF Sound
<1>5. tx[s].asOf \in Nat /\ tx[s].kind \in Kinds /\ tx[s].at \in Stages(tx[s].kind)
  BY <1>4 DEF IsTransaction, Staged
<1> QED BY <1>1, <1>2, <1>3, <1>5 DEF Sound, Inv

\* Others stay sound as long as no row they rely upon changes its status.
LEMMA OthersStaySound ==
  ASSUME NEW y \in Sessions, Sound(y), tx'[y] = tx[y], today' = today,
         \A l \in Locks : holder'[l] = y <=> holder[l] = y,
         \A r \in Requests : db[r].status # "Absent" => db'[r].status # "Absent",
         \A r \in tx[y].todo : db'[r].status = "Approved",
         \A r \in Requests : holder[r] = y => db'[r].status = db[r].status,
         tx[y].kind = "submission" => db'[tx[y].request].status = "Absent"
  PROVE  Sound(y)'
<1>1. IsTransaction(tx[y])' /\ Staged(tx[y])'
  BY DEF Sound, Staged, IsTransaction
<1>2. ToDo(tx[y])'
  BY DEF Sound, ToDo, Whole, DaysElapsed
<1>3. Writes(tx[y])'
  BY DEF Sound, Writes, Saves, Spends, DaysLeft, Current, DaysElapsed
<1>4. Open(y)' => tx'[y].asOf <= today' /\ today' <= tx'[y].asOf + 1
  BY DEF Sound, Open
<1>5. Knows(y)'
  <2> DEFINE t == tx[y]
             r == t.request
             o == Original[r]
  <2>1. Decides(t) => r \in Requests /\ r \in Locks /\ o \in Requests \cup {NoRequest}
    BY Names DEF Sound, Staged, Decides
  <2>2. /\ t.kind = "submission" => db'[r].status = "Absent" /\ o = NoRequest
        /\ Decides(t) => db'[r].status # "Absent"
    BY <2>1 DEF Sound, Knows
  <2>3. ASSUME Decides(t), t.at # "request"
        PROVE  /\ holder'[r] = y
               /\ \/ db'[r].status = "Pending"
                  \/ t.kind = "cancellation" /\ db'[r].status = "Approved" /\ t.asOf < FirstDay(r)
    <3>1. holder[r] = y /\ r \in Requests /\ r \in Locks
      BY <2>1, <2>3 DEF Sound, Knows
    <3>2. db'[r].status = db[r].status /\ holder'[r] = y
      BY <3>1
    <3> QED BY <2>3, <3>2 DEF Sound, Knows
  <2>4. ASSUME t.kind = "approval", t.at \notin {"request", "original"}, o # NoRequest
        PROVE  /\ holder'[o] = y
               /\ t.at \in {"read", "reselect", "update", "commit"} /\ t.todo = {}
                  /\ db'[o].status = "Approved" => t.asOf < FirstDay(o)
    <3>1. holder[o] = y
      BY <2>4 DEF Sound, Knows
    <3>2. o \in Requests /\ o \in Locks
      BY <2>1, <2>4, Names DEF Decides
    <3>3. db'[o].status = db[o].status /\ holder'[o] = y
      BY <3>1, <3>2
    <3> QED BY <2>4, <3>3 DEF Sound, Knows
  <2> QED BY <2>2, <2>3, <2>4 DEF Knows
<1>6. Holds(y)'
  BY DEF Sound, Holds
<1> QED BY <1>1, <1>2, <1>3, <1>4, <1>5, <1>6 DEF Sound

\* A step that commits nothing.
LEMMA OwnStep ==
  ASSUME Inv, NEW s \in Sessions, Sound(s)',
         tx' = [tx EXCEPT ![s] = tx'[s]], UNCHANGED <<db, ledger, today>>,
         holder' \in [Locks -> Sessions \cup {Nobody}],
         \A l \in Locks : holder'[l] # holder[l]
                          => {holder[l], holder'[l]} \subseteq {Nobody, s},
         draft' = [l \in Rows |-> draft'[l]], draft'[Balance] \in Balances,
         \A r \in Requests :
            /\ Whole(r, draft'[r], today) /\ draft'[r].status = db[r].status
            /\ db[r].status # "Approved" => draft'[r] = db[r],
         \A l \in Rows : holder'[l] = Nobody => draft'[l] = db[l],
         \A x \in Sessions \ {s} :
            /\ tx'[s].kind = "submission" => tx[x].request # tx'[s].request
            /\ tx[x].kind = "submission" => tx'[s].request # tx[x].request
  PROVE  Inv'
<1>1. Tables'
  BY DEF Inv, Tables
<1>2. tx' = [x \in Sessions |-> tx'[x]] /\ \A x \in Sessions \ {s} : tx'[x] = tx[x]
  BY DEF Inv
<1>3. ASSUME NEW y \in Sessions PROVE Sound(y)'
  <2>1. CASE y = s
    BY <2>1
  <2>2. CASE y # s
    <3>1. \A l \in Locks : holder'[l] = y <=> holder[l] = y
      BY <2>2, Names
    <3>2. Sound(y)
      BY DEF Inv
    <3>3. /\ \A r \in tx[y].todo : db'[r].status = "Approved"
          /\ tx[y].kind = "submission" => db'[tx[y].request].status = "Absent"
      BY <3>2 DEF Sound, ToDo, Knows
    <3> QED BY <1>2, <2>2, <3>1, <3>2, <3>3, OthersStaySound
  <2> QED BY <2>1, <2>2
<1>4. \A x, y \in Sessions : x # y /\ tx'[x].kind = "submission" => tx'[y].request # tx'[x].request
  BY <1>2 DEF Inv
<1> QED BY <1>1, <1>2, <1>3, <1>4 DEF Inv

\* A step by which a transaction that reconciles or posts goes on.
LEMMA PlainStep ==
  ASSUME Inv, NEW s \in Sessions, UNCHANGED <<db, draft, ledger, today, holder>>,
         tx' = [tx EXCEPT ![s] = tx'[s]],
         IsTransaction(tx[s])', Staged(tx[s])', ToDo(tx[s])', Writes(tx[s])',
         tx'[s].kind = tx[s].kind, tx'[s].request = tx[s].request, tx'[s].asOf = tx[s].asOf,
         tx[s].at \in {"candidates", "check", "read", "reselect", "update"},
         tx'[s].at \in {"check", "read", "reselect", "update", "commit"},
         tx[s].posted \subseteq tx'[s].posted,
         LET o == Original[tx[s].request]
         IN  tx[s].kind = "approval" /\ tx'[s].at # "check" /\ tx'[s].todo = {}
             /\ db[o].status = "Approved" => tx[s].asOf < FirstDay(o)
  PROVE  Inv'
<1> DEFINE t == tx[s]
           r == t.request
           o == Original[r]
<1>1. IsTransaction(t) /\ Staged(t) /\ Knows(s) /\ Holds(s)
      /\ (Open(s) => t.asOf <= today /\ today <= t.asOf + 1)
  BY SoundWork
<1>2. Open(s)' => tx'[s].asOf <= today' /\ today' <= tx'[s].asOf + 1
  BY <1>1 DEF Open
<1>3. Knows(s)'
  <2>1. /\ t.kind = "submission" => db[r].status = "Absent" /\ o = NoRequest
        /\ Decides(t) => db[r].status # "Absent"
        /\ Decides(t) => holder[r] = s
        /\ Decides(t) => \/ db[r].status = "Pending"
                         \/ t.kind = "cancellation" /\ db[r].status = "Approved" /\ t.asOf < FirstDay(r)
        /\ t.kind = "approval" /\ o # NoRequest => holder[o] = s
    BY <1>1 DEF Knows
  <2>2. t.kind = "approval" /\ tx'[s].at # "check" /\ tx'[s].todo = {}
        /\ db[o].status = "Approved" => t.asOf < FirstDay(o)
    OBVIOUS
  <2> QED BY <2>1, <2>2 DEF Knows, Decides
<1>4. Holds(s)'
  <2> SUFFICES ASSUME NEW l \in Locks, holder[l] = s
               PROVE  l \in Requests =>
                        /\ db[l].status # "Absent"
                        /\ \/ Decides(t) /\ l = r
                           \/ t.kind = "approval" /\ t.at # "original" /\ l = o
                           \/ tx'[s].posted # {} /\ FirstDay(l) < t.asOf
    BY DEF Holds, Decides
  <2> QED BY <1>1 DEF Holds
<1>5. Sound(s)'
  BY <1>2, <1>3, <1>4 DEF Sound
<1>6. \A x \in Sessions \ {s} :
        /\ tx'[s].kind = "submission" => tx[x].request # tx'[s].request
        /\ tx[x].kind = "submission" => tx'[s].request # tx[x].request
  BY DEF Inv
<1>7. /\ draft' = [l \in Rows |-> draft'[l]] /\ draft'[Balance] \in Balances
      /\ \A q \in Requests :
            /\ Whole(q, draft'[q], today) /\ draft'[q].status = db[q].status
            /\ db[q].status # "Approved" => draft'[q] = db[q]
      /\ \A l \in Rows : holder'[l] = Nobody => draft'[l] = db[l]
      /\ holder' \in [Locks -> Sessions \cup {Nobody}]
  BY DEF Inv, Tables
<1>8. UNCHANGED <<db, ledger, today>>
      /\ \A l \in Locks : holder'[l] # holder[l]
                          => {holder[l], holder'[l]} \subseteq {Nobody, s}
  OBVIOUS
<1> QED BY <1>5, <1>6, <1>7, <1>8, OwnStep

\* A session without a transaction.
LEMMA IdleIsSound ==
  ASSUME NEW s, tx[s] = Idle, \A l \in Locks : holder[l] # s
  PROVE  Sound(s)
<1>1. IsTransaction(Idle) /\ Staged(Idle)
  BY DEF Idle, IsTransaction, Staged, Stages, Kinds
<1>2. ToDo(Idle) /\ Writes(Idle)
  BY DEF Idle, ToDo, Writes
<1>3. ~Open(s)
  BY DEF Open, Idle
<1>4. Knows(s)
  BY DEF Knows, Decides, Idle
<1>5. Holds(s)
  BY DEF Holds
<1> QED BY <1>1, <1>2, <1>3, <1>4, <1>5 DEF Sound

-----------------------------------------------------------------------------
(* Beginning and rolling back *)

LEMMA BeginIsFine ==
  ASSUME Inv, NEW s \in Sessions, NEW kind, NEW r, NEW at, Begin(s, kind, r, at),
         \/ kind = "refresh" /\ r = NoRequest /\ at = "candidates"
         \/ /\ kind = "submission" /\ r \in Requests /\ at = "type"
            /\ db[r].status = "Absent" /\ Original[r] = NoRequest
            /\ \A x \in Sessions : tx[x].request # r
         \/ /\ kind \in {"cancellation", "approval"} /\ r \in Requests /\ at = "request"
            /\ db[r].status # "Absent"
  PROVE  Inv'
<1> DEFINE u == [kind |-> kind, request |-> r, asOf |-> today, at |-> at, copies |-> <<>>,
                 todo |-> {}, hold |-> 0, value |-> <<>>, columns |-> {}, posted |-> {}]
<1>1. tx[s].kind = "none" /\ tx[s].at = "idle" /\ today \in Nat
      /\ tx = [x \in Sessions |-> tx[x]] /\ Holds(s)
  BY SoundWork DEF Begin, Open, Stages
<1>2. tx'[s] = u /\ tx' = [tx EXCEPT ![s] = tx'[s]] /\ UNCHANGED <<db, draft, ledger, today, holder>>
  BY <1>1 DEF Begin, Idle
<1>3. \A l \in Locks : holder[l] # s
  BY <1>1 DEF Holds
<1> HIDE DEF u
<1>4. /\ IsTransaction(u) /\ u.kind = kind /\ u.request = r /\ u.asOf = today /\ u.at = at
      /\ u.todo = {} /\ u.posted = {}
  BY <1>1 DEF u, IsTransaction
<1>5. Staged(u) /\ Writes(u)
  BY <1>4, Names DEF Staged, Stages, Kinds, Writes
<1>6. Staged(tx[s])' /\ Writes(tx[s])' /\ IsTransaction(tx[s])'
  BY <1>2, <1>4, <1>5
<1>7. ToDo(tx[s])'
  BY <1>2, <1>4 DEF ToDo
<1>8. Knows(s)'
  <2>1. kind = "submission" => db[r].status = "Absent" /\ Original[r] = NoRequest
    OBVIOUS
  <2>2. kind \in {"cancellation", "approval"} => db[r].status # "Absent" /\ at = "request"
    OBVIOUS
  <2> QED BY <1>2, <1>4, <2>1, <2>2 DEF Knows, Decides
<1>9. Holds(s)'
  BY <1>2, <1>3 DEF Holds
<1>10. Sound(s)'
  BY <1>1, <1>2, <1>4, <1>6, <1>7, <1>8, <1>9 DEF Sound, Open
<1>11. \A x \in Sessions \ {s} :
         /\ tx'[s].kind = "submission" => tx[x].request # tx'[s].request
         /\ tx[x].kind = "submission" => tx'[s].request # tx[x].request
  <2> SUFFICES ASSUME NEW x \in Sessions \ {s}
               PROVE  /\ kind = "submission" => tx[x].request # r
                      /\ tx[x].kind = "submission" => r # tx[x].request
    BY <1>2, <1>4
  <2>1. Staged(tx[x]) /\ Knows(x)
    BY SoundWork
  <2>2. tx[x].kind = "submission" => tx[x].request \in Requests /\ db[tx[x].request].status = "Absent"
    BY <2>1 DEF Staged, Knows
  <2> QED BY <2>2, Names
<1>12. /\ draft' = [l \in Rows |-> draft'[l]] /\ draft'[Balance] \in Balances
       /\ \A q \in Requests :
            /\ Whole(q, draft'[q], today) /\ draft'[q].status = db[q].status
            /\ db[q].status # "Approved" => draft'[q] = db[q]
       /\ \A l \in Rows : holder'[l] = Nobody => draft'[l] = db[l]
       /\ holder' \in [Locks -> Sessions \cup {Nobody}]
       /\ \A l \in Locks : holder'[l] = holder[l]
  BY <1>2 DEF Inv, Tables
<1> QED BY <1>2, <1>10, <1>11, <1>12, OwnStep

LEMMA BeginsAreFine ==
  ASSUME Inv, NEW s \in Sessions,
         \/ BeginRefresh(s)
         \/ \E r \in Requests : BeginSubmission(s, r) \/ BeginDecision(s, "cancellation", r)
                                                     \/ BeginDecision(s, "approval", r)
  PROVE  Inv'
<1>1. CASE BeginRefresh(s)
  BY <1>1, BeginIsFine DEF BeginRefresh
<1>2. CASE \E r \in Requests : BeginSubmission(s, r)
  BY <1>2, BeginIsFine DEF BeginSubmission
<1>3. ASSUME NEW r \in Requests, NEW kind \in {"cancellation", "approval"}, BeginDecision(s, kind, r)
      PROVE  Inv'
  BY <1>3, BeginIsFine DEF BeginDecision, IsActive
<1> QED BY <1>1, <1>2, <1>3

LEMMA EndFacts ==
  ASSUME Inv, NEW s \in Sessions, End(s)
  PROVE  /\ tx'[s] = Idle /\ tx' = [tx EXCEPT ![s] = tx'[s]]
         /\ holder' \in [Locks -> Sessions \cup {Nobody}]
         /\ \A l \in Locks : holder'[l] = IF holder[l] = s THEN Nobody ELSE holder[l]
         /\ \A l \in Locks : holder'[l] # s
<1>1. tx = [x \in Sessions |-> tx[x]] /\ holder \in [Locks -> Sessions \cup {Nobody}]
  BY SoundWork
<1> QED BY <1>1, Names DEF End

LEMMA EndedIsSound ==
  ASSUME Inv, NEW s \in Sessions, End(s)
  PROVE  Sound(s)' /\ \A x \in Sessions \ {s} :
                        /\ tx'[s].kind = "submission" => tx[x].request # tx'[s].request
                        /\ tx[x].kind = "submission" => tx'[s].request # tx[x].request
<1>1. tx'[s] = Idle /\ \A l \in Locks : holder'[l] # s
  BY EndFacts
<1>2. ToDo(tx[s])' /\ Writes(tx[s])' /\ ~Open(s)' /\ Knows(s)'
  BY <1>1 DEF ToDo, Writes, Open, Knows, Decides, Idle
<1>3. IsTransaction(tx[s])' /\ Staged(tx[s])'
  BY <1>1 DEF Idle, IsTransaction, Staged, Stages, Kinds
<1>4. Holds(s)'
  BY <1>1 DEF Holds
<1>5. \A x \in Sessions : tx[x].kind = "submission" => tx[x].request \in Requests
  BY SoundWork DEF Staged
<1> QED BY <1>1, <1>2, <1>3, <1>4, <1>5, Names DEF Sound, Idle

LEMMA RollbackIsFine ==
  ASSUME Inv, NEW s \in Sessions, Rollback(s)
  PROVE  Inv'
<1>1. End(s) /\ UNCHANGED <<db, ledger, today>>
      /\ draft' = [l \in DOMAIN db |-> IF holder[l] = s THEN db[l] ELSE draft[l]]
  BY DEF Rollback
<1>2. DOMAIN db = Rows
  BY DEF Inv, Tables
<1>3. draft' = [l \in Rows |-> IF holder[l] = s THEN db[l] ELSE draft[l]]
  BY <1>1, <1>2
<1>4. draft' = [l \in Rows |-> draft'[l]] /\ \A l \in Rows : draft'[l] \in {db[l], draft[l]}
  BY <1>3
<1>5. Sound(s)'
  BY <1>1, EndedIsSound
<1>6. draft'[Balance] \in Balances
      /\ \A r \in Requests :
            /\ Whole(r, draft'[r], today) /\ draft'[r].status = db[r].status
            /\ db[r].status # "Approved" => draft'[r] = db[r]
  BY <1>4, Names DEF Inv, Tables
<1>7. \A l \in Rows : holder'[l] = Nobody => draft'[l] = db[l]
  BY <1>1, <1>3, EndFacts, Names DEF Inv
<1>8. \A x \in Sessions \ {s} :
        /\ tx'[s].kind = "submission" => tx[x].request # tx'[s].request
        /\ tx[x].kind = "submission" => tx'[s].request # tx[x].request
  BY <1>1, EndedIsSound
<1>9. \A l \in Locks : holder'[l] # holder[l] => {holder[l], holder'[l]} \subseteq {Nobody, s}
  BY <1>1, EndFacts
<1> QED BY <1>1, <1>4, <1>5, <1>6, <1>7, <1>8, <1>9, EndFacts, OwnStep

-----------------------------------------------------------------------------
(* Taking locks *)

LEMMA TakeFacts ==
  ASSUME Inv, NEW s \in Sessions, NEW l \in Locks, NEW hold \in Int, NEW at, Take(s, l, hold, at)
  PROVE  /\ IsTransaction(tx[s])' /\ tx' = [tx EXCEPT ![s] = tx'[s]]
         /\ tx'[s].kind = tx[s].kind /\ tx'[s].request = tx[s].request
         /\ tx'[s].asOf = tx[s].asOf /\ tx'[s].at = at /\ tx'[s].todo = tx[s].todo
         /\ tx'[s].posted = tx[s].posted
         /\ holder' \in [Locks -> Sessions \cup {Nobody}] /\ holder'[l] = s
         /\ \A k \in Locks : k # l => holder'[k] = holder[k]
         /\ holder[l] \in {Nobody, s}
         /\ UNCHANGED <<db, draft, ledger, today>>
<1> DEFINE t == tx[s]
           u == [t EXCEPT !.hold = hold, !.at = at]
<1>1. IsTransaction(t) /\ tx = [x \in Sessions |-> tx[x]]
      /\ holder \in [Locks -> Sessions \cup {Nobody}]
  BY SoundWork
<1>2. tx'[s] = u /\ tx' = [tx EXCEPT ![s] = tx'[s]]
  BY <1>1 DEF Take
<1>3. u = [t EXCEPT !.hold = hold, !.at = at]
  OBVIOUS
<1> HIDE DEF u
<1>4. /\ IsTransaction(u) /\ u.kind = t.kind /\ u.request = t.request /\ u.asOf = t.asOf
      /\ u.at = at /\ u.todo = t.todo /\ u.posted = t.posted
  BY <1>1, <1>3 DEF IsTransaction
<1>5. /\ holder' \in [Locks -> Sessions \cup {Nobody}] /\ holder'[l] = s
      /\ \A k \in Locks : k # l => holder'[k] = holder[k]
      /\ holder[l] \in {Nobody, s} /\ UNCHANGED <<db, draft, ledger, today>>
  BY <1>1 DEF Take, Free
<1>6. IsTransaction(tx[s])'
  BY <1>2, <1>4
<1> QED BY <1>2, <1>4, <1>5, <1>6

LEMMA TakeIsFine ==
  ASSUME Inv, NEW s \in Sessions, NEW l \in Locks, NEW hold \in Int, NEW at, Take(s, l, hold, at),
         tx[s].at \in {"type", "request", "original"}, at \in {"original", "candidates", "read", "commit"},
         Staged(tx[s])', Knows(s)', Holds(s)'
  PROVE  Inv'
<1>1. /\ IsTransaction(tx[s])' /\ tx' = [tx EXCEPT ![s] = tx'[s]]
      /\ tx'[s].kind = tx[s].kind /\ tx'[s].request = tx[s].request
      /\ tx'[s].asOf = tx[s].asOf /\ tx'[s].at = at /\ tx'[s].todo = tx[s].todo
      /\ tx'[s].posted = tx[s].posted
      /\ holder' \in [Locks -> Sessions \cup {Nobody}] /\ holder'[l] = s
      /\ \A k \in Locks : k # l => holder'[k] = holder[k]
      /\ holder[l] \in {Nobody, s}
      /\ UNCHANGED <<db, draft, ledger, today>>
  BY TakeFacts
<1>2. tx[s].todo = {} /\ (Open(s) => tx[s].asOf <= today /\ today <= tx[s].asOf + 1)
  BY SoundWork DEF Staged
<1>3. ToDo(tx[s])' /\ Writes(tx[s])'
  BY <1>1, <1>2 DEF ToDo, Writes, Saves
<1>4. Open(s)' => tx'[s].asOf <= today' /\ today' <= tx'[s].asOf + 1
  BY <1>1, <1>2 DEF Open
<1>5. Sound(s)'
  BY <1>1, <1>3, <1>4 DEF Sound
<1>6. \A x \in Sessions \ {s} :
        /\ tx'[s].kind = "submission" => tx[x].request # tx'[s].request
        /\ tx[x].kind = "submission" => tx'[s].request # tx[x].request
  BY <1>1 DEF Inv
<1>7. /\ draft' = [k \in Rows |-> draft'[k]] /\ draft'[Balance] \in Balances
      /\ \A q \in Requests :
            /\ Whole(q, draft'[q], today) /\ draft'[q].status = db[q].status
            /\ db[q].status # "Approved" => draft'[q] = db[q]
  BY <1>1 DEF Inv, Tables
<1>8. \A k \in Rows : holder'[k] = Nobody => draft'[k] = db[k]
  BY <1>1, Names DEF Inv
<1>9. \A k \in Locks : holder'[k] # holder[k] => {holder[k], holder'[k]} \subseteq {Nobody, s}
  BY <1>1
<1> QED BY <1>1, <1>5, <1>6, <1>7, <1>8, <1>9, OwnStep

LEMMA LockTypeIsFine ==
  ASSUME Inv, NEW s \in Sessions, LockType(s)
  PROVE  Inv'
<1>1. tx[s].at = "type" /\ Take(s, TypeLock, 0, "candidates") /\ TypeLock \in Locks /\ 0 \in Int
  BY DEF LockType, Locks
<1>2. Staged(tx[s]) /\ Knows(s) /\ Holds(s) /\ tx[s].kind = "submission"
  BY <1>1, SoundWork DEF Stages, Kinds
<1>3. /\ tx'[s].kind = tx[s].kind /\ tx'[s].request = tx[s].request
      /\ tx'[s].asOf = tx[s].asOf /\ tx'[s].at = "candidates" /\ tx'[s].todo = tx[s].todo
      /\ tx'[s].posted = tx[s].posted /\ UNCHANGED <<db, draft, ledger, today>>
      /\ \A k \in Locks : k # TypeLock => holder'[k] = holder[k]
  BY <1>1, TakeFacts
<1>4. Staged(tx[s])'
  BY <1>1, <1>2, <1>3 DEF Staged, Stages, Kinds
<1>5. Knows(s)'
  BY <1>2, <1>3 DEF Knows, Decides
<1>6. Holds(s)'
  BY <1>1, <1>2, <1>3, Names DEF Holds
<1> QED BY <1>1, <1>4, <1>5, <1>6, TakeIsFine

LEMMA LockRequestIsFine ==
  ASSUME Inv, NEW s \in Sessions, LockRequest(s)
  PROVE  Inv'
<1> DEFINE t == tx[s]
           r == t.request
           q == db[r]
           o == Original[r]
           ok == \/ q.status = "Pending"
                 \/ /\ t.kind = "cancellation" /\ q.status = "Approved"
                    /\ ~HasStarted(r, q, t.asOf)
                    /\ \A x \in Requests : Original[x] = r => db[x].status # "Pending"
           next == IF t.kind = "cancellation" THEN "read"
                   ELSE IF o = NoRequest THEN "commit" ELSE "original"
           hold == IF t.kind = "cancellation" THEN -q.held ELSE 0
<1>1. /\ t.at = "request" /\ Free(r, s)
      /\ Rollback(s) \/ (ok /\ Take(s, r, hold, next))
  BY DEF LockRequest
<1>2. /\ Staged(t) /\ Knows(s) /\ Holds(s) /\ t.kind \in {"cancellation", "approval"}
      /\ t.asOf \in Nat /\ r \in Requests
  BY <1>1, SoundWork DEF Staged, Stages, Kinds
<1>3. CASE Rollback(s)
  BY <1>3, RollbackIsFine
<1>4. CASE ok /\ Take(s, r, hold, next)
  <2>1. q.held \in Nat
    BY <1>2, WholeIsTyped DEF Inv, Tables
  <2>2. hold \in Int /\ r \in Locks /\ next \in {"original", "read", "commit"}
    <3>1. -q.held \in Int
      BY <2>1
    <3>2. hold \in Int
      BY <3>1
    <3> QED BY <1>2, <3>2, Names
  <2>3. q.status = "Pending"
        \/ (t.kind = "cancellation" /\ q.status = "Approved" /\ t.asOf < FirstDay(r))
    <3>1. ~HasStarted(r, q, t.asOf) => t.asOf < FirstDay(r)
      BY <1>2, DaysAreDays DEF HasStarted
    <3> QED BY <1>4, <3>1
  <2>4. t.kind = "approval" /\ next # "commit" => o # NoRequest /\ next = "original"
    BY <1>2
  <2>5. t.kind = "cancellation" <=> next = "read"
    BY <1>2
  <2> HIDE DEF hold, next, ok
  <2>6. /\ tx'[s].kind = t.kind /\ tx'[s].request = r
        /\ tx'[s].asOf = t.asOf /\ tx'[s].at = next /\ tx'[s].todo = t.todo
        /\ tx'[s].posted = t.posted /\ UNCHANGED <<db, draft, ledger, today>>
        /\ holder'[r] = s /\ \A k \in Locks : k # r => holder'[k] = holder[k]
    BY <1>4, <2>2, TakeFacts
  <2>7. Staged(tx[s])'
    BY <1>1, <1>2, <2>2, <2>4, <2>5, <2>6 DEF Staged, Stages, Kinds
  <2>8. Knows(s)'
    <3>1. t.kind = "approval" /\ next \notin {"request", "original"} => o = NoRequest
      BY <1>2, <2>2, <2>5 DEF next
    <3> QED BY <1>1, <1>2, <2>3, <2>6, <3>1 DEF Knows, Decides
  <2>9. Holds(s)'
    <3>1. \A k \in Locks : k # r => holder'[k] # s
      BY <1>1, <1>2, <2>6 DEF Holds
    <3>2. db[r].status # "Absent" /\ r # Balance
      BY <1>2, Names DEF Knows, Decides
    <3> QED BY <1>2, <2>2, <2>6, <3>1, <3>2, Names DEF Holds, Decides
  <2> QED BY <1>1, <1>4, <2>2, <2>7, <2>8, <2>9, TakeIsFine
<1> QED BY <1>1, <1>3, <1>4

\* The original of a change that is not refused yet has been approved once.
LEMMA LockOriginalIsFine ==
  ASSUME Inv, NEW s \in Sessions, LockOriginal(s)
  PROVE  Inv'
<1> DEFINE t == tx[s]
           r == t.request
           o == Original[r]
           next == IF db[o].status = "Approved" THEN "candidates" ELSE "commit"
<1>1. t.at = "original" /\ Take(s, o, 0, next)
  BY DEF LockOriginal
<1>2. /\ Staged(t) /\ Knows(s) /\ Holds(s) /\ t.kind = "approval"
      /\ r \in Requests /\ o \in Requests /\ o \in Locks /\ 0 \in Int
  BY <1>1, SoundWork, Names DEF Staged, Stages, Kinds
<1>3. db[r].status # "Absent" /\ db[o].status # "Absent" /\ holder[r] = s /\ db[r].status = "Pending"
  <2>1. db[r].status # "Absent" /\ holder[r] = s /\ db[r].status = "Pending"
    BY <1>1, <1>2 DEF Knows, Decides
  <2>2. db[o].status # "Absent"
    BY <1>2, <2>1, Names DEF Inv, Tables
  <2> QED BY <2>1, <2>2
<1>4. next \in {"candidates", "commit"} /\ (next # "candidates" => db[o].status # "Approved")
      /\ (next = "commit" => db[o].status # "Approved")
  OBVIOUS
<1> HIDE DEF next
<1>5. /\ tx'[s].kind = t.kind /\ tx'[s].request = r
      /\ tx'[s].asOf = t.asOf /\ tx'[s].at = next /\ tx'[s].todo = t.todo
      /\ tx'[s].posted = t.posted /\ UNCHANGED <<db, draft, ledger, today>>
      /\ holder'[o] = s /\ \A k \in Locks : k # o => holder'[k] = holder[k]
  BY <1>1, <1>2, TakeFacts
<1>6. Staged(tx[s])'
  BY <1>1, <1>2, <1>4, <1>5, Names DEF Staged, Stages, Kinds
<1>7. Knows(s)'
  <2>1. holder'[r] = s
    BY <1>2, <1>3, <1>5, Names
  <2> QED BY <1>2, <1>3, <1>4, <1>5, <2>1 DEF Knows, Decides
<1>8. Holds(s)'
  <2> SUFFICES ASSUME NEW l \in Locks, holder'[l] = s
               PROVE  /\ l # Balance
                      /\ l \in Requests =>
                           /\ db[l].status # "Absent"
                           /\ (Decides(t) /\ l = r) \/ l = o
    BY <1>2, <1>4, <1>5 DEF Holds, Decides
  <2>1. CASE l = o
    BY <1>2, <1>3, <2>1, Names
  <2>2. CASE l # o
    <3>1. holder[l] = s
      BY <1>5, <2>2
    <3>2. t.posted = {}
      BY <1>1, <1>2 DEF Staged
    <3> QED BY <1>1, <1>2, <2>2, <3>1, <3>2 DEF Holds
  <2> QED BY <2>1, <2>2
<1> QED BY <1>1, <1>2, <1>4, <1>6, <1>7, <1>8, TakeIsFine

-----------------------------------------------------------------------------
(* Reading *)

LEMMA VisibleRows ==
  ASSUME Inv, NEW s
  PROVE  /\ Visible(s, Balance) \in Balances
         /\ \A r \in Requests :
              Whole(r, Visible(s, r), today) /\ Visible(s, r).status = db[r].status
BY DEF Inv, Tables, Visible

LEMMA ReadCandidatesIsFine ==
  ASSUME Inv, NEW s \in Sessions, ReadCandidates(s)
  PROVE  Inv'
<1> DEFINE copies == [r \in Requests |-> Visible(s, r)]
           todo == {r \in Requests : Elapsed(r, copies[r], tx[s].asOf) # {}}
           hold == IF tx[s].kind = "submission" THEN Cardinality(LeaveDays[tx[s].request]) ELSE 0
           t == [tx[s] EXCEPT !.copies = copies, !.todo = todo, !.hold = hold]
           u == Onward(t)
<1>1. /\ IsTransaction(tx[s]) /\ Staged(tx[s]) /\ tx[s].at = "candidates"
      /\ tx[s].kind \in {"refresh", "submission", "approval"}
      /\ tx = [x \in Sessions |-> tx[x]]
  BY SoundWork DEF ReadCandidates, Stages, Kinds
<1>2. tx'[s] = u /\ tx' = [tx EXCEPT ![s] = tx'[s]] /\ UNCHANGED <<db, draft, ledger, today, holder>>
  BY <1>1 DEF ReadCandidates
<1>3. hold \in Int
  <2>1. tx[s].kind = "submission" => tx[s].request \in Requests
    BY <1>1 DEF Staged
  <2> QED BY <2>1, DaysAreDays, FS_CardinalityType
<1>4. t = [tx[s] EXCEPT !.copies = copies, !.todo = todo, !.hold = hold]
  OBVIOUS
<1>5. \A r \in todo : /\ Whole(r, copies[r], today) /\ copies[r].status = "Approved"
                      /\ db[r].status = "Approved" /\ Elapsed(r, copies[r], tx[s].asOf) # {}
  <2> SUFFICES ASSUME NEW r \in todo
               PROVE  /\ Whole(r, copies[r], today) /\ copies[r].status = "Approved"
                      /\ db[r].status = "Approved" /\ Elapsed(r, copies[r], tx[s].asOf) # {}
    OBVIOUS
  <2>1. Elapsed(r, copies[r], tx[s].asOf) # {} /\ r \in Requests /\ copies[r] = Visible(s, r)
    OBVIOUS
  <2>2. copies[r].status = "Approved"
    BY <2>1 DEF Elapsed
  <2> HIDE DEF copies
  <2> QED BY <2>1, <2>2, VisibleRows
<1>6. todo \subseteq Requests
  OBVIOUS
<1> HIDE DEF u, t, todo, hold, copies
<1>7. /\ IsTransaction(t) /\ t.kind = tx[s].kind /\ t.request = tx[s].request
      /\ t.asOf = tx[s].asOf /\ t.posted = tx[s].posted /\ t.todo = todo /\ t.copies = copies
  BY <1>1, <1>3, <1>4 DEF IsTransaction
<1>8. ToDo(t)
  BY <1>5, <1>6, <1>7 DEF ToDo, DaysElapsed
<1>9. /\ t.kind = "refresh" => t.request = NoRequest
      /\ t.kind # "refresh" => t.request \in Requests
      /\ t.kind = "approval" => Original[t.request] # NoRequest
  BY <1>1, <1>7 DEF Staged, Kinds
<1>10. /\ IsTransaction(u) /\ Staged(u) /\ ToDo(u) /\ Writes(u)
       /\ u.kind = t.kind /\ u.request = t.request /\ u.asOf = t.asOf /\ u.posted = t.posted
       /\ u.at \in {"read", "reselect", "check", "commit"}
       /\ u.kind = "approval" /\ u.todo = {} => u.at = "check"
  BY <1>1, <1>7, <1>8, <1>9, OnwardIsFine DEF u
<1>11. IsTransaction(tx[s])' /\ Staged(tx[s])'
  BY <1>2, <1>10
<1>12. ToDo(tx[s])'
  BY <1>2, <1>10 DEF ToDo
<1>13. Writes(tx[s])'
  BY <1>2, <1>10
<1> QED BY <1>1, <1>2, <1>7, <1>10, <1>11, <1>12, <1>13, PlainStep

LEMMA CheckOriginalIsFine ==
  ASSUME Inv, NEW s \in Sessions, CheckOriginal(s)
  PROVE  Inv'
<1> DEFINE t == tx[s]
           r == t.request
           o == Original[r]
           q == Visible(s, o)
           u == [t EXCEPT !.hold = -q.held, !.at = "read"]
<1>1. /\ IsTransaction(t) /\ Staged(t) /\ t.at = "check" /\ t.kind = "approval" /\ ToDo(t)
      /\ r \in Requests /\ o \in Requests /\ t.asOf \in Nat
      /\ tx = [x \in Sessions |-> tx[x]]
  BY SoundWork, Names DEF CheckOriginal, Staged, Stages, Kinds
<1>2. CASE HasStarted(o, q, t.asOf)
  BY <1>2, RollbackIsFine DEF CheckOriginal
<1>3. CASE ~HasStarted(o, q, t.asOf)
  <2>1. tx'[s] = u /\ tx' = [tx EXCEPT ![s] = tx'[s]] /\ UNCHANGED <<db, draft, ledger, today, holder>>
    BY <1>1, <1>3 DEF CheckOriginal
  <2>2. t.asOf < FirstDay(o)
    BY <1>1, <1>3, DaysAreDays DEF HasStarted
  <2>3. -q.held \in Int
    <3>1. q.held \in Nat
      BY <1>1, VisibleRows, WholeIsTyped
    <3> QED BY <3>1
  <2>4. u = [t EXCEPT !.hold = -q.held, !.at = "read"]
    OBVIOUS
  <2> HIDE DEF u, q
  <2>5. /\ IsTransaction(u) /\ u.kind = t.kind /\ u.request = r /\ u.asOf = t.asOf
        /\ u.at = "read" /\ u.todo = t.todo /\ u.copies = t.copies /\ u.posted = t.posted
    BY <1>1, <2>3, <2>4 DEF IsTransaction
  <2>6. Staged(u) /\ Writes(u) /\ u.todo = {}
    BY <1>1, <2>5, Names DEF Staged, Stages, Kinds, Writes, Saves
  <2>7. IsTransaction(tx[s])' /\ Staged(tx[s])' /\ Writes(tx[s])'
    BY <2>1, <2>5, <2>6
  <2>8. ToDo(tx[s])'
    BY <2>1, <2>6 DEF ToDo
  <2> QED BY <1>1, <2>1, <2>2, <2>5, <2>7, <2>8, PlainStep
<1> QED BY <1>2, <1>3

\* The balance with one change has columns of its kind, unless it is refused.
LEMMA ChangeIsTyped ==
  ASSUME Inv, NEW s \in Sessions
  PROVE  LET c == Change(tx[s])
         IN  c.onHold \in Int /\ c.spent \in {0, 1} /\ c.occurred \in Nat \cup {NoDay}
<1> DEFINE t == tx[s]
           c == Change(t)
<1>1. IsTransaction(t) /\ ToDo(t)
  BY SoundWork
<1>2. CASE Spends(t)
  <2>1. c = [onHold |-> -1, spent |-> 1, occurred |-> Min(DaysLeft(t))]
    BY <1>2 DEF Change
  <2>2. Current(t) \in Requests
    BY <1>1, <1>2, CurrentIsToDo DEF ToDo, Spends
  <2>3. DaysLeft(t) \subseteq Nat /\ DaysLeft(t) # {}
    BY <1>2, <2>2, DaysAreDays DEF Spends, DaysLeft, DaysElapsed, Elapsed
  <2>4. Min(DaysLeft(t)) \in Nat
    BY <2>3, LeastIsLeast
  <2> HIDE DEF c
  <2>5. c.onHold = -1 /\ c.spent = 1 /\ c.occurred \in Nat
    BY <2>1, <2>4
  <2> QED BY <2>5 DEF c
<1>3. CASE ~Spends(t)
  <2>1. c = [onHold |-> t.hold, spent |-> 0, occurred |-> NoDay]
    BY <1>3 DEF Change
  <2> HIDE DEF c
  <2>2. c.onHold \in Int /\ c.spent = 0 /\ c.occurred = NoDay
    BY <1>1, <2>1 DEF IsTransaction
  <2> QED BY <2>2 DEF c
<1> QED BY <1>2, <1>3

LEMMA ReadBalanceIsFine ==
  ASSUME Inv, NEW s \in Sessions, ReadBalance(s)
  PROVE  Inv'
<1> DEFINE t == tx[s]
           b == Visible(s, Balance)
           c == Change(t)
           next == [onHold |-> b.onHold + c.onHold, spent |-> b.spent + c.spent,
                    updatedAt |-> c.occurred]
           u == [t EXCEPT !.value = next, !.at = "reselect"]
<1>1. /\ IsTransaction(t) /\ Staged(t) /\ ToDo(t) /\ Writes(t) /\ Knows(s) /\ t.at = "read"
      /\ tx = [x \in Sessions |-> tx[x]]
  BY SoundWork DEF ReadBalance
<1>2. CASE next.onHold < 0
  BY <1>2, RollbackIsFine DEF ReadBalance
<1>3. CASE ~(next.onHold < 0)
  <2>1. tx'[s] = u /\ tx' = [tx EXCEPT ![s] = tx'[s]] /\ UNCHANGED <<db, draft, ledger, today, holder>>
    BY <1>1, <1>3 DEF ReadBalance
  <2>2. next \in Balances
    <3>1. b.onHold \in Nat /\ b.spent \in Nat
      BY VisibleRows DEF Balances
    <3>2. c.onHold \in Int /\ c.spent \in {0, 1} /\ c.occurred \in Nat \cup {NoDay}
      BY ChangeIsTyped
    <3> HIDE DEF b, c
    <3>3. b.onHold + c.onHold \in Nat /\ b.spent + c.spent \in Nat
      BY <1>3, <3>1, <3>2
    <3> QED BY <3>2, <3>3 DEF Balances
  <2>3. u = [t EXCEPT !.value = next, !.at = "reselect"]
    OBVIOUS
  <2> HIDE DEF u, next
  <2>4. /\ IsTransaction(u) /\ u.kind = t.kind /\ u.request = t.request /\ u.asOf = t.asOf
        /\ u.at = "reselect" /\ u.todo = t.todo /\ u.copies = t.copies /\ u.posted = t.posted
        /\ u.value = next
    BY <1>1, <2>3 DEF IsTransaction
  <2>5. ~Saves(u)
    BY <1>1, <2>4, SameWork DEF Writes
  <2>6. Staged(u) /\ Writes(u)
    BY <1>1, <2>2, <2>4, <2>5, Names DEF Staged, Stages, Kinds, Writes
  <2>7. IsTransaction(tx[s])' /\ Staged(tx[s])' /\ Writes(tx[s])'
    BY <2>1, <2>4, <2>6
  <2>8. ToDo(tx[s])'
    BY <1>1, <2>1, <2>4 DEF ToDo, DaysElapsed
  <2>9. t.kind = "approval" /\ t.todo = {} /\ db[Original[t.request]].status = "Approved"
        => t.asOf < FirstDay(Original[t.request])
    BY <1>1 DEF Knows, Staged
  <2> QED BY <1>1, <2>1, <2>4, <2>7, <2>8, <2>9, PlainStep
<1> QED BY <1>2, <1>3

-----------------------------------------------------------------------------
(* Saving *)

\* What is saved where, and that it is of the row's kind.
LEMMA TargetFacts ==
  ASSUME Inv, NEW s \in Sessions, tx[s].at \in {"reselect", "update"}
  PROVE  LET t == tx[s]
             l == Target(t)
         IN  /\ l \in Rows /\ l \in Locks
             /\ Saves(t) => /\ l = Current(t) /\ l \in Requests /\ l # Balance
                            /\ db[l].status = "Approved"
                            /\ Whole(l, t.value, today) /\ t.value.status = "Approved"
                            /\ t.posted # {} /\ FirstDay(l) < t.asOf
             /\ ~Saves(t) => l = Balance /\ t.value \in Balances
<1> DEFINE t == tx[s]
           l == Target(t)
<1>1. /\ IsTransaction(t) /\ Staged(t) /\ ToDo(t) /\ Writes(t)
      /\ today \in Nat /\ t.asOf \in Nat
      /\ t.kind # "none" => t.asOf <= today
  BY SoundWork DEF Open
<1>2. CASE Saves(t)
  <2> DEFINE q == t.copies[l]
  <2>1. l = Current(t) /\ l \in t.todo /\ l \in Requests /\ t.posted # {} /\ FirstDay(l) < t.asOf
    BY <1>1, <1>2, SavesAfterPosting DEF Target
  <2>2. Whole(l, q, today) /\ q.status = "Approved" /\ db[l].status = "Approved"
    BY <1>1, <2>1 DEF ToDo
  <2>3. t.value = Saved(q, Elapsed(l, q, t.asOf))
    BY <1>1, <1>2, <2>1 DEF Writes, DaysElapsed
  <2>4. t.asOf <= today
    BY <1>1 DEF Staged, Stages, Kinds
  <2> HIDE DEF l, q
  <2>5. Whole(l, t.value, today) /\ t.value.status = "Approved"
    <3> DEFINE w == Saved(q, Elapsed(l, q, t.asOf))
    <3>1. Whole(l, w, today) /\ w.status = "Approved"
      BY <1>1, <2>1, <2>2, <2>4, SavedIsWhole
    <3> HIDE DEF w
    <3>2. t.value = w
      BY <2>3 DEF w
    <3> QED BY <3>1, <3>2
  <2>6. l # Balance /\ l \in Rows /\ l \in Locks
    BY <2>1, Names
  <2> QED BY <1>2, <2>1, <2>2, <2>5, <2>6 DEF l
<1>3. CASE ~Saves(t)
  <2>1. l = Balance
    BY <1>3 DEF Target
  <2>2. t.value \in Balances
    BY <1>1, <1>3 DEF Writes
  <2> QED BY <1>3, <2>1, <2>2, Names
<1> QED BY <1>2, <1>3

\* A change of a leave that has got as far as to save knows that leave ahead.
LEMMA SwapIsAhead ==
  ASSUME Inv, NEW s \in Sessions, tx[s].at \in {"reselect", "update"},
         tx[s].kind = "approval", tx[s].todo = {},
         db[Original[tx[s].request]].status = "Approved"
  PROVE  tx[s].asOf < FirstDay(Original[tx[s].request])
<1>1. Staged(tx[s]) /\ Knows(s)
  BY SoundWork
<1>2. Original[tx[s].request] # NoRequest
  BY <1>1 DEF Staged
<1> QED BY <1>1, <1>2 DEF Knows

LEMMA ReselectIsFine ==
  ASSUME Inv, NEW s \in Sessions, Reselect(s)
  PROVE  Inv'
<1> DEFINE t == tx[s]
           l == Target(t)
           columns == Stale(Visible(s, l), t.value)
<1>1. /\ IsTransaction(t) /\ Staged(t) /\ ToDo(t) /\ Writes(t) /\ t.at = "reselect"
      /\ tx = [x \in Sessions |-> tx[x]]
  BY SoundWork DEF Reselect
<1>2. UNCHANGED <<db, draft, ledger, today, holder>>
  BY DEF Reselect
<1>3. CASE columns = {}
  <2> DEFINE u == Done(t)
  <2>1. tx'[s] = u /\ tx' = [tx EXCEPT ![s] = tx'[s]]
    BY <1>1, <1>3 DEF Reselect
  <2>2. /\ IsTransaction(u) /\ Staged(u) /\ ToDo(u) /\ Writes(u)
        /\ u.kind = t.kind /\ u.request = t.request /\ u.asOf = t.asOf
        /\ t.posted \subseteq u.posted
        /\ u.at \in {"read", "reselect", "check", "commit"}
        /\ u.kind = "approval" /\ u.todo = {} => u.at = "check" \/ t.todo = {}
    BY <1>1, DoneIsFine
  <2> HIDE DEF u
  <2>3. IsTransaction(tx[s])' /\ Staged(tx[s])' /\ Writes(tx[s])'
    BY <2>1, <2>2
  <2>4. ToDo(tx[s])'
    BY <1>2, <2>1, <2>2 DEF ToDo
  <2>5. t.kind = "approval" /\ u.at # "check" /\ u.todo = {}
        /\ db[Original[t.request]].status = "Approved"
        => t.asOf < FirstDay(Original[t.request])
    BY <1>1, <2>2, SwapIsAhead
  <2> QED BY <1>1, <1>2, <2>1, <2>2, <2>3, <2>4, <2>5, PlainStep
<1>4. CASE columns # {}
  <2> DEFINE u == [t EXCEPT !.columns = columns, !.at = "update"]
  <2>1. tx'[s] = u /\ tx' = [tx EXCEPT ![s] = tx'[s]]
    BY <1>1, <1>4 DEF Reselect
  <2>2. u = [t EXCEPT !.columns = columns, !.at = "update"]
    OBVIOUS
  <2> HIDE DEF u, columns
  <2>3. /\ IsTransaction(u) /\ u.kind = t.kind /\ u.request = t.request /\ u.asOf = t.asOf
        /\ u.at = "update" /\ u.todo = t.todo /\ u.copies = t.copies /\ u.posted = t.posted
        /\ u.value = t.value /\ u.columns = columns
    BY <1>1, <2>2 DEF IsTransaction
  <2>4. /\ Saves(u) = Saves(t) /\ Current(u) = Current(t)
        /\ \A r : DaysElapsed(u, r) = DaysElapsed(t, r)
    BY <2>3, SameWork
  <2>5. Saves(u) => u.columns = {"consumed", "held"}
    <3> SUFFICES ASSUME Saves(t) PROVE columns = {"consumed", "held"}
      BY <2>3, <2>4
    <3>1. /\ l \in Requests /\ db[l].status = "Approved"
          /\ Whole(l, t.value, today) /\ t.value.status = "Approved"
      BY <1>1, TargetFacts
    <3>2. Whole(l, Visible(s, l), today) /\ Visible(s, l).status = "Approved"
      BY <3>1, VisibleRows
    <3> HIDE DEF l
    <3> QED BY <1>4, <3>1, <3>2, DifferTogether DEF columns
  <2>6. Writes(u)
    BY <1>1, <2>3, <2>4, <2>5 DEF Writes
  <2>7. Staged(u)
    BY <1>1, <2>3 DEF Staged, Stages, Kinds
  <2>8. IsTransaction(tx[s])' /\ Staged(tx[s])' /\ Writes(tx[s])'
    BY <2>1, <2>3, <2>6, <2>7
  <2>9. ToDo(tx[s])'
    BY <1>1, <1>2, <2>1, <2>3 DEF ToDo, DaysElapsed
  <2>10. t.kind = "approval" /\ t.todo = {} /\ db[Original[t.request]].status = "Approved"
         => t.asOf < FirstDay(Original[t.request])
    BY <1>1, SwapIsAhead
  <2> QED BY <1>1, <1>2, <2>1, <2>3, <2>8, <2>9, <2>10, PlainStep
<1> QED BY <1>3, <1>4

\* The UPDATE makes a row of its kind.
LEMMA RowWritten ==
  ASSUME Inv, NEW s \in Sessions, tx[s].at = "update"
  PROVE  LET t == tx[s]
             l == Target(t)
             row == Visible(s, l)
             new == [c \in DOMAIN row |-> IF c \in t.columns THEN t.value[c] ELSE row[c]]
         IN  /\ l = Balance => new \in Balances
             /\ l # Balance => Whole(l, new, today) /\ new.status = "Approved"
<1> DEFINE t == tx[s]
           l == Target(t)
           row == Visible(s, l)
           new == [c \in DOMAIN row |-> IF c \in t.columns THEN t.value[c] ELSE row[c]]
<1>1. /\ l \in Rows
      /\ Saves(t) => /\ l \in Requests /\ l # Balance /\ db[l].status = "Approved"
                     /\ Whole(l, t.value, today) /\ t.value.status = "Approved"
      /\ ~Saves(t) => l = Balance /\ t.value \in Balances
  BY TargetFacts
<1>2. Writes(t)
  BY SoundWork
<1>3. CASE Saves(t)
  <2>1. t.columns = {"consumed", "held"}
    BY <1>2, <1>3 DEF Writes
  <2>2. Whole(l, row, today) /\ row.status = "Approved"
    BY <1>1, <1>3, VisibleRows
  <2> HIDE DEF row, l
  <2>3. new = t.value
    BY <1>1, <1>3, <2>1, <2>2, WrittenTogether
  <2> HIDE DEF new
  <2> QED BY <1>1, <1>3, <2>3 DEF l, row, new
<1>4. CASE ~Saves(t)
  <2>1. row \in Balances /\ t.value \in Balances /\ l = Balance
    BY <1>1, <1>4, VisibleRows
  <2> HIDE DEF row, l
  <2>2. DOMAIN row = {"onHold", "spent", "updatedAt"}
    BY <2>1 DEF Balances
  <2>3. /\ row["onHold"] \in Nat /\ row["spent"] \in Nat /\ row["updatedAt"] \in Nat \cup {NoDay}
        /\ t.value["onHold"] \in Nat /\ t.value["spent"] \in Nat
        /\ t.value["updatedAt"] \in Nat \cup {NoDay}
    BY <2>1 DEF Balances
  <2>4. new = [c \in {"onHold", "spent", "updatedAt"} |-> new[c]]
        /\ new["onHold"] \in Nat /\ new["spent"] \in Nat /\ new["updatedAt"] \in Nat \cup {NoDay}
    BY <2>2, <2>3
  <2> HIDE DEF new
  <2>5. new \in Balances
    BY <2>4 DEF Balances
  <2> QED BY <2>1, <2>5 DEF l, row, new
<1> QED BY <1>3, <1>4

LEMMA UpdateIsFine ==
  ASSUME Inv, NEW s \in Sessions, Update(s)
  PROVE  Inv'
<1> DEFINE t == tx[s]
           r == t.request
           l == Target(t)
           row == Visible(s, l)
           new == [c \in DOMAIN row |-> IF c \in t.columns THEN t.value[c] ELSE row[c]]
           u == Done(t)
<1>1. /\ IsTransaction(t) /\ Staged(t) /\ ToDo(t) /\ Writes(t) /\ Knows(s) /\ Holds(s)
      /\ t.at = "update" /\ t.kind # "none"
      /\ (Open(s) => t.asOf <= today /\ today <= t.asOf + 1)
      /\ tx = [x \in Sessions |-> tx[x]] /\ holder \in [Locks -> Sessions \cup {Nobody}]
  BY SoundWork DEF Update, Stages, Kinds
<1>2. /\ l \in Rows /\ l \in Locks
      /\ l # Balance => /\ l \in Requests /\ db[l].status = "Approved"
                        /\ t.posted # {} /\ FirstDay(l) < t.asOf
  BY <1>1, TargetFacts
<1>3. /\ l = Balance => new \in Balances
      /\ l # Balance => Whole(l, new, today) /\ new.status = "Approved"
  BY <1>1, RowWritten
<1>4. /\ holder[l] \in {Nobody, s} /\ holder' = [holder EXCEPT ![l] = s]
      /\ draft' = [draft EXCEPT ![l] = new] /\ tx' = [tx EXCEPT ![s] = u]
      /\ UNCHANGED <<db, ledger, today>>
  BY DEF Update, Free
<1>5. /\ IsTransaction(u) /\ Staged(u) /\ ToDo(u) /\ Writes(u)
      /\ u.kind = t.kind /\ u.request = t.request /\ u.asOf = t.asOf
      /\ t.posted \subseteq u.posted
      /\ u.at \in {"read", "reselect", "check", "commit"}
      /\ u.kind = "approval" /\ u.todo = {} => u.at = "check" \/ t.todo = {}
  BY <1>1, DoneIsFine
<1>6. t.kind = "approval" /\ t.todo = {} /\ db[Original[r]].status = "Approved"
      => t.asOf < FirstDay(Original[r])
  BY <1>1, SwapIsAhead
<1> HIDE DEF u, new, row, l
<1>7. tx'[s] = u /\ tx' = [tx EXCEPT ![s] = tx'[s]]
  BY <1>1, <1>4
<1>8. /\ holder' \in [Locks -> Sessions \cup {Nobody}] /\ holder'[l] = s
      /\ \A k \in Locks : k # l => holder'[k] = holder[k]
      /\ \A k \in Locks : holder[k] = s => holder'[k] = s
  BY <1>1, <1>2, <1>4
<1>9. draft' = [k \in Rows |-> draft'[k]] /\ draft'[l] = new
      /\ \A k \in Rows : k # l => draft'[k] = draft[k]
  BY <1>2, <1>4 DEF Inv, Tables
<1>10. IsTransaction(tx[s])' /\ Staged(tx[s])' /\ Writes(tx[s])'
  BY <1>5, <1>7
<1>11. ToDo(tx[s])'
  BY <1>4, <1>5, <1>7 DEF ToDo
<1>12. Open(s)' => tx'[s].asOf <= today' /\ today' <= tx'[s].asOf + 1
  BY <1>1, <1>4, <1>5, <1>7 DEF Open
<1>13. Knows(s)'
  <2>1. /\ t.kind = "submission" => db[r].status = "Absent" /\ Original[r] = NoRequest
        /\ Decides(t) => /\ db[r].status # "Absent" /\ holder[r] = s /\ r \in Locks
                         /\ \/ db[r].status = "Pending"
                            \/ t.kind = "cancellation" /\ db[r].status = "Approved" /\ t.asOf < FirstDay(r)
        /\ t.kind = "approval" => holder[Original[r]] = s /\ Original[r] \in Locks
    BY <1>1, Names DEF Knows, Decides, Staged
  <2>2. /\ Decides(t) => holder'[r] = s
        /\ t.kind = "approval" => holder'[Original[r]] = s
    BY <1>8, <2>1
  <2>3. t.kind = "approval" /\ u.at # "check" /\ u.todo = {} /\ db[Original[r]].status = "Approved"
        => t.asOf < FirstDay(Original[r])
    BY <1>5, <1>6
  <2> QED BY <1>4, <1>5, <1>7, <2>1, <2>2, <2>3 DEF Knows, Decides
<1>14. Holds(s)'
  <2> SUFFICES ASSUME NEW k \in Locks, holder'[k] = s, k \in Requests
               PROVE  /\ db[k].status # "Absent"
                      /\ \/ Decides(t) /\ k = r
                         \/ t.kind = "approval" /\ k = Original[r]
                         \/ u.posted # {} /\ FirstDay(k) < t.asOf
    BY <1>4, <1>5, <1>7 DEF Holds, Decides
  <2>1. CASE k = l
    <3>1. k # Balance
      BY Names
    <3> QED BY <1>2, <1>5, <2>1, <3>1
  <2>2. CASE k # l
    <3>1. holder[k] = s
      BY <1>8, <2>2
    <3> QED BY <1>1, <1>5, <3>1 DEF Holds
  <2> QED BY <2>1, <2>2
<1>15. Sound(s)'
  BY <1>10, <1>11, <1>12, <1>13, <1>14 DEF Sound
<1>16. \A x \in Sessions \ {s} :
         /\ tx'[s].kind = "submission" => tx[x].request # tx'[s].request
         /\ tx[x].kind = "submission" => tx'[s].request # tx[x].request
  BY <1>5, <1>7 DEF Inv
<1>17. draft'[Balance] \in Balances
  <2>1. draft[Balance] \in Balances
    BY DEF Inv, Tables
  <2> QED BY <1>3, <1>9, <2>1, Names
<1>18. ASSUME NEW q \in Requests
       PROVE  /\ Whole(q, draft'[q], today) /\ draft'[q].status = db[q].status
              /\ db[q].status # "Approved" => draft'[q] = db[q]
  <2>1. q \in Rows /\ q # Balance
    BY Names
  <2>2. CASE q = l
    BY <1>2, <1>3, <1>9, <2>1, <2>2
  <2>3. CASE q # l
    <3>1. draft'[q] = draft[q]
      BY <1>9, <2>1, <2>3
    <3> QED BY <3>1 DEF Inv, Tables
  <2> QED BY <2>2, <2>3
<1>19. \A k \in Rows : holder'[k] = Nobody => draft'[k] = db[k]
  <2>1. \A k \in Rows : k \in Locks /\ (holder[k] = Nobody => draft[k] = db[k])
    BY Names DEF Inv
  <2> QED BY <1>8, <1>9, <2>1, Names
<1>20. \A k \in Locks : holder'[k] # holder[k] => {holder[k], holder'[k]} \subseteq {Nobody, s}
  BY <1>4, <1>8
<1> QED BY <1>4, <1>7, <1>8, <1>9, <1>15, <1>16, <1>17, <1>18, <1>19, <1>20, OwnStep

-----------------------------------------------------------------------------
(* Committing *)

LEMMA ClosedIsWhole ==
  ASSUME NEW r, NEW day, NEW w, w.status \in {"Cancelled", "Superseded"},
         w = [status |-> w.status, consumed |-> w.consumed, held |-> w.held],
         w.consumed = {}, w.held = 0
  PROVE  Whole(r, w, day)
BY DEF Whole, IsActive, Statuses

LEMMA ApprovedIsWhole ==
  ASSUME NEW r \in Requests, NEW day, NEW q, Whole(r, q, day), q.status = "Pending"
  PROVE  LET w == [q EXCEPT !.status = "Approved"]
         IN  Whole(r, w, day) /\ w.status = "Approved"
<1> DEFINE w == [q EXCEPT !.status = "Approved"]
<1>1. q = [status |-> q.status, consumed |-> q.consumed, held |-> q.held] /\ q.consumed = {}
      /\ q.held = Cardinality(LeaveDays[r] \ q.consumed)
  BY DEF Whole, IsActive
<1>2. w = [q EXCEPT !.status = "Approved"]
  OBVIOUS
<1> HIDE DEF w
<1>3. w = [status |-> w.status, consumed |-> w.consumed, held |-> w.held]
      /\ w.status = "Approved" /\ w.consumed = {} /\ w.held = Cardinality(LeaveDays[r] \ w.consumed)
  BY <1>1, <1>2
<1> QED BY <1>3 DEF Whole, IsActive, Statuses, w

LEMMA SubmittedIsWhole ==
  ASSUME NEW r \in Requests, NEW day
  PROVE  LET w == [status |-> "Pending", consumed |-> {}, held |-> Cardinality(LeaveDays[r])]
         IN  Whole(r, w, day) /\ w.status = "Pending"
<1> LeaveDays[r] \ {} = LeaveDays[r]
  OBVIOUS
<1> QED BY DEF Whole, IsActive, Statuses

\* What a committing transaction changes of a request's status: nothing, or it
\* files, calls off, approves or replaces it, having its lock, or the request
\* is not there yet; and of a leave that it ends nothing is consumed.
Moves(s, r, status) ==
  LET t == tx[s]
  IN  \/ /\ status = "Pending" /\ db[r].status = "Absent"
         /\ t.kind = "submission" /\ r = t.request
      \/ /\ status = "Cancelled" /\ holder[r] = s
         /\ db[r].status = "Pending" \/ (db[r].status = "Approved" /\ t.asOf < FirstDay(r))
      \/ /\ status = "Approved" /\ holder[r] = s /\ db[r].status = "Pending"
      \/ /\ status = "Superseded" /\ holder[r] = s
         /\ db[r].status = "Approved" /\ t.asOf < FirstDay(r)

\* By Whole nothing pending is consumed, and by the clock nothing that is ahead.
LEMMA ClosedBeforeItBegins ==
  ASSUME Inv, NEW s \in Sessions, Open(s), NEW r \in Requests,
         db[r].status = "Pending" \/ (db[r].status = "Approved" /\ tx[s].asOf < FirstDay(r))
  PROVE  Visible(s, r).consumed = {}
<1>1. Whole(r, Visible(s, r), today) /\ Visible(s, r).status = db[r].status
  BY VisibleRows
<1>2. tx[s].asOf \in Nat /\ today \in Nat /\ today <= tx[s].asOf + 1
  BY SoundWork
<1>3. CASE db[r].status = "Pending"
  BY <1>1, <1>3 DEF Whole
<1>4. CASE db[r].status = "Approved" /\ tx[s].asOf < FirstDay(r)
  BY <1>1, <1>2, <1>4, UntouchedBefore
<1> QED BY <1>3, <1>4

LEMMA RequestLeft ==
  ASSUME Inv, NEW s \in Sessions, tx[s].at = "commit", NEW r \in Requests
  PROVE  LET w == Left(s, r)
         IN  /\ Whole(r, w, today)
             /\ w = Visible(s, r) \/ Moves(s, r, w.status)
<1> DEFINE t == tx[s]
           q == Visible(s, r)
           o == Original[t.request]
           w == Left(s, r)
<1>1. /\ Staged(t) /\ Knows(s)
      /\ t.kind \in {"refresh", "submission", "cancellation", "approval"} /\ Open(s) /\ t.todo = {}
  BY SoundWork DEF Staged, Stages, Kinds, Open
<1>2. Whole(r, q, today) /\ q.status = db[r].status
  BY VisibleRows
<1>3. CASE r # t.request /\ ~(t.kind = "approval" /\ r = o /\ q.status = "Approved")
  <2>1. w = q
    BY <1>3 DEF Left
  <2> QED BY <1>2, <2>1
<1>4. CASE r # t.request /\ t.kind = "approval" /\ r = o /\ q.status = "Approved"
  <2> DEFINE v == [q EXCEPT !.status = "Superseded", !.held = 0]
  <2>1. w = v
    BY <1>4 DEF Left
  <2>2. r # NoRequest
    BY Names
  <2>3. holder[r] = s /\ db[r].status = "Approved" /\ t.asOf < FirstDay(r)
    BY <1>1, <1>2, <1>4, <2>2 DEF Knows
  <2>4. q.consumed = {}
    BY <1>1, <2>3, ClosedBeforeItBegins
  <2>5. v = [q EXCEPT !.status = "Superseded", !.held = 0]
    OBVIOUS
  <2> HIDE DEF q, v, w
  <2>6. Whole(r, v, today) /\ v.status = "Superseded"
    <3>1. q = [status |-> q.status, consumed |-> q.consumed, held |-> q.held]
      BY <1>2 DEF Whole
    <3>2. v = [status |-> v.status, consumed |-> v.consumed, held |-> v.held]
          /\ v.status = "Superseded" /\ v.consumed = {} /\ v.held = 0
      BY <2>4, <2>5, <3>1
    <3> QED BY <3>2, ClosedIsWhole
  <2> QED BY <2>1, <2>3, <2>6 DEF Moves, w
<1>5. CASE r = t.request /\ t.kind = "submission"
  <2> DEFINE v == [status |-> "Pending", consumed |-> {}, held |-> Cardinality(LeaveDays[r])]
  <2>1. w = v
    BY <1>5 DEF Left, Settled
  <2>2. Whole(r, v, today) /\ v.status = "Pending"
    BY SubmittedIsWhole
  <2>3. db[r].status = "Absent"
    BY <1>1, <1>5 DEF Knows
  <2> HIDE DEF v, w
  <2> QED BY <1>5, <2>1, <2>2, <2>3 DEF Moves, w
<1>6. CASE r = t.request /\ t.kind = "cancellation"
  <2> DEFINE v == [q EXCEPT !.status = "Cancelled", !.held = 0]
  <2>1. w = v
    BY <1>6 DEF Left, Settled
  <2>2. holder[r] = s /\ (db[r].status = "Pending" \/ (db[r].status = "Approved" /\ t.asOf < FirstDay(r)))
    BY <1>1, <1>6 DEF Knows, Decides
  <2>3. q.consumed = {}
    BY <1>1, <2>2, ClosedBeforeItBegins
  <2>4. v = [q EXCEPT !.status = "Cancelled", !.held = 0]
    OBVIOUS
  <2> HIDE DEF q, v, w
  <2>5. Whole(r, v, today) /\ v.status = "Cancelled"
    <3>1. q = [status |-> q.status, consumed |-> q.consumed, held |-> q.held]
      BY <1>2 DEF Whole
    <3>2. v = [status |-> v.status, consumed |-> v.consumed, held |-> v.held]
          /\ v.status = "Cancelled" /\ v.consumed = {} /\ v.held = 0
      BY <2>3, <2>4, <3>1
    <3> QED BY <3>2, ClosedIsWhole
  <2> QED BY <2>1, <2>2, <2>5 DEF Moves, w
<1>7. CASE r = t.request /\ t.kind = "approval"
  <2> DEFINE v == [q EXCEPT !.status = "Approved"]
  <2>1. w = v
    BY <1>7 DEF Left, Settled
  <2>2. holder[r] = s /\ db[r].status = "Pending"
    BY <1>1, <1>7 DEF Knows, Decides
  <2> HIDE DEF q
  <2>3. Whole(r, v, today) /\ v.status = "Approved"
    BY <1>2, <2>2, ApprovedIsWhole
  <2> HIDE DEF v, w
  <2> QED BY <2>1, <2>2, <2>3 DEF Moves, w
<1>8. r = t.request => t.kind # "refresh"
  BY <1>1, Names DEF Staged
<1> QED BY <1>1, <1>3, <1>4, <1>5, <1>6, <1>7, <1>8

LEMMA BalanceLeft ==
  ASSUME Inv, NEW s \in Sessions
  PROVE  Left(s, Balance) \in Balances
<1>1. Staged(tx[s])
  BY SoundWork
<1>2. Balance # tx[s].request
  BY <1>1, Names DEF Staged
<1>3. ~(tx[s].kind = "approval" /\ Balance = Original[tx[s].request])
  BY <1>1, Names DEF Staged
<1>4. Left(s, Balance) = Visible(s, Balance)
  BY <1>2, <1>3 DEF Left
<1> QED BY <1>4, VisibleRows

\* The rows after a commit.
LEMMA CommitRows ==
  ASSUME Inv, NEW s \in Sessions, Commit(s)
  PROVE  /\ db' = [l \in Rows |-> db'[l]] /\ draft' = [l \in Rows |-> draft'[l]]
         /\ \A l \in Rows : db'[l] = Left(s, l)
         /\ \A l \in Rows : draft'[l] = IF holder[l] \in Sessions \ {s} THEN draft[l] ELSE db'[l]
         /\ \A r \in Requests :
              /\ Whole(r, db'[r], today)
              /\ db'[r] = Visible(s, r) \/ Moves(s, r, db'[r].status)
              /\ holder[r] \in Sessions \ {s} => db'[r] = db[r]
<1>1. DOMAIN db = Rows
  BY DEF Inv, Tables
<1>2. /\ db' = [l \in Rows |-> Left(s, l)] /\ tx[s].at = "commit"
      /\ draft' = [l \in Rows |-> IF holder[l] \in Sessions \ {s} THEN draft[l] ELSE Left(s, l)]
  BY <1>1 DEF Commit
<1>3. /\ db' = [l \in Rows |-> db'[l]] /\ draft' = [l \in Rows |-> draft'[l]]
      /\ \A l \in Rows : db'[l] = Left(s, l)
      /\ \A l \in Rows : draft'[l] = IF holder[l] \in Sessions \ {s} THEN draft[l] ELSE db'[l]
  BY <1>2
<1>4. ASSUME NEW r \in Requests
      PROVE  Whole(r, db'[r], today) /\ (db'[r] = Visible(s, r) \/ Moves(s, r, db'[r].status))
  <2>1. db'[r] = Left(s, r)
    BY <1>3, Names
  <2> QED BY <1>2, <2>1, RequestLeft
<1>5. ASSUME NEW r \in Requests, holder[r] \in Sessions \ {s} PROVE db'[r] = db[r]
  <2>1. Visible(s, r) = db[r] /\ holder[r] # s
    BY <1>5 DEF Visible
  <2>2. db[r].status # "Absent"
    BY <1>5, SoundWork, Names DEF Holds
  <2>3. ~Moves(s, r, db'[r].status)
    BY <2>1, <2>2 DEF Moves
  <2> QED BY <1>4, <2>1, <2>3
<1> QED BY <1>3, <1>4, <1>5

\* How the status of a request goes on.
LEMMA CommitStatus ==
  ASSUME Inv, NEW s \in Sessions, Commit(s), NEW r \in Requests, db'[r].status # db[r].status
  PROVE  Moves(s, r, db'[r].status)
BY CommitRows, VisibleRows

LEMMA CommitTables ==
  ASSUME Inv, NEW s \in Sessions, Commit(s)
  PROVE  Tables'
<1>1. today' = today
  BY DEF Commit
<1>2. db'[Balance] \in Balances /\ draft'[Balance] \in Balances
  <2>1. db'[Balance] \in Balances
    BY CommitRows, BalanceLeft, Names
  <2>2. draft'[Balance] \in {draft[Balance], db'[Balance]}
    BY CommitRows, Names
  <2>3. draft[Balance] \in Balances
    BY DEF Inv, Tables
  <2> QED BY <2>1, <2>2, <2>3
<1>3. ASSUME NEW r \in Requests
      PROVE  /\ Whole(r, db'[r], today) /\ Whole(r, draft'[r], today)
             /\ draft'[r].status = db'[r].status
             /\ db'[r].status # "Approved" => draft'[r] = db'[r]
  <2>1. r \in Rows /\ Whole(r, db'[r], today)
    BY CommitRows, Names
  <2>2. CASE holder[r] \in Sessions \ {s}
    <3>1. db'[r] = db[r] /\ draft'[r] = draft[r]
      BY <2>1, <2>2, CommitRows
    <3> QED BY <2>1, <3>1 DEF Inv, Tables
  <2>3. CASE holder[r] \notin Sessions \ {s}
    <3>1. draft'[r] = db'[r]
      BY <2>1, <2>3, CommitRows
    <3> QED BY <2>1, <3>1
  <2> QED BY <2>2, <2>3
<1>4. ASSUME NEW r \in Requests, Original[r] # NoRequest, db'[r].status # "Absent"
      PROVE  db'[Original[r]].status \notin {"Absent", "Pending"}
  <2> DEFINE o == Original[r]
  <2>1. o \in Requests
    BY <1>4, Names
  <2>2. db[r].status # "Absent"
    <3> SUFFICES ASSUME db[r].status = "Absent" PROVE FALSE
      OBVIOUS
    <3>1. tx[s].kind = "submission" /\ r = tx[s].request
      BY <1>4, CommitStatus DEF Moves
    <3> QED BY <1>4, <3>1, SoundWork DEF Knows
  <2>3. db[o].status \notin {"Absent", "Pending"}
    BY <1>4, <2>2 DEF Inv, Tables
  <2>4. CASE db'[o].status = db[o].status
    BY <2>3, <2>4
  <2>5. CASE db'[o].status # db[o].status
    <3>1. Moves(s, o, db'[o].status)
      BY <2>1, <2>5, CommitStatus
    <3> QED BY <2>3, <3>1 DEF Moves
  <2> QED BY <2>4, <2>5
<1> QED BY <1>1, <1>2, <1>3, <1>4, CommitRows DEF Tables

\* What others rely upon: their copies are of leaves with a day behind them, and
\* what a commit ends is ahead, a midnight apart at most.
LEMMA CommitOthers ==
  ASSUME Inv, NEW s \in Sessions, Commit(s), NEW y \in Sessions, y # s
  PROVE  Sound(y)'
<1>1. Sound(y)
  BY DEF Inv
<1>2. tx'[y] = tx[y] /\ today' = today /\ End(s)
  BY SoundWork DEF Commit, End
<1>3. \A l \in Locks : holder'[l] = y <=> holder[l] = y
  BY <1>2, EndFacts, Names
<1>4. \A r \in Requests : db[r].status # "Absent" => db'[r].status # "Absent"
  BY CommitStatus DEF Moves
<1>5. ASSUME NEW r \in tx[y].todo PROVE db'[r].status = "Approved"
  <2>1. r \in Requests /\ db[r].status = "Approved" /\ DaysElapsed(tx[y], r) # {}
    BY <1>1 DEF Sound, ToDo
  <2>2. tx[y].asOf \in Nat /\ tx[s].asOf \in Nat /\ today \in Nat
    BY SoundWork
  <2>3. FirstDay(r) < tx[y].asOf /\ FirstDay(r) \in Nat
    BY <2>1, <2>2, ElapsedIsStarted, DaysAreDays DEF DaysElapsed
  <2>4. tx[y].asOf <= today
    <3>1. Open(y)
      BY <1>1, <2>1 DEF Sound, Staged, Open, Stages
    <3> QED BY <3>1, SoundWork
  <2>5. today <= tx[s].asOf + 1
    <3>1. Open(s)
      BY SoundWork DEF Commit, Open, Stages
    <3> QED BY <3>1, SoundWork
  <2>6. ~(tx[s].asOf < FirstDay(r))
    BY <2>2, <2>3, <2>4, <2>5
  <2>7. ~Moves(s, r, db'[r].status)
    BY <2>1, <2>6 DEF Moves
  <2> QED BY <2>1, <2>7, CommitStatus
<1>6. \A r \in Requests : holder[r] = y => db'[r].status = db[r].status
  BY CommitRows
<1>7. ASSUME tx[y].kind = "submission" PROVE db'[tx[y].request].status = "Absent"
  <2>1. tx[y].request \in Requests /\ db[tx[y].request].status = "Absent"
    BY <1>1, <1>7 DEF Sound, Staged, Knows
  <2>2. tx[s].request # tx[y].request
    BY <1>7 DEF Inv
  <2>3. ~Moves(s, tx[y].request, db'[tx[y].request].status)
    BY <2>1, <2>2 DEF Moves
  <2> QED BY <2>1, <2>3, CommitStatus
<1> QED BY <1>1, <1>2, <1>3, <1>4, <1>5, <1>6, <1>7, OthersStaySound

LEMMA CommitIsFine ==
  ASSUME Inv, NEW s \in Sessions, Commit(s)
  PROVE  Inv'
<1>1. End(s) /\ today' = today
      /\ ledger' = [k \in LedgerDays |-> ledger[k] + (IF k \in tx[s].posted THEN 1 ELSE 0)]
  BY DEF Commit
<1>2. tx' = [x \in Sessions |-> tx'[x]] /\ \A x \in Sessions \ {s} : tx'[x] = tx[x]
  BY <1>1, SoundWork DEF End
<1>3. \A x \in Sessions : Sound(x)'
  BY <1>1, CommitOthers, EndedIsSound
<1>4. \A x, y \in Sessions : x # y /\ tx'[x].kind = "submission" => tx'[y].request # tx'[x].request
  BY <1>1, <1>2, EndedIsSound DEF Inv
<1>5. ledger' \in [LedgerDays -> Nat]
  BY <1>1 DEF Inv
<1>6. ASSUME NEW l \in Rows, holder'[l] = Nobody PROVE draft'[l] = db'[l]
  <2>1. holder[l] \notin Sessions \ {s}
    BY <1>1, <1>6, EndFacts, Names
  <2> QED BY <2>1, CommitRows
<1> QED BY <1>1, <1>2, <1>3, <1>4, <1>5, <1>6, CommitTables, EndFacts DEF Inv

-----------------------------------------------------------------------------
(* The clock and the beginning *)

LEMMA MidnightIsFine ==
  ASSUME Inv, Midnight
  PROVE  Inv'
<1>1. /\ today < LastDay /\ today' = today + 1 /\ UNCHANGED <<db, draft, ledger, tx, holder>>
      /\ \A s \in Sessions : Open(s) => tx[s].asOf = today
  BY DEF Midnight
<1>2. today \in Nat /\ today' \in Nat /\ today <= today' /\ today' \in 0..LastDay
  <2>1. LastDay \in Nat /\ today \in 0..LastDay
    BY OrderAssumption DEF Inv
  <2> QED BY <1>1, <2>1
<1>3. \A r \in Requests : \A q : Whole(r, q, today) => Whole(r, q, today')
  BY <1>2, WholeLasts
<1>4. Tables'
  <2>1. \A r \in Requests : Whole(r, db'[r], today') /\ Whole(r, draft'[r], today')
    BY <1>1, <1>3 DEF Inv, Tables
  <2> QED BY <1>1, <2>1 DEF Inv, Tables
<1>5. ASSUME NEW s \in Sessions PROVE Sound(s)'
  <2>1. /\ IsTransaction(tx[s]) /\ Staged(tx[s]) /\ ToDo(tx[s]) /\ Writes(tx[s])
        /\ Knows(s) /\ Holds(s) /\ tx[s].asOf \in Nat
    BY SoundWork
  <2>2. IsTransaction(tx[s])' /\ Staged(tx[s])' /\ Writes(tx[s])'
    BY <1>1, <2>1
  <2>3. ToDo(tx[s])'
    <3>1. tx'[s] = tx[s] /\ tx[s].todo \subseteq Requests
      BY <1>1, <2>1 DEF ToDo
    <3>2. ASSUME NEW r \in tx[s].todo
          PROVE  /\ Whole(r, tx[s].copies[r], today') /\ tx[s].copies[r].status = "Approved"
                 /\ DaysElapsed(tx[s], r) # {} /\ db'[r].status = "Approved"
      BY <1>1, <1>3, <2>1, <3>1 DEF ToDo
    <3> QED BY <3>1, <3>2 DEF ToDo
  <2>4. Knows(s)' /\ Holds(s)'
    BY <1>1, <2>1 DEF Knows, Holds
  <2>5. Open(s)' => tx'[s].asOf <= today' /\ today' <= tx'[s].asOf + 1
    <3> SUFFICES ASSUME Open(s) PROVE tx[s].asOf <= today' /\ today' <= tx[s].asOf + 1
      BY <1>1 DEF Open
    <3>1. tx[s].asOf = today
      BY <1>1
    <3> QED BY <1>1, <1>2, <3>1
  <2> QED BY <2>2, <2>3, <2>4, <2>5 DEF Sound
<1>6. \A s, x \in Sessions :
        s # x /\ tx'[s].kind = "submission" => tx'[x].request # tx'[s].request
  BY <1>1 DEF Inv
<1> QED BY <1>1, <1>2, <1>4, <1>5, <1>6 DEF Inv

LEMMA InitialInv == Init => Inv
<1> SUFFICES ASSUME Init PROVE Inv
  OBVIOUS
<1>1. PICK status \in [Requests -> {"Absent", "Pending", "Approved"}] :
        /\ \A r \in Requests :
            Original[r] # NoRequest /\ status[r] # "Absent"
            => status[r] = "Pending" /\ status[Original[r]] = "Approved"
        /\ LET held(r) == IF status[r] = "Absent" THEN 0 ELSE Cardinality(LeaveDays[r])
               taken == {k \in LedgerDays : status[k[1]] # "Absent"}
           IN  db = [l \in Rows |->
                        IF l = Balance
                        THEN [onHold |-> Cardinality(taken), spent |-> 0, updatedAt |-> NoDay]
                        ELSE [status |-> status[l], consumed |-> {}, held |-> held(l)]]
  BY DEF Init
<1> DEFINE taken == {k \in LedgerDays : status[k[1]] # "Absent"}
           b == [onHold |-> Cardinality(taken), spent |-> 0, updatedAt |-> NoDay]
           q(r) == [status |-> status[r], consumed |-> {},
                    held |-> IF status[r] = "Absent" THEN 0 ELSE Cardinality(LeaveDays[r])]
<1>2. db = [l \in Rows |-> IF l = Balance THEN b ELSE q(l)]
  BY <1>1
<1>3. \A r \in Requests :
        Original[r] # NoRequest /\ status[r] # "Absent"
        => status[r] = "Pending" /\ status[Original[r]] = "Approved"
  BY <1>1
<1>4. b \in Balances
  <2>1. IsFiniteSet(0..LastDay)
    BY OrderAssumption, FS_Interval
  <2>2. IsFiniteSet(Requests \X (0..LastDay))
    BY <2>1, OrderAssumption, FS_Product
  <2>3. taken \subseteq Requests \X (0..LastDay)
    BY DEF LedgerDays
  <2>4. Cardinality(taken) \in Nat
    BY <2>2, <2>3, FS_Subset, FS_CardinalityType
  <2> HIDE DEF taken
  <2> QED BY <2>4 DEF Balances
<1>5. /\ draft = db /\ ledger = [k \in LedgerDays |-> 0] /\ today = 0
      /\ tx = [s \in Sessions |-> Idle] /\ holder = [l \in Locks |-> Nobody]
  BY DEF Init
<1>6. db = [l \in Rows |-> db[l]] /\ db[Balance] = b /\ \A r \in Requests : db[r] = q(r)
  <2> HIDE DEF b, q
  <2> QED BY <1>2, Names
<1>7. ASSUME NEW r \in Requests
      PROVE  Whole(r, db[r], today) /\ db[r].status = status[r]
  <2>1. db[r] = q(r)
    BY <1>6
  <2>2. status[r] \in {"Absent", "Pending", "Approved"} /\ LeaveDays[r] \ {} = LeaveDays[r]
    OBVIOUS
  <2> QED BY <2>1, <2>2 DEF Whole, IsActive, Statuses
<1> HIDE DEF b, q
<1>8. Tables
  <2>1. \A r \in Requests : Original[r] # NoRequest /\ db[r].status # "Absent"
          => db[Original[r]].status \notin {"Absent", "Pending"}
    BY <1>3, <1>7, Names
  <2> QED BY <1>4, <1>5, <1>6, <1>7, <2>1 DEF Tables
<1>9. \A s \in Sessions : tx[s] = Idle /\ \A l \in Locks : holder[l] # s
  BY <1>5, Names
<1>10. \A s \in Sessions : Sound(s)
  BY <1>9, IdleIsSound
<1>11. \A s, x \in Sessions : s # x /\ tx[s].kind = "submission" => tx[x].request # tx[s].request
  BY <1>9 DEF Idle
<1>12. today \in 0..LastDay /\ ledger \in [LedgerDays -> Nat]
  BY <1>5, OrderAssumption
<1> QED BY <1>5, <1>8, <1>10, <1>11, <1>12 DEF Inv

LEMMA StepsAreFine ==
  ASSUME Inv, NEW s \in Sessions, Step(s)
  PROVE  Inv'
BY LockTypeIsFine, LockRequestIsFine, LockOriginalIsFine, ReadCandidatesIsFine,
   CheckOriginalIsFine, ReadBalanceIsFine, ReselectIsFine, UpdateIsFine, CommitIsFine DEF Step

LEMMA InvIsInductive == Inv /\ [Next]_vars => Inv'
<1> SUFFICES ASSUME Inv, [Next]_vars PROVE Inv'
  OBVIOUS
<1>1. ASSUME NEW s \in Sessions,
             \/ BeginRefresh(s)
             \/ \E r \in Requests : BeginSubmission(s, r) \/ BeginDecision(s, "cancellation", r)
                                                         \/ BeginDecision(s, "approval", r)
      PROVE  Inv'
  BY <1>1, BeginsAreFine
<1>2. ASSUME NEW s \in Sessions, Step(s) PROVE Inv'
  BY <1>2, StepsAreFine
<1>3. ASSUME NEW s \in Sessions, Rollback(s) PROVE Inv'
  BY <1>3, RollbackIsFine
<1>4. CASE Midnight
  BY <1>4, MidnightIsFine
<1>5. CASE UNCHANGED vars
  <2>1. UNCHANGED <<db, draft, ledger, today, tx, holder>>
    BY <1>5 DEF vars
  <2>2. Tables'
    BY <2>1 DEF Inv, Tables
  <2>3. ASSUME NEW s \in Sessions PROVE Sound(s)'
    BY <2>1, OthersStaySound, SoundWork DEF Inv, Sound, ToDo, Knows
  <2> QED BY <2>1, <2>2, <2>3 DEF Inv
<1> QED BY <1>1, <1>2, <1>3, <1>4, <1>5 DEF Next

\* The invariant, of every behaviour.
THEOREM Invariance == Spec => []Inv
<1>1. Init => Inv
  BY InitialInv
<1>2. Inv /\ [Next]_vars => Inv'
  BY InvIsInductive
<1> QED BY <1>1, <1>2, PTL DEF Spec

-----------------------------------------------------------------------------
(* The properties *)

\* Requests, balance, ledger and locks keep their kind; no hold goes negative,
\* and of a row that nobody has locked there is one version (the statements
\* reconcileApprovedLeaveTx, recordBalanceChange and the decisions send).
THEOREM TypeCorrect == Spec => []TypeOK
<1>1. Inv => TypeOK
  <2> SUFFICES ASSUME Inv PROVE TypeOK
    OBVIOUS
  <2>1. ASSUME NEW r \in Requests
        PROVE  /\ db[r].status \in {"Absent", "Pending", "Approved", "Cancelled", "Superseded"}
               /\ db[r].consumed \subseteq LeaveDays[r] /\ db[r].held \in Nat
    BY WholeIsTyped DEF Inv, Tables, Statuses
  <2>2. DOMAIN db = Rows
    BY DEF Inv, Tables
  <2> QED BY <2>1, <2>2 DEF TypeOK, Inv, Tables, Balances
<1> QED BY <1>1, Invariance, PTL

\* However many transactions write a request back from their own copies of it
\* (reconcileApprovedLeaveTx), what is held for it are the days its cursor has
\* not passed.
THEOREM CursorCorrect == Spec => []CursorMatchesHeld
<1>1. Inv => CursorMatchesHeld
  BY DEF Inv, Tables, Whole, CursorMatchesHeld
<1> QED BY <1>1, Invariance, PTL

LEMMA OnlyCommitsShow ==
  ASSUME [Next]_vars
  PROVE  db' = db \/ \E s \in Sessions : Commit(s)
<1>1. CASE UNCHANGED vars
  BY <1>1 DEF vars
<1>2. CASE Midnight
  BY <1>2 DEF Midnight
<1>3. ASSUME NEW s \in Sessions, Step(s) \/ BeginRefresh(s) \/ Rollback(s)
      PROVE  db' = db \/ Commit(s)
  BY <1>3 DEF Step, BeginRefresh, Begin, Rollback, LockType, LockRequest, LockOriginal, Take,
     ReadCandidates, CheckOriginal, ReadBalance, Reselect, Update
<1>4. ASSUME NEW s \in Sessions, NEW r \in Requests,
             BeginSubmission(s, r) \/ BeginDecision(s, "cancellation", r) \/ BeginDecision(s, "approval", r)
      PROVE  db' = db
  BY <1>4 DEF BeginSubmission, BeginDecision, Begin
<1> QED BY <1>1, <1>2, <1>3, <1>4 DEF Next

\* A leave that a cancellation or a swap has ended stays as it was ended: no
\* transaction that read it before writes it back (reconcileApprovedLeaveTx saves
\* only leaves with a day behind them, assertCancellable and promoteToApprovedTx
\* end only leaves that are ahead).
THEOREM SettledForGood == Spec => SettledStaySettled
<1>1. Inv /\ [Next]_vars
      => \A r \in Requests : db[r].status \in {"Cancelled", "Superseded"} => db'[r] = db[r]
  <2> SUFFICES ASSUME Inv, [Next]_vars,
                      NEW r \in Requests, db[r].status \in {"Cancelled", "Superseded"}
               PROVE  db'[r] = db[r]
    OBVIOUS
  <2>1. ASSUME NEW s \in Sessions, Commit(s) PROVE db'[r] = db[r]
    <3>1. Visible(s, r) = db[r]
      BY DEF Visible, Inv, Tables
    <3>2. ~Moves(s, r, db'[r].status)
      BY DEF Moves
    <3> QED BY <2>1, <3>1, <3>2, CommitRows
  <2> QED BY <2>1, OnlyCommitsShow
<1>2. Inv /\ [Next]_vars
      => [\A r \in Requests :
            db[r].status \in {"Cancelled", "Superseded"} => db'[r] = db[r]]_vars
  BY <1>1
<1> QED BY <1>2, Invariance, PTL DEF Spec, SettledStaySettled

-----------------------------------------------------------------------------
(* Circles *)

\* Who holds a lock and waits for another is about to lock an original, or to
\* update a row.
LEMMA HoldsWhileWaiting ==
  ASSUME Inv, NEW s \in Sessions, NEW l \in Locks, holder[l] = s,
         NEW k \in Waiting(s)
  PROVE  tx[s].at \in {"original", "update"}
BY SoundWork DEF Waiting, Awaits, Holds

\* Two transactions cannot have found the same leave behind and ahead.
LEMMA BehindOrAhead ==
  ASSUME Inv, NEW s \in Sessions, NEW x \in Sessions, Open(s), Open(x), NEW r \in Requests,
         FirstDay(r) < tx[s].asOf
  PROVE  ~(tx[x].asOf < FirstDay(r))
<1>1. /\ tx[s].asOf \in Nat /\ tx[x].asOf \in Nat /\ today \in Nat /\ FirstDay(r) \in Nat
      /\ tx[s].asOf <= today /\ today <= tx[x].asOf + 1
  BY SoundWork, DaysAreDays
<1> QED BY <1>1

\* A save waits for another save, or the one or the other transaction is excepted.
LEMMA SaversWaitForSavers ==
  ASSUME Inv, NEW s \in Sessions, tx[s].at = "update", Saves(tx[s]),
         NEW l \in Waiting(s), NEW x \in Sessions, holder[l] = x, tx[x].at \in {"original", "update"}
  PROVE  IsRefusedSwap(x) \/ LostMovement(s) \/ LostMovement(x)
<1> SUFFICES ASSUME ~IsRefusedSwap(x), ~LostMovement(s), ~LostMovement(x) PROVE FALSE
  OBVIOUS
<1>1. /\ l \in Requests /\ l \in Locks /\ l = Target(tx[s]) /\ db[l].status = "Approved"
      /\ tx[s].posted # {} /\ FirstDay(l) < tx[s].asOf
  <2>1. l = Target(tx[s])
    BY DEF Waiting, Awaits
  <2> QED BY <2>1, TargetFacts
<1>2. x # s
  BY DEF Waiting, Free
<1>3. Open(s) /\ Open(x)
  BY SoundWork DEF Stages, Open
<1>4. ~(tx[x].asOf < FirstDay(l))
  BY <1>1, <1>3, BehindOrAhead
<1>5. Holds(x) /\ Knows(x) /\ Staged(tx[x]) /\ tx[x].asOf \in Nat
  BY SoundWork
<1>6. CASE Decides(tx[x]) /\ l = tx[x].request
  BY <1>1, <1>4, <1>5, <1>6 DEF Knows
<1>7. CASE tx[x].kind = "approval" /\ tx[x].at # "original" /\ l = Original[tx[x].request]
  <2>1. HasStarted(l, Visible(x, l), tx[x].asOf)
    BY <1>1, <1>4, <1>5, DaysAreDays DEF HasStarted
  <2> QED BY <1>1, <1>7, <2>1, Names DEF IsRefusedSwap
<1>8. CASE tx[x].posted # {}
  BY <1>1, <1>2, <1>8 DEF LostMovement
<1> QED BY <1>1, <1>5, <1>6, <1>7, <1>8 DEF Holds

\* Transactions that wait for one another in a circle include a change to a leave
\* that has started, whose promoteToApprovedTx refuses it in the end, or one whose
\* recordBalanceChange found its movement written by another: short of these the
\* row locks of decisions, reconciliation and holds have an order.
THEOREM CirclesAreExplained == Spec => []OnlyRefusedOrLostDeadlock
<1>1. Inv => OnlyRefusedOrLostDeadlock
  <2> SUFFICES ASSUME Inv, NEW W \in (SUBSET Sessions) \ {{}},
                      \A s \in W : \E l \in Waiting(s) : holder[l] \in W,
                      \A s \in W : ~IsRefusedSwap(s) /\ ~LostMovement(s)
               PROVE  FALSE
    BY DEF OnlyRefusedOrLostDeadlock
  <2>1. \A s \in W : s \in Sessions
    OBVIOUS
  <2>2. ASSUME NEW s \in W, NEW l \in Waiting(s), holder[l] \in W
        PROVE  holder[l] # s /\ l \in Locks /\ tx[holder[l]].at \in {"original", "update"}
    <3>1. l \in Locks /\ holder[l] # s
      BY DEF Waiting, Free
    <3>2. PICK k \in Waiting(holder[l]) : TRUE
      BY <2>2
    <3> QED BY <2>1, <2>2, <3>1, <3>2, HoldsWhileWaiting
  <2>3. ASSUME NEW s \in W, tx[s].at = "update", Saves(tx[s]) PROVE FALSE
    <3>1. PICK l \in Waiting(s) : holder[l] \in W
      OBVIOUS
    <3> QED BY <2>1, <2>2, <2>3, <3>1, SaversWaitForSavers
  <2>4. ASSUME NEW s \in W, tx[s].at = "update" PROVE FALSE
    <3>1. PICK l \in Waiting(s) : holder[l] \in W
      OBVIOUS
    <3> DEFINE x == holder[l]
    <3>2. l = Balance
      BY <2>3, <2>4, <3>1 DEF Waiting, Awaits, Target
    <3>3. tx[x].at = "update" /\ ~Saves(tx[x])
      <4>1. Holds(x)
        BY <2>1, <3>1, SoundWork
      <4> QED BY <2>2, <2>3, <3>1, <3>2, <4>1 DEF Holds
    <3>4. PICK k \in Waiting(x) : TRUE
      BY <3>1
    <3>5. k = Balance
      BY <3>3, <3>4 DEF Waiting, Awaits, Target
    <3> QED BY <3>2, <3>4, <3>5 DEF Waiting, Free
  <2>5. ASSUME NEW s \in W, tx[s].at = "original" PROVE FALSE
    <3>1. PICK l \in Waiting(s) : holder[l] \in W
      OBVIOUS
    <3> DEFINE x == holder[l]
               r == tx[s].request
    <3>2. l = Original[r]
      BY <2>5, <3>1 DEF Waiting, Awaits
    <3>3. tx[s].kind = "approval" /\ r \in Requests /\ Original[r] # NoRequest /\ db[r].status # "Absent"
      BY <2>1, <2>5, SoundWork DEF Staged, Stages, Kinds, Knows, Decides
    <3>4. l \in Requests /\ db[l].status # "Pending"
      BY <3>2, <3>3, Names DEF Inv, Tables
    <3>5. tx[x].at = "original" /\ x \in Sessions
      BY <2>1, <2>2, <2>4, <3>1
    <3>6. tx[x].kind = "approval" /\ Knows(x) /\ Holds(x) /\ tx[x].posted = {}
      BY <3>5, SoundWork DEF Staged, Stages, Kinds
    <3>7. l = tx[x].request
      BY <3>4, <3>5, <3>6 DEF Holds, Rows, Locks
    <3> QED BY <3>4, <3>5, <3>6, <3>7 DEF Knows, Decides
  <2>6. PICK s \in W : TRUE
    OBVIOUS
  <2>7. PICK l \in Waiting(s) : holder[l] \in W
    OBVIOUS
  <2> QED BY <2>2, <2>4, <2>5, <2>7
<1> QED BY <1>1, Invariance, PTL

=============================================================================
