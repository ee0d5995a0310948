-------------------------- MODULE LeaveRequestsProofs --------------------------
(***************************************************************************)
(* Proofs about LeaveRequests, for every set of requests, approvers, leave *)
(* types, dates and zones its assumptions allow, the last being that it    *)
(* implements LeaveLedger.                                                 *)
(***************************************************************************)
EXTENDS LeaveRequests, FiniteSetTheorems, TLAPS

--------------------------------------------------------------------------------
(* Books before they are committed: what a transaction works on may still   *)
(* hold a negative balance.                                                 *)

Drafts ==
    [requests : [RequestIds -> Requests],
     onHold   : [Balances -> Int],
     spent    : [Balances -> Int]]

\* HeldScalarMatchesCursor of one request row.
HeldIsRemaining(q) == q.held = IF IsActive(q) THEN Cardinality(RemainingPaid(q)) ELSE 0

\* The part of a row no later transaction writes.
Frozen(q) == <<q.type, q.first, q.last, q.slots, q.unpaid, q.supersedes>>

\* Row p of a request is row q some consumption later.
ConsumedFrom(p, q) ==
    /\ Frozen(p) = Frozen(q)
    /\ p.status = q.status
    /\ p.lastAction = q.lastAction
    /\ q.consumed \subseteq p.consumed
    /\ p.status # "Approved" => p = q

\* Row p books what row q does, and has as much of it consumed.
SameTerms(p, q) == Frozen(p) = Frozen(q) /\ p.consumed = q.consumed

\* Row p books what row q does, and none of it is consumed.
Untaken(p, q) == Frozen(p) = Frozen(q) /\ p.consumed = {}

--------------------------------------------------------------------------------
(* Sets of slots are finite *)

LEMMA FiniteSlots == IsFiniteSet(Slots) /\ IsFiniteSet(RequestIds \X Slots)
<1>1. IsFiniteSet(1..HoursPerDay)
    BY FS_Interval, CalendarAssumption
<1>2. IsFiniteSet(Slots)
    BY <1>1, FS_Product, CalendarAssumption DEF Slots
<1>. QED
    BY <1>2, FS_Product, IdAssumption

LEMMA FiniteRemaining ==
    ASSUME NEW q \in Requests
    PROVE  /\ RemainingPaid(q) \subseteq Slots
           /\ IsFiniteSet(RemainingPaid(q))
           /\ Cardinality(RemainingPaid(q)) \in Nat
<1>1. RemainingPaid(q) \subseteq Slots
    BY DEF Requests, RemainingPaid, PaidSlots
<1>2. IsFiniteSet(RemainingPaid(q))
    BY <1>1, FiniteSlots, FS_Subset
<1>. QED
    BY <1>1, <1>2, FS_CardinalityType

--------------------------------------------------------------------------------
(* What each helper leaves behind *)

LEMMA SetStatusRows ==
    ASSUME NEW b \in Drafts, NEW r \in RequestIds, NEW status \in Statuses
    PROVE  /\ SetStatus(b, r, status) \in Drafts
           /\ SetStatus(b, r, status).onHold = b.onHold
           /\ SetStatus(b, r, status).spent = b.spent
           /\ SetStatus(b, r, status).requests[r] = [b.requests[r] EXCEPT !.status = status]
           /\ \A x \in RequestIds \ {r} : SetStatus(b, r, status).requests[x] = b.requests[x]
    BY DEF SetStatus, Drafts, Requests

LEMMA SetLastActionRows ==
    ASSUME NEW b \in Drafts, NEW r \in RequestIds, NEW action \in Actions
    PROVE  /\ SetLastAction(b, r, action) \in Drafts
           /\ SetLastAction(b, r, action).onHold = b.onHold
           /\ SetLastAction(b, r, action).spent = b.spent
           /\ SetLastAction(b, r, action).requests[r] = [b.requests[r] EXCEPT !.lastAction = action]
           /\ \A x \in RequestIds \ {r} : SetLastAction(b, r, action).requests[x] = b.requests[x]
    BY DEF SetLastAction, Drafts, Requests

\* A row that is consumed further keeps everything else, and its held
\* remainder stays the cost of what is left.
LEMMA ConsumedRow ==
    ASSUME NEW q \in Requests, NEW t \in Nat, NEW tz \in Int, HeldIsRemaining(q),
           NEW p, p = [q EXCEPT !.consumed = @ \cup Elapsed(q, t, tz),
                                !.held = @ - Cardinality(ElapsedPaid(q, t, tz))]
    PROVE  /\ p \in Requests
           /\ ConsumedFrom(p, q)
           /\ HeldIsRemaining(p)
           /\ PaidSlots(p) = PaidSlots(q)
           /\ RemainingPaid(p) = RemainingPaid(q) \ ElapsedPaid(q, t, tz)
<1>. DEFINE left == q.held - Cardinality(ElapsedPaid(q, t, tz))
<1>1. Elapsed(q, t, tz) \subseteq Days
    BY DEF Elapsed, LeaveDays, Requests, Slots
<1>2. ElapsedPaid(q, t, tz) \subseteq RemainingPaid(q)
    BY DEF ElapsedPaid
<1>3. IsFiniteSet(RemainingPaid(q)) /\ Cardinality(RemainingPaid(q)) \in Nat
    BY FiniteRemaining
<1>4. /\ IsFiniteSet(ElapsedPaid(q, t, tz))
      /\ Cardinality(ElapsedPaid(q, t, tz)) \in Nat
      /\ Cardinality(ElapsedPaid(q, t, tz)) <= Cardinality(RemainingPaid(q))
    BY <1>2, <1>3, FS_Subset, FS_CardinalityType
<1>5. q.consumed \cup Elapsed(q, t, tz) \in SUBSET Days /\ q.held \in Nat
    BY <1>1 DEF Requests
<1>6. p = [q EXCEPT !.consumed = q.consumed \cup Elapsed(q, t, tz), !.held = left]
    OBVIOUS
<1>7. PaidSlots(p) = PaidSlots(q)
    BY DEF PaidSlots, Requests
<1>8. RemainingPaid(p) = RemainingPaid(q) \ ElapsedPaid(q, t, tz)
    BY DEF RemainingPaid, PaidSlots, ElapsedPaid, Requests
<1>9. CASE q.status = "Approved"
    <2>1. q.held = Cardinality(RemainingPaid(q))
        BY <1>9 DEF HeldIsRemaining, IsActive
    <2>2. p \in Requests
        <3>1. left \in Nat
            BY <1>3, <1>4, <2>1
        <3>. HIDE DEF left
        <3>. QED
            BY <1>5, <1>6, <3>1 DEF Requests
    <2>3. RemainingPaid(q) \cap ElapsedPaid(q, t, tz) = ElapsedPaid(q, t, tz)
        BY <1>2
    <2>4. Cardinality(RemainingPaid(p))
            = Cardinality(RemainingPaid(q)) - Cardinality(ElapsedPaid(q, t, tz))
        BY <1>3, <1>8, <2>3, FS_Difference
    <2>. QED
        BY <1>7, <1>8, <1>9, <2>1, <2>2, <2>4
           DEF ConsumedFrom, Frozen, HeldIsRemaining, IsActive, Requests
<1>10. CASE q.status # "Approved"
    <2>1. Elapsed(q, t, tz) = {} /\ ElapsedPaid(q, t, tz) = {}
        BY <1>10 DEF Elapsed, ElapsedPaid
    <2>2. Cardinality(ElapsedPaid(q, t, tz)) = 0
        BY <2>1, FS_EmptySet
    <2>3. q.consumed \cup Elapsed(q, t, tz) = q.consumed /\ left = q.held
        BY <1>5, <2>1, <2>2
    <2>4. p = q
        <3>. HIDE DEF left
        <3>. QED
            BY <1>6, <2>3 DEF Requests
    <2>. QED
        BY <1>7, <1>8, <2>4 DEF ConsumedFrom
<1>. QED
    BY <1>9, <1>10

--------------------------------------------------------------------------------
(* Sound books: the balance rows and the held scalars say what the request  *)
(* rows say.                                                                *)

Sound(b) ==
    /\ b \in Drafts
    /\ \A r \in RequestIds :
        /\ HeldIsRemaining(b.requests[r])
        /\ b.requests[r].status = "Absent" => b.requests[r] = AbsentRequest
    /\ \A k \in LeaveTypes, y \in Years :
        /\ b.onHold[<<k, y>>] = Cardinality(HeldClaims(b, k, y))
        /\ b.spent[<<k, y>>] = Cardinality(SpentClaims(b, k, y))

LEMMA FiniteClaims ==
    ASSUME NEW S, S \subseteq RequestIds \X Slots
    PROVE  IsFiniteSet(S) /\ Cardinality(S) \in Nat
    BY FiniteSlots, FS_Subset, FS_CardinalityType

LEMMA DisjointClaims ==
    ASSUME NEW S, S \subseteq RequestIds \X Slots,
           NEW T, T \subseteq RequestIds \X Slots, S \cap T = {}
    PROVE  Cardinality(S \cup T) = Cardinality(S) + Cardinality(T)
<1>1. /\ IsFiniteSet(S) /\ Cardinality(S) \in Nat
      /\ IsFiniteSet(T) /\ Cardinality(T) \in Nat
    BY FiniteClaims
<1>2. Cardinality(S \cap T) = 0
    BY FS_EmptySet
<1>3. Cardinality(S \cup T) = Cardinality(S) + Cardinality(T) - Cardinality(S \cap T)
    BY <1>1, FS_Union
<1>. QED
    BY <1>1, <1>2, <1>3

\* The claims of one request are as many as its slots.
LEMMA ClaimsOfOne ==
    ASSUME NEW r \in RequestIds, NEW S, S \subseteq Slots
    PROVE  /\ {r} \X S \subseteq RequestIds \X Slots
           /\ Cardinality({r} \X S) = Cardinality(S)
<1>1. IsFiniteSet(S) /\ Cardinality(S) \in Nat
    BY FiniteSlots, FS_Subset, FS_CardinalityType
<1>2. IsFiniteSet({r}) /\ Cardinality({r}) = 1
    BY FS_Singleton
<1>3. Cardinality({r} \X S) = 1 * Cardinality(S)
    BY <1>1, <1>2, FS_Product
<1>. QED
    BY <1>1, <1>3

LEMMA SoundBooks ==
    ASSUME NEW b, Sound(b)
    PROVE  b \in Books
<1>1. ASSUME NEW p \in Balances
      PROVE  b.onHold[p] \in Nat /\ b.spent[p] \in Nat
    <2>1. PICK k \in LeaveTypes, y \in Years : p = <<k, y>>
        BY DEF Balances
    <2>2. /\ HeldClaims(b, k, y) \subseteq RequestIds \X Slots
          /\ SpentClaims(b, k, y) \subseteq RequestIds \X Slots
        BY DEF HeldClaims, SpentClaims
    <2>. QED
        BY <2>1, <2>2, FiniteClaims DEF Sound
<1>2. /\ b \in Drafts
      /\ b.onHold \in [Balances -> Nat]
      /\ b.spent \in [Balances -> Nat]
    BY <1>1 DEF Sound, Drafts
<1>. QED
    BY <1>2 DEF Drafts, Books

\* reconcileApprovedLeaveTx keeps the books sound.
LEMMA ReconciledSound ==
    ASSUME NEW b, Sound(b), NEW t \in Nat, NEW tz \in Int
    PROVE  /\ Sound(Reconciled(b, t, tz))
           /\ \A r \in RequestIds :
                ConsumedFrom(Reconciled(b, t, tz).requests[r], b.requests[r])
<1>. DEFINE c == Reconciled(b, t, tz)
<1>. DEFINE moved(k, y) == {x \in RequestIds \X Slots :
                LET q == b.requests[x[1]]
                IN  x[2] \in Charging(q, ElapsedPaid(q, t, tz), k, y)}
<1>1. ASSUME NEW r \in RequestIds
      PROVE  /\ c.requests[r] \in Requests
             /\ ConsumedFrom(c.requests[r], b.requests[r])
             /\ HeldIsRemaining(c.requests[r])
             /\ PaidSlots(c.requests[r]) = PaidSlots(b.requests[r])
             /\ RemainingPaid(c.requests[r])
                    = RemainingPaid(b.requests[r]) \ ElapsedPaid(b.requests[r], t, tz)
    <2>1. /\ b.requests[r] \in Requests
          /\ HeldIsRemaining(b.requests[r])
        BY DEF Sound, Drafts
    <2>2. c.requests[r]
            = [b.requests[r] EXCEPT !.consumed = @ \cup Elapsed(b.requests[r], t, tz),
                 !.held = @ - Cardinality(ElapsedPaid(b.requests[r], t, tz))]
        BY DEF Reconciled
    <2>. HIDE DEF c
    <2>. QED
        BY <2>1, <2>2, ConsumedRow
<1>2. ASSUME NEW k \in LeaveTypes, NEW y \in Years
      PROVE  /\ c.onHold[<<k, y>>] = Cardinality(HeldClaims(c, k, y))
             /\ c.spent[<<k, y>>] = Cardinality(SpentClaims(c, k, y))
             /\ c.onHold[<<k, y>>] \in Int
             /\ c.spent[<<k, y>>] \in Int
    <2>1. Cardinality(moved(k, y)) = Consumption(b, t, tz, k, y)
        BY DEF Consumption
    <2>2. <<k, y>> \in Balances
        BY DEF Balances
    <2>3. /\ c.onHold[<<k, y>>] = b.onHold[<<k, y>>] - Cardinality(moved(k, y))
          /\ c.spent[<<k, y>>] = b.spent[<<k, y>>] + Cardinality(moved(k, y))
        BY <2>1, <2>2 DEF Reconciled
    <2>4. moved(k, y) \subseteq HeldClaims(b, k, y)
        BY DEF HeldClaims, Charging, ElapsedPaid, Elapsed, IsActive
    <2>5. HeldClaims(c, k, y) = HeldClaims(b, k, y) \ moved(k, y)
        <3>. HIDE DEF c
        <3>. QED
            BY <1>1 DEF HeldClaims, Charging, IsActive, ConsumedFrom, Frozen
    <2>6. SpentClaims(c, k, y) = SpentClaims(b, k, y) \cup moved(k, y)
        <3>. HIDE DEF c
        <3>. QED
            BY <1>1 DEF SpentClaims, Charging, ConsumedFrom, Frozen, ElapsedPaid,
                        RemainingPaid
    <2>7. SpentClaims(b, k, y) \cap moved(k, y) = {}
        BY DEF SpentClaims, Charging, ElapsedPaid
    <2>8. /\ HeldClaims(b, k, y) \subseteq RequestIds \X Slots
          /\ SpentClaims(b, k, y) \subseteq RequestIds \X Slots
          /\ moved(k, y) \subseteq RequestIds \X Slots
        BY DEF HeldClaims, SpentClaims
    <2>9. /\ b.onHold[<<k, y>>] = Cardinality(HeldClaims(b, k, y))
          /\ b.spent[<<k, y>>] = Cardinality(SpentClaims(b, k, y))
        BY DEF Sound
    <2>. HIDE DEF c, moved
    <2>10. HeldClaims(b, k, y) \cap moved(k, y) = moved(k, y)
        BY <2>4
    <2>11. Cardinality(HeldClaims(c, k, y))
            = Cardinality(HeldClaims(b, k, y)) - Cardinality(moved(k, y))
        BY <2>5, <2>8, <2>10, FiniteClaims, FS_Difference
    <2>12. Cardinality(SpentClaims(c, k, y))
            = Cardinality(SpentClaims(b, k, y)) + Cardinality(moved(k, y))
        BY <2>6, <2>7, <2>8, DisjointClaims
    <2>. QED
        BY <2>3, <2>8, <2>9, <2>11, <2>12, FiniteClaims
<1>3. c \in Drafts
    <2>1. /\ c.requests \in [RequestIds -> Requests]
          /\ c.onHold \in [Balances -> Int]
          /\ c.spent \in [Balances -> Int]
        <3>1. \A p \in Balances : c.onHold[p] \in Int /\ c.spent[p] \in Int
            BY <1>2 DEF Balances
        <3>. QED
            BY <1>1, <3>1 DEF Reconciled
    <2>. QED
        BY <2>1 DEF Reconciled, Drafts
<1>4. ASSUME NEW r \in RequestIds, c.requests[r].status = "Absent"
      PROVE  c.requests[r] = AbsentRequest
    <2>. HIDE DEF c
    <2>. QED
        BY <1>1, <1>4 DEF Sound, ConsumedFrom
<1>. HIDE DEF c
<1>5. Sound(c)
    BY <1>1, <1>2, <1>3, <1>4 DEF Sound
<1>. QED
    BY <1>1, <1>5 DEF c

\* Rows p and q claim the same hours.
SameClaims(p, q) ==
    /\ Frozen(p) = Frozen(q)
    /\ p.consumed = q.consumed
    /\ p.held = q.held
    /\ IsActive(p) = IsActive(q)
    /\ p.status = "Absent" => p = q

\* Transactions that move no hours keep the books sound.
LEMMA SameClaimsSound ==
    ASSUME NEW b, Sound(b), NEW c \in Drafts, c.onHold = b.onHold, c.spent = b.spent,
           \A r \in RequestIds : SameClaims(c.requests[r], b.requests[r])
    PROVE  Sound(c)
<1>1. ASSUME NEW r \in RequestIds
      PROVE  /\ HeldIsRemaining(c.requests[r])
             /\ c.requests[r].status = "Absent" => c.requests[r] = AbsentRequest
             /\ PaidSlots(c.requests[r]) = PaidSlots(b.requests[r])
             /\ RemainingPaid(c.requests[r]) = RemainingPaid(b.requests[r])
    <2>1. /\ c.requests[r].slots = b.requests[r].slots
          /\ c.requests[r].unpaid = b.requests[r].unpaid
          /\ SameClaims(c.requests[r], b.requests[r])
        BY DEF SameClaims, Frozen
    <2>2. /\ PaidSlots(c.requests[r]) = PaidSlots(b.requests[r])
          /\ RemainingPaid(c.requests[r]) = RemainingPaid(b.requests[r])
        BY ONLY <2>1 DEF SameClaims, PaidSlots, RemainingPaid
    <2>3. /\ HeldIsRemaining(b.requests[r])
          /\ b.requests[r].status = "Absent" => b.requests[r] = AbsentRequest
        BY DEF Sound
    <2>. QED
        BY ONLY <2>1, <2>2, <2>3 DEF SameClaims, HeldIsRemaining
<1>2. ASSUME NEW k \in LeaveTypes, NEW y \in Years
      PROVE  /\ HeldClaims(c, k, y) = HeldClaims(b, k, y)
             /\ SpentClaims(c, k, y) = SpentClaims(b, k, y)
    <2>1. ASSUME NEW r \in RequestIds
          PROVE  /\ c.requests[r].type = b.requests[r].type
                 /\ IsActive(c.requests[r]) = IsActive(b.requests[r])
                 /\ PaidSlots(c.requests[r]) = PaidSlots(b.requests[r])
                 /\ RemainingPaid(c.requests[r]) = RemainingPaid(b.requests[r])
        BY <1>1 DEF SameClaims, Frozen
    <2>2. HeldClaims(c, k, y) = HeldClaims(b, k, y)
        BY ONLY <2>1 DEF HeldClaims, Charging
    <2>3. SpentClaims(c, k, y) = SpentClaims(b, k, y)
        BY ONLY <2>1 DEF SpentClaims, Charging
    <2>. QED
        BY <2>2, <2>3
<1>. QED
    BY <1>1, <1>2 DEF Sound

LEMMA SetLastActionSound ==
    ASSUME NEW b, Sound(b), NEW r \in RequestIds, NEW action \in Actions,
           b.requests[r].status # "Absent"
    PROVE  Sound(SetLastAction(b, r, action))
<1>. DEFINE c == SetLastAction(b, r, action)
<1>1. b \in Drafts
    BY DEF Sound
<1>2. /\ c \in Drafts /\ c.onHold = b.onHold /\ c.spent = b.spent
      /\ c.requests[r] = [b.requests[r] EXCEPT !.lastAction = action]
      /\ \A x \in RequestIds \ {r} : c.requests[x] = b.requests[x]
    BY <1>1, SetLastActionRows
<1>. HIDE DEF c
<1>3. \A x \in RequestIds : SameClaims(c.requests[x], b.requests[x])
    BY <1>1, <1>2 DEF SameClaims, Frozen, IsActive, Drafts, Requests
<1>4. Sound(c)
    BY <1>2, <1>3, SameClaimsSound
<1>. QED
    BY <1>4 DEF c

LEMMA ApprovedSound ==
    ASSUME NEW b, Sound(b), NEW r \in RequestIds, b.requests[r].status = "Pending"
    PROVE  Sound(SetStatus(b, r, "Approved"))
<1>. DEFINE c == SetStatus(b, r, "Approved")
<1>1. b \in Drafts
    BY DEF Sound
<1>2. /\ c \in Drafts /\ c.onHold = b.onHold /\ c.spent = b.spent
      /\ c.requests[r] = [b.requests[r] EXCEPT !.status = "Approved"]
      /\ \A x \in RequestIds \ {r} : c.requests[x] = b.requests[x]
    <2>1. "Approved" \in Statuses
        BY DEF Statuses
    <2>. QED
        BY ONLY <1>1, <2>1, SetStatusRows, r \in RequestIds
<1>. HIDE DEF c
<1>3. \A x \in RequestIds : SameClaims(c.requests[x], b.requests[x])
    BY <1>1, <1>2 DEF SameClaims, Frozen, IsActive, Drafts, Requests
<1>4. Sound(c)
    BY <1>2, <1>3, SameClaimsSound
<1>. QED
    BY <1>4 DEF c

\* Row p is the active row q after its hold was given back.
SettledFrom(p, q) ==
    /\ Frozen(p) = Frozen(q)
    /\ p.consumed = q.consumed
    /\ p.held = 0
    /\ p.status \in {"Rejected", "Cancelled", "Superseded"}

\* What r still holds on balance row p.
StillHeld(b, r, p) == Cardinality(Charging(b.requests[r], RemainingPaid(b.requests[r]), p[1], p[2]))

\* Giving back all that an active request still holds, and settling it, keeps
\* the books sound.
LEMMA SettledSound ==
    ASSUME NEW b, Sound(b), NEW r \in RequestIds, IsActive(b.requests[r]), NEW c \in Drafts,
           SettledFrom(c.requests[r], b.requests[r]),
           \A x \in RequestIds \ {r} : c.requests[x] = b.requests[x],
           \A p \in Balances : c.onHold[p] = b.onHold[p] - StillHeld(b, r, p),
           c.spent = b.spent
    PROVE  Sound(c)
<1>1. ASSUME NEW x \in RequestIds
      PROVE  /\ HeldIsRemaining(c.requests[x])
             /\ c.requests[x].status = "Absent" => c.requests[x] = AbsentRequest
             /\ PaidSlots(c.requests[x]) = PaidSlots(b.requests[x])
             /\ RemainingPaid(c.requests[x]) = RemainingPaid(b.requests[x])
    BY DEF Sound, SettledFrom, Frozen, HeldIsRemaining, IsActive, PaidSlots, RemainingPaid
<1>2. ASSUME NEW k \in LeaveTypes, NEW y \in Years
      PROVE  /\ c.onHold[<<k, y>>] = Cardinality(HeldClaims(c, k, y))
             /\ c.spent[<<k, y>>] = Cardinality(SpentClaims(c, k, y))
    <2>. DEFINE back == Charging(b.requests[r], RemainingPaid(b.requests[r]), k, y)
    <2>1. <<k, y>> \in Balances
        BY DEF Balances
    <2>2. c.onHold[<<k, y>>] = b.onHold[<<k, y>>] - Cardinality(back)
        BY <2>1 DEF StillHeld
    <2>3. back \subseteq Slots
        BY FiniteRemaining DEF Charging, Sound, Drafts
    <2>4. SpentClaims(c, k, y) = SpentClaims(b, k, y)
        BY <1>1 DEF SpentClaims, Charging, SettledFrom, Frozen
    <2>5. HeldClaims(c, k, y) \cap ({r} \X back) = {}
        BY DEF HeldClaims, IsActive, SettledFrom
    <2>6. HeldClaims(b, k, y) = HeldClaims(c, k, y) \cup ({r} \X back)
        <3>1. ASSUME NEW x \in RequestIds, NEW s \in Slots
              PROVE  <<x, s>> \in HeldClaims(b, k, y)
                        <=> <<x, s>> \in HeldClaims(c, k, y) \/ (x = r /\ s \in back)
            <4>1. CASE x = r
                BY <4>1 DEF HeldClaims, IsActive, SettledFrom
            <4>2. CASE x # r
                BY <4>2 DEF HeldClaims
            <4>. QED
                BY <4>1, <4>2
        <3>2. /\ HeldClaims(b, k, y) \subseteq RequestIds \X Slots
              /\ HeldClaims(c, k, y) \subseteq RequestIds \X Slots
            BY DEF HeldClaims
        <3>. HIDE DEF back
        <3>. QED
            BY <2>3, <3>1, <3>2
    <2>. HIDE DEF back
    <2>7. HeldClaims(c, k, y) \subseteq RequestIds \X Slots
        BY DEF HeldClaims
    <2>8. Cardinality(HeldClaims(b, k, y)) = Cardinality(HeldClaims(c, k, y)) + Cardinality(back)
        <3>1. /\ {r} \X back \subseteq RequestIds \X Slots
              /\ Cardinality({r} \X back) = Cardinality(back)
            BY <2>3, ClaimsOfOne
        <3>2. Cardinality(HeldClaims(c, k, y) \cup ({r} \X back))
                = Cardinality(HeldClaims(c, k, y)) + Cardinality({r} \X back)
            BY <2>5, <2>7, <3>1, DisjointClaims
        <3>. QED
            BY <2>6, <3>1, <3>2
    <2>9. Cardinality(HeldClaims(c, k, y)) \in Nat /\ Cardinality(back) \in Nat
        BY <2>3, <2>7, FiniteClaims, FiniteSlots, FS_Subset, FS_CardinalityType
    <2>. QED
        BY <2>2, <2>4, <2>8, <2>9 DEF Sound
<1>. QED
    BY <1>1, <1>2 DEF Sound

\* releaseHold
LEMMA ReleasedRows ==
    ASSUME NEW b \in Drafts, NEW r \in RequestIds,
           b.requests[r].held = Cardinality(RemainingPaid(b.requests[r]))
    PROVE  /\ Released(b, r) \in Drafts
           /\ Released(b, r).requests[r] = [b.requests[r] EXCEPT !.held = 0]
           /\ \A x \in RequestIds \ {r} : Released(b, r).requests[x] = b.requests[x]
           /\ \A p \in Balances : Released(b, r).onHold[p] = b.onHold[p] - StillHeld(b, r, p)
           /\ Released(b, r).spent = b.spent
<1>. DEFINE q == b.requests[r]
<1>1. q \in Requests /\ q.held \in Nat
    BY DEF Drafts, Requests
<1>2. ASSUME NEW p \in Balances
      PROVE  StillHeld(b, r, p) \in Nat
    <2>1. Charging(q, RemainingPaid(q), p[1], p[2]) \subseteq Slots
        BY <1>1, FiniteRemaining DEF Charging
    <2>. QED
        BY <2>1, FiniteSlots, FS_Subset, FS_CardinalityType DEF StillHeld
<1>3. CASE q.held = 0
    <2>1. RemainingPaid(q) = {}
        BY <1>1, <1>3, FiniteRemaining, FS_EmptySet
    <2>2. ASSUME NEW p \in Balances
          PROVE  StillHeld(b, r, p) = 0
        BY <2>1, FS_EmptySet DEF StillHeld, Charging
    <2>3. Released(b, r) = b
        BY <1>3 DEF Released
    <2>4. q = [q EXCEPT !.held = 0]
        BY <1>1, <1>3 DEF Requests
    <2>. QED
        BY <2>2, <2>3, <2>4 DEF Drafts
<1>4. CASE q.held # 0
    <2>1. Released(b, r) =
            [requests |-> [b.requests EXCEPT ![r].held = 0],
             onHold   |-> [p \in Balances |-> b.onHold[p] - StillHeld(b, r, p)],
             spent    |-> b.spent]
        BY <1>1, <1>4 DEF Released, StillHeld
    <2>2. [b.requests EXCEPT ![r].held = 0] \in [RequestIds -> Requests]
        BY DEF Drafts, Requests
    <2>3. [p \in Balances |-> b.onHold[p] - StillHeld(b, r, p)] \in [Balances -> Int]
        BY <1>2 DEF Drafts
    <2>. QED
        BY <2>1, <2>2, <2>3 DEF Drafts
<1>. QED
    BY <1>3, <1>4

\* promoteToApprovedTx: the swap releases first and marks afterwards.
LEMMA ReleaseThenSettle ==
    ASSUME NEW b, Sound(b), NEW r \in RequestIds, IsActive(b.requests[r]),
           NEW c, c = SetStatus(Released(b, r), r, "Superseded")
    PROVE  /\ Sound(c)
           /\ SettledFrom(c.requests[r], b.requests[r])
           /\ c.requests[r].status = "Superseded"
           /\ \A x \in RequestIds \ {r} : c.requests[x] = b.requests[x]
<1>1. b \in Drafts /\ b.requests[r] \in Requests /\ "Superseded" \in Statuses
    BY DEF Sound, Drafts, Statuses
<1>2. b.requests[r].held = Cardinality(RemainingPaid(b.requests[r]))
    BY DEF Sound, HeldIsRemaining
<1>3. PICK d : d = Released(b, r)
    OBVIOUS
<1>4. /\ d \in Drafts
      /\ d.requests[r] = [b.requests[r] EXCEPT !.held = 0]
      /\ \A x \in RequestIds \ {r} : d.requests[x] = b.requests[x]
      /\ \A p \in Balances : d.onHold[p] = b.onHold[p] - StillHeld(b, r, p)
      /\ d.spent = b.spent
    BY <1>1, <1>2, <1>3, ReleasedRows
<1>5. /\ c \in Drafts
      /\ c.requests[r] = [d.requests[r] EXCEPT !.status = "Superseded"]
      /\ \A x \in RequestIds \ {r} : c.requests[x] = d.requests[x]
      /\ c.onHold = d.onHold
      /\ c.spent = d.spent
    <2>1. /\ SetStatus(d, r, "Superseded") \in Drafts
          /\ SetStatus(d, r, "Superseded").requests[r] = [d.requests[r] EXCEPT !.status = "Superseded"]
          /\ \A x \in RequestIds \ {r} : SetStatus(d, r, "Superseded").requests[x] = d.requests[x]
          /\ SetStatus(d, r, "Superseded").onHold = d.onHold
          /\ SetStatus(d, r, "Superseded").spent = d.spent
        <3>1. d \in Drafts /\ "Superseded" \in Statuses
            BY <1>1, <1>4
        <3>. QED
            BY ONLY <3>1, SetStatusRows, r \in RequestIds
    <2>. QED
        BY <1>3, <2>1
<1>6. c.requests[r] = [b.requests[r] EXCEPT !.held = 0, !.status = "Superseded"]
    BY <1>1, <1>4, <1>5 DEF Requests
<1>7. SettledFrom(c.requests[r], b.requests[r]) /\ c.requests[r].status = "Superseded"
    BY <1>1, <1>6 DEF SettledFrom, Frozen, Requests
<1>8. Sound(c)
    BY <1>4, <1>5, <1>7, SettledSound
<1>. QED
    BY <1>4, <1>5, <1>7, <1>8

\* Every other path marks the request first and releases afterwards.
LEMMA SettleThenRelease ==
    ASSUME NEW b, Sound(b), NEW r \in RequestIds, IsActive(b.requests[r]),
           NEW status \in {"Rejected", "Cancelled", "Superseded"},
           NEW c, c = Released(SetStatus(b, r, status), r)
    PROVE  /\ Sound(c)
           /\ SettledFrom(c.requests[r], b.requests[r])
           /\ c.requests[r].status = status
           /\ \A x \in RequestIds \ {r} : c.requests[x] = b.requests[x]
<1>1. b \in Drafts /\ b.requests[r] \in Requests /\ status \in Statuses
    BY DEF Sound, Drafts, Statuses
<1>2. b.requests[r].held = Cardinality(RemainingPaid(b.requests[r]))
    BY DEF Sound, HeldIsRemaining
<1>. DEFINE d == SetStatus(b, r, status)
<1>3. /\ d \in Drafts
      /\ d.requests[r] = [b.requests[r] EXCEPT !.status = status]
      /\ \A x \in RequestIds \ {r} : d.requests[x] = b.requests[x]
      /\ d.onHold = b.onHold
      /\ d.spent = b.spent
    BY <1>1, SetStatusRows
<1>4. c = Released(d, r)
    OBVIOUS
<1>. HIDE DEF d
<1>5. /\ RemainingPaid(d.requests[r]) = RemainingPaid(b.requests[r])
      /\ d.requests[r].type = b.requests[r].type
      /\ d.requests[r].held = b.requests[r].held
    BY <1>1, <1>3 DEF RemainingPaid, PaidSlots, Requests
<1>6. /\ c \in Drafts
      /\ c.requests[r] = [d.requests[r] EXCEPT !.held = 0]
      /\ \A x \in RequestIds \ {r} : c.requests[x] = d.requests[x]
      /\ \A p \in Balances : c.onHold[p] = d.onHold[p] - StillHeld(d, r, p)
      /\ c.spent = d.spent
    <2>1. d.requests[r].held = Cardinality(RemainingPaid(d.requests[r]))
        BY <1>2, <1>5
    <2>2. /\ Released(d, r) \in Drafts
          /\ Released(d, r).requests[r] = [d.requests[r] EXCEPT !.held = 0]
          /\ \A x \in RequestIds \ {r} : Released(d, r).requests[x] = d.requests[x]
          /\ \A p \in Balances : Released(d, r).onHold[p] = d.onHold[p] - StillHeld(d, r, p)
          /\ Released(d, r).spent = d.spent
        BY <1>3, <2>1, ReleasedRows
    <2>. QED
        BY <1>4, <2>2
<1>7. c.requests[r] = [b.requests[r] EXCEPT !.held = 0, !.status = status]
    BY <1>1, <1>3, <1>6 DEF Requests
<1>8. SettledFrom(c.requests[r], b.requests[r]) /\ c.requests[r].status = status
    BY <1>1, <1>7 DEF SettledFrom, Frozen, Requests
<1>9. \A p \in Balances : c.onHold[p] = b.onHold[p] - StillHeld(b, r, p)
    BY <1>3, <1>5, <1>6 DEF StillHeld, Charging
<1>10. Sound(c)
    BY <1>3, <1>6, <1>8, <1>9, SettledSound
<1>. QED
    BY <1>3, <1>6, <1>8, <1>10

\* createLeaveRequestTx posts its holds and inserts its row.
LEMMA FiledSound ==
    ASSUME NEW b, Sound(b), NEW r \in RequestIds, b.requests[r].status = "Absent",
           NEW q \in Requests, q.status = "Pending", q.consumed = {},
           q.held = Cardinality(RemainingPaid(q)),
           NEW c, c = Held(b, r, q)
    PROVE  /\ Sound(c)
           /\ c.requests[r] = q
           /\ \A x \in RequestIds \ {r} : c.requests[x] = b.requests[x]
<1>1. b \in Drafts /\ b.requests[r] = AbsentRequest
    BY DEF Sound
<1>2. /\ c.requests = [b.requests EXCEPT ![r] = q]
      /\ c.spent = b.spent
      /\ c.onHold = [p \in Balances |->
                       b.onHold[p] + Cardinality(Charging(q, RemainingPaid(q), p[1], p[2]))]
      /\ c = [requests |-> c.requests, onHold |-> c.onHold, spent |-> c.spent]
    BY DEF Held
<1>3. /\ c.requests[r] = q
      /\ \A x \in RequestIds \ {r} : c.requests[x] = b.requests[x]
    BY <1>1, <1>2 DEF Drafts
<1>4. ASSUME NEW k, NEW y
      PROVE  /\ Charging(q, RemainingPaid(q), k, y) \subseteq Slots
             /\ Cardinality(Charging(q, RemainingPaid(q), k, y)) \in Nat
    <2>1. Charging(q, RemainingPaid(q), k, y) \subseteq Slots
        BY FiniteRemaining DEF Charging
    <2>. QED
        BY <2>1, FiniteSlots, FS_Subset, FS_CardinalityType
<1>5. c \in Drafts
    <2>1. c.requests \in [RequestIds -> Requests] /\ c.spent \in [Balances -> Int]
        BY <1>1, <1>2 DEF Drafts
    <2>2. c.onHold \in [Balances -> Int]
        BY <1>1, <1>2, <1>4 DEF Drafts
    <2>. QED
        BY <1>2, <2>1, <2>2 DEF Drafts
<1>6. ASSUME NEW x \in RequestIds
      PROVE  /\ HeldIsRemaining(c.requests[x])
             /\ c.requests[x].status = "Absent" => c.requests[x] = AbsentRequest
    BY <1>3 DEF Sound, HeldIsRemaining, IsActive
<1>7. ASSUME NEW k \in LeaveTypes, NEW y \in Years
      PROVE  /\ c.onHold[<<k, y>>] = Cardinality(HeldClaims(c, k, y))
             /\ c.spent[<<k, y>>] = Cardinality(SpentClaims(c, k, y))
    <2>. DEFINE added == Charging(q, RemainingPaid(q), k, y)
    <2>1. c.onHold[<<k, y>>] = b.onHold[<<k, y>>] + Cardinality(added)
        BY <1>2 DEF Balances
    <2>2. added \subseteq Slots
        BY <1>4
    <2>3. SpentClaims(c, k, y) = SpentClaims(b, k, y)
        <3>1. /\ PaidSlots(q) \ RemainingPaid(q) = {}
              /\ PaidSlots(AbsentRequest) \ RemainingPaid(AbsentRequest) = {}
            BY DEF RemainingPaid, PaidSlots, AbsentRequest
        <3>2. ASSUME NEW x \in RequestIds, NEW s \in Slots
              PROVE  <<x, s>> \in SpentClaims(c, k, y) <=> <<x, s>> \in SpentClaims(b, k, y)
            <4>1. CASE x = r
                BY <1>1, <1>3, <3>1, <4>1 DEF SpentClaims, Charging
            <4>2. CASE x # r
                BY <1>3, <4>2 DEF SpentClaims
            <4>. QED
                BY <4>1, <4>2
        <3>. QED
            BY <3>2 DEF SpentClaims
    <2>4. HeldClaims(c, k, y) = HeldClaims(b, k, y) \cup ({r} \X added)
        <3>1. ASSUME NEW x \in RequestIds, NEW s \in Slots
              PROVE  <<x, s>> \in HeldClaims(c, k, y)
                        <=> <<x, s>> \in HeldClaims(b, k, y) \/ (x = r /\ s \in added)
            <4>1. CASE x = r
                BY <1>3, <4>1 DEF HeldClaims, IsActive
            <4>2. CASE x # r
                BY <1>3, <4>2 DEF HeldClaims
            <4>. QED
                BY <4>1, <4>2
        <3>2. /\ HeldClaims(b, k, y) \subseteq RequestIds \X Slots
              /\ HeldClaims(c, k, y) \subseteq RequestIds \X Slots
            BY DEF HeldClaims
        <3>. HIDE DEF added
        <3>. QED
            BY <2>2, <3>1, <3>2
    <2>5. HeldClaims(b, k, y) \cap ({r} \X added) = {}
        BY DEF HeldClaims, IsActive
    <2>. HIDE DEF added
    <2>6. HeldClaims(b, k, y) \subseteq RequestIds \X Slots
        BY DEF HeldClaims
    <2>7. /\ {r} \X added \subseteq RequestIds \X Slots
          /\ Cardinality({r} \X added) = Cardinality(added)
        BY <2>2, ClaimsOfOne
    <2>8. Cardinality(HeldClaims(c, k, y)) = Cardinality(HeldClaims(b, k, y)) + Cardinality(added)
        <3>1. Cardinality(HeldClaims(b, k, y) \cup ({r} \X added))
                = Cardinality(HeldClaims(b, k, y)) + Cardinality({r} \X added)
            BY <2>5, <2>6, <2>7, DisjointClaims
        <3>. QED
            BY <2>4, <2>7, <3>1
    <2>. QED
        BY <1>2, <2>1, <2>3, <2>8 DEF Sound
<1>. QED
    BY <1>3, <1>5, <1>6, <1>7 DEF Sound

\* promoteToApprovedTx: r is approved and the leave it replaces, if it stands,
\* is superseded; nothing else changes but what is consumed on the way.
LEMMA PromotedSound ==
    ASSUME NEW b, Sound(b), NEW r \in RequestIds, b.requests[r].status = "Pending",
           NEW t \in Nat, NEW tz \in Int, NEW c, c = Promoted(b, r, t, tz)
    PROVE  /\ Sound(c)
           /\ SameTerms(c.requests[r], b.requests[r])
           /\ c.requests[r].status = "Approved"
           /\ \A x \in RequestIds \ {r} :
                IF Replaces(b, r, x)
                THEN /\ Frozen(c.requests[x]) = Frozen(b.requests[x])
                     /\ c.requests[x].status = "Superseded"
                ELSE ConsumedFrom(c.requests[x], b.requests[x])
           /\ \A x \in RequestIds \ {r} :
                Replaces(b, r, x)
                => c.requests[x].consumed = Reconciled(b, t, tz).requests[x].consumed
<1>. DEFINE o == b.requests[r].supersedes
<1>1. b \in Drafts /\ b.requests[r] \in Requests
    BY DEF Sound, Drafts
<1>2. CASE Replaces(b, r, o)
    <2>1. o \in RequestIds /\ o # r /\ b.requests[o].status = "Approved"
        BY <1>1, <1>2 DEF Replaces, Requests
    <2>2. PICK d : d = Reconciled(b, t, tz)
        OBVIOUS
    <2>3. /\ Sound(d)
          /\ \A x \in RequestIds : ConsumedFrom(d.requests[x], b.requests[x])
        BY <2>2, ReconciledSound
    <2>4. IsActive(d.requests[o])
        BY <2>1, <2>3 DEF ConsumedFrom, IsActive
    <2>5. PICK e : e = SetStatus(Released(d, o), o, "Superseded")
        OBVIOUS
    <2>6. /\ Sound(e)
          /\ SettledFrom(e.requests[o], d.requests[o])
          /\ e.requests[o].status = "Superseded"
          /\ \A x \in RequestIds \ {o} : e.requests[x] = d.requests[x]
        <3>1. o \in RequestIds /\ Sound(d)
            BY <2>1, <2>3
        <3>. HIDE DEF o
        <3>. QED
            BY ONLY <2>4, <2>5, <3>1, ReleaseThenSettle
    <2>7. PICK f : f = SetLastAction(e, o, "superseded")
        OBVIOUS
    <2>8. d.requests[o] \in Requests /\ e \in Drafts
        BY <2>1, <2>3, <2>6 DEF Sound, Drafts
    <2>9. /\ Frozen(e.requests[o]) = Frozen(b.requests[o])
          /\ e.requests[o].status = "Superseded"
        BY <2>1, <2>3, <2>6 DEF ConsumedFrom, SettledFrom
    <2>10. /\ Sound(f)
           /\ f.requests[o] = [e.requests[o] EXCEPT !.lastAction = "superseded"]
           /\ \A x \in RequestIds \ {o} : f.requests[x] = e.requests[x]
        <3>1. /\ o \in RequestIds /\ Sound(e) /\ e \in Drafts
              /\ e.requests[o].status # "Absent"
              /\ "superseded" \in Actions
            BY <2>1, <2>6, <2>8, <2>9 DEF Actions
        <3>. HIDE DEF o
        <3>2. Sound(f)
            BY ONLY <2>7, <3>1, SetLastActionSound
        <3>. QED
            BY ONLY <2>7, <3>1, <3>2, SetLastActionRows
    <2>11. /\ Frozen(f.requests[o]) = Frozen(b.requests[o])
           /\ f.requests[o].status = "Superseded"
           /\ f.requests[o].consumed = d.requests[o].consumed
        <3>1. e.requests[o] \in Requests /\ e.requests[o].consumed = d.requests[o].consumed
            BY <2>1, <2>6, <2>8 DEF SettledFrom, Drafts
        <3>. HIDE DEF o
        <3>2. f.requests[o] = [e.requests[o] EXCEPT !.lastAction = "superseded"]
            BY <2>10
        <3>. QED
            BY ONLY <2>9, <3>1, <3>2 DEF Frozen, Requests
    <2>12. c = SetStatus(f, r, "Approved")
        BY <1>2, <2>2, <2>5, <2>7 DEF Promoted
    <2>13. f.requests[r] = b.requests[r]
        BY <2>1, <2>3, <2>6, <2>10 DEF ConsumedFrom
    <2>14. f \in Drafts
        BY <2>10 DEF Sound
    <2>15. /\ Sound(c)
           /\ c.requests[r] = [f.requests[r] EXCEPT !.status = "Approved"]
           /\ \A x \in RequestIds \ {r} : c.requests[x] = f.requests[x]
        <3>1. /\ r \in RequestIds /\ Sound(f) /\ f \in Drafts
              /\ f.requests[r].status = "Pending"
              /\ "Approved" \in Statuses
            BY <2>10, <2>13, <2>14 DEF Statuses
        <3>2. Sound(c)
            BY ONLY <2>12, <3>1, ApprovedSound
        <3>. QED
            BY ONLY <2>12, <3>1, <3>2, SetStatusRows
    <2>16. ASSUME NEW x \in RequestIds \ {r}
           PROVE  IF Replaces(b, r, x)
                  THEN /\ Frozen(c.requests[x]) = Frozen(b.requests[x])
                       /\ c.requests[x].status = "Superseded"
                  ELSE ConsumedFrom(c.requests[x], b.requests[x])
        <3>1. CASE x = o
            BY <1>2, <2>11, <2>15, <3>1
        <3>2. CASE x # o
            BY <2>3, <2>6, <2>10, <2>15, <3>2 DEF Replaces
        <3>. QED
            BY <3>1, <3>2
    <2>17. SameTerms(c.requests[r], b.requests[r]) /\ c.requests[r].status = "Approved"
        BY <1>1, <2>13, <2>15 DEF SameTerms, Frozen, Requests
    <2>18. \A x \in RequestIds \ {r} :
             Replaces(b, r, x) => c.requests[x].consumed = d.requests[x].consumed
        BY <2>1, <2>11, <2>15 DEF Replaces
    <2>. QED
        BY <2>2, <2>15, <2>16, <2>17, <2>18
<1>3. CASE ~Replaces(b, r, o)
    <2>1. c = SetStatus(b, r, "Approved")
        BY <1>3 DEF Promoted
    <2>2. /\ Sound(c)
          /\ c.requests[r] = [b.requests[r] EXCEPT !.status = "Approved"]
          /\ \A x \in RequestIds \ {r} : c.requests[x] = b.requests[x]
        <3>1. /\ r \in RequestIds /\ Sound(b) /\ b \in Drafts
              /\ b.requests[r].status = "Pending"
              /\ "Approved" \in Statuses
            BY <1>1 DEF Statuses
        <3>2. Sound(c)
            BY ONLY <2>1, <3>1, ApprovedSound
        <3>. QED
            BY ONLY <2>1, <3>1, <3>2, SetStatusRows
    <2>3. \A x \in RequestIds : ~Replaces(b, r, x)
        BY <1>3 DEF Replaces
    <2>4. SameTerms(c.requests[r], b.requests[r]) /\ c.requests[r].status = "Approved"
        BY <1>1, <2>2 DEF SameTerms, Frozen, Requests
    <2>. QED
        BY <2>2, <2>3, <2>4 DEF ConsumedFrom
<1>. QED
    BY <1>2, <1>3

--------------------------------------------------------------------------------
(* Lawful books: sound, no date booked twice, every pending replacement     *)
(* paired with a leave that stands, every leave day within its period.      *)

\* NoDoubleBooking of books b, in the words of the guard.
Apart(b) ==
    \A r, x \in RequestIds :
        /\ r # x
        /\ IsActive(b.requests[r])
        /\ Overlaps(b.requests[x], <<b.requests[r].first, b.requests[r].last>>)
        => \/ b.requests[r].status = "Pending" /\ b.requests[r].supersedes = x
           \/ b.requests[x].status = "Pending" /\ b.requests[x].supersedes = r

\* ReplacementHasOriginal of books b.
Paired(b) ==
    \A r \in RequestIds :
        LET q == b.requests[r]
        IN  q.status = "Pending" /\ q.supersedes # NoRequest
            => /\ b.requests[q.supersedes].status = "Approved"
               /\ \A x \in RequestIds \ {r} :
                    b.requests[x].status = "Pending" => b.requests[x].supersedes # q.supersedes

WithinPeriod(q) == \A d \in LeaveDays(q) : q.first <= d

Lawful(b) ==
    /\ Sound(b)
    /\ Apart(b)
    /\ Paired(b)
    /\ \A r \in RequestIds : WithinPeriod(b.requests[r])

\* A row keeps its place in the calendar.
SameBooking(p, q) == Frozen(p) = Frozen(q) /\ p.status = q.status

LEMMA WithinPeriodKept ==
    ASSUME NEW p, NEW q, Frozen(p) = Frozen(q), WithinPeriod(q)
    PROVE  WithinPeriod(p)
    BY DEF Frozen, WithinPeriod, LeaveDays

LEMMA LawfulKept ==
    ASSUME NEW b, Lawful(b), NEW c, Sound(c),
           \A r \in RequestIds : SameBooking(c.requests[r], b.requests[r])
    PROVE  Lawful(c)
<1>1. Apart(c)
    BY DEF Lawful, Apart, SameBooking, Frozen, Overlaps, IsActive
<1>2. Paired(c)
    BY DEF Lawful, Paired, SameBooking, Frozen, Sound, Drafts, Requests
<1>3. \A r \in RequestIds : WithinPeriod(c.requests[r])
    BY WithinPeriodKept DEF Lawful, SameBooking
<1>. QED
    BY <1>1, <1>2, <1>3 DEF Lawful

\* A settled request frees its dates; nothing was waiting to replace it.
LEMMA LawfulSettled ==
    ASSUME NEW b, Lawful(b), NEW r \in RequestIds, NEW c, Sound(c),
           SettledFrom(c.requests[r], b.requests[r]),
           \A x \in RequestIds \ {r} : c.requests[x] = b.requests[x],
           \/ b.requests[r].status = "Pending"
           \/ \A x \in RequestIds :
                b.requests[x].status = "Pending" => b.requests[x].supersedes # r
    PROVE  Lawful(c)
<1>1. ~IsActive(c.requests[r])
    BY DEF SettledFrom, IsActive
<1>2. Apart(c)
    BY <1>1 DEF Lawful, Apart, Overlaps
<1>3. ASSUME NEW x \in RequestIds, c.requests[x].status = "Pending",
             c.requests[x].supersedes # NoRequest
      PROVE  /\ c.requests[c.requests[x].supersedes].status = "Approved"
             /\ \A y \in RequestIds \ {x} :
                    c.requests[y].status = "Pending"
                    => c.requests[y].supersedes # c.requests[x].supersedes
    <2>. DEFINE o == b.requests[x].supersedes
    <2>1. x # r /\ c.requests[x] = b.requests[x]
        BY <1>3 DEF SettledFrom
    <2>2. /\ b.requests[o].status = "Approved"
          /\ \A y \in RequestIds \ {x} :
                b.requests[y].status = "Pending" => b.requests[y].supersedes # o
        BY <1>3, <2>1 DEF Lawful, Paired
    <2>3. o \in RequestIds
        BY <1>3, <2>1 DEF Lawful, Sound, Drafts, Requests
    <2>4. o # r
        BY <1>3, <2>1, <2>2
    <2>5. c.requests[o].status = "Approved"
        BY <2>2, <2>3, <2>4
    <2>6. ASSUME NEW y \in RequestIds \ {x}, c.requests[y].status = "Pending"
          PROVE  c.requests[y].supersedes # o
        BY <2>2, <2>6 DEF SettledFrom
    <2>. QED
        BY <2>1, <2>5, <2>6
<1>4. Paired(c)
    BY <1>3 DEF Paired
<1>5. \A x \in RequestIds : WithinPeriod(c.requests[x])
    BY WithinPeriodKept DEF Lawful, SettledFrom
<1>. QED
    BY <1>2, <1>4, <1>5 DEF Lawful

\* An approval swaps the original out, so the dates sit on one request.
LEMMA LawfulPromoted ==
    ASSUME NEW b, Lawful(b), NEW r \in RequestIds, b.requests[r].status = "Pending",
           NEW t \in Nat, NEW tz \in Int, NEW c, c = Promoted(b, r, t, tz)
    PROVE  Lawful(c)
<1>. DEFINE o == b.requests[r].supersedes
<1>1. /\ Sound(c)
      /\ Frozen(c.requests[r]) = Frozen(b.requests[r])
      /\ c.requests[r].status = "Approved"
      /\ \A x \in RequestIds \ {r} :
            IF Replaces(b, r, x)
            THEN /\ Frozen(c.requests[x]) = Frozen(b.requests[x])
                 /\ c.requests[x].status = "Superseded"
            ELSE ConsumedFrom(c.requests[x], b.requests[x])
    BY PromotedSound DEF Lawful, SameTerms
<1>2. o \in RequestIds => o # NoRequest /\ b.requests[o].status = "Approved" /\ Replaces(b, r, o)
    BY IdAssumption DEF Lawful, Paired, Replaces
<1>3. \A x \in RequestIds \ {r} :
        IF x = o THEN c.requests[x].status = "Superseded"
                 ELSE c.requests[x].status = b.requests[x].status
    BY <1>1, <1>2 DEF ConsumedFrom, Replaces
<1>4. \A x \in RequestIds : Frozen(c.requests[x]) = Frozen(b.requests[x])
    BY <1>1 DEF ConsumedFrom
<1>5. \A x \in RequestIds : b.requests[x].status = "Pending" => b.requests[x].supersedes # r
    BY IdAssumption DEF Lawful, Paired
<1>6. Apart(c)
    BY <1>1, <1>3, <1>4, <1>5 DEF Lawful, Apart, Frozen, Overlaps, IsActive
<1>7. ASSUME NEW x \in RequestIds, c.requests[x].status = "Pending",
             c.requests[x].supersedes # NoRequest
      PROVE  /\ c.requests[c.requests[x].supersedes].status = "Approved"
             /\ \A y \in RequestIds \ {x} :
                    c.requests[y].status = "Pending"
                    => c.requests[y].supersedes # c.requests[x].supersedes
    <2>. DEFINE u == b.requests[x].supersedes
    <2>1. /\ x # r
          /\ b.requests[x].status = "Pending"
          /\ c.requests[x].supersedes = u
        BY <1>1, <1>3, <1>4, <1>7 DEF Frozen
    <2>2. /\ b.requests[u].status = "Approved"
          /\ \A y \in RequestIds \ {x} :
                b.requests[y].status = "Pending" => b.requests[y].supersedes # u
        BY <1>7, <2>1 DEF Lawful, Paired
    <2>3. u \in RequestIds
        BY <1>7, <2>1 DEF Lawful, Sound, Drafts, Requests
    <2>4. u # r /\ u # o
        BY <2>1, <2>2
    <2>5. c.requests[u].status = "Approved"
        BY <1>3, <2>2, <2>3, <2>4
    <2>6. ASSUME NEW y \in RequestIds \ {x}, c.requests[y].status = "Pending"
          PROVE  c.requests[y].supersedes # u
        BY <1>1, <1>3, <1>4, <2>2, <2>6 DEF Frozen
    <2>. QED
        BY <2>1, <2>5, <2>6
<1>8. Paired(c)
    BY <1>7 DEF Paired
<1>9. \A x \in RequestIds : WithinPeriod(c.requests[x])
    BY <1>4, WithinPeriodKept DEF Lawful
<1>. QED
    BY <1>1, <1>6, <1>8, <1>9 DEF Lawful

\* A new request overlaps nothing but the leave it is to replace.
LEMMA LawfulFiled ==
    ASSUME NEW b, Lawful(b), NEW r \in RequestIds, b.requests[r].status = "Absent",
           NEW q \in Requests, q.status = "Pending", WithinPeriod(q),
           \A x \in RequestIds \ {q.supersedes} : ~Overlaps(b.requests[x], <<q.first, q.last>>),
           q.supersedes # NoRequest =>
                /\ b.requests[q.supersedes].status = "Approved"
                /\ \A x \in RequestIds :
                    b.requests[x].status = "Pending" => b.requests[x].supersedes # q.supersedes,
           NEW c, Sound(c), c.requests[r] = q,
           \A x \in RequestIds \ {r} : c.requests[x] = b.requests[x]
    PROVE  Lawful(c)
<1>1. ASSUME NEW x \in RequestIds \ {r}, IsActive(c.requests[x]),
             \/ Overlaps(c.requests[x], <<q.first, q.last>>)
             \/ Overlaps(q, <<c.requests[x].first, c.requests[x].last>>)
      PROVE  q.supersedes = x
    BY <1>1 DEF Overlaps, IsActive
<1>2. Apart(c)
    <2>1. ASSUME NEW y \in RequestIds, NEW x \in RequestIds, y # x, IsActive(c.requests[y]),
                 Overlaps(c.requests[x], <<c.requests[y].first, c.requests[y].last>>)
          PROVE  \/ c.requests[y].status = "Pending" /\ c.requests[y].supersedes = x
                 \/ c.requests[x].status = "Pending" /\ c.requests[x].supersedes = y
        <3>1. CASE y = r
            BY <1>1, <2>1, <3>1 DEF Overlaps
        <3>2. CASE x = r
            BY <1>1, <2>1, <3>2
        <3>3. CASE y # r /\ x # r
            BY <2>1, <3>3 DEF Lawful, Apart
        <3>. QED
            BY <3>1, <3>2, <3>3
    <2>. QED
        BY <2>1 DEF Apart
<1>3. ASSUME NEW x \in RequestIds, c.requests[x].status = "Pending",
             c.requests[x].supersedes # NoRequest
      PROVE  /\ c.requests[c.requests[x].supersedes].status = "Approved"
             /\ \A y \in RequestIds \ {x} :
                    c.requests[y].status = "Pending"
                    => c.requests[y].supersedes # c.requests[x].supersedes
    <2>. DEFINE o == c.requests[x].supersedes
    <2>1. o \in RequestIds
        BY <1>3 DEF Sound, Drafts, Requests
    <2>2. CASE x = r
        <3>1. b.requests[o].status = "Approved" /\ o # r
            BY <1>3, <2>2
        <3>. QED
            BY <1>3, <2>1, <2>2, <3>1
    <2>3. CASE x # r
        <3>1. /\ b.requests[o].status = "Approved"
              /\ \A y \in RequestIds \ {x} :
                    b.requests[y].status = "Pending" => b.requests[y].supersedes # o
            BY <1>3, <2>3 DEF Lawful, Paired
        <3>2. o # r
            BY <3>1
        <3>3. q.supersedes # o
            BY <1>3, <2>3
        <3>. QED
            BY <2>1, <3>1, <3>2, <3>3
    <2>. QED
        BY <2>2, <2>3
<1>4. Paired(c)
    BY <1>3 DEF Paired
<1>5. \A x \in RequestIds : WithinPeriod(c.requests[x])
    BY DEF Lawful
<1>. QED
    BY <1>2, <1>4, <1>5 DEF Lawful

--------------------------------------------------------------------------------
(* What each transaction does to the rows                                   *)

Inv == TypeOK /\ Lawful(books)

LEMMA NowAndZone ==
    ASSUME TypeOK
    PROVE  now \in Nat /\ zone \in Int /\ zone <= 14
    BY ClockAssumption DEF TypeOK

\* Row p is row q after transactions about other requests: approved leave may
\* have been consumed further or announced as being modified.
Later(p, q) ==
    /\ Frozen(p) = Frozen(q)
    /\ p.status = q.status
    /\ q.consumed \subseteq p.consumed
    /\ q.status # "Approved" => p = q

NotStarted(q, t) == 24 * q.first > t /\ q.consumed = {}

LEMMA ConsumedIsLater ==
    ASSUME NEW p, NEW q, ConsumedFrom(p, q)
    PROVE  Later(p, q)
    BY DEF ConsumedFrom, Later

\* Promotion that is not refused supersedes only leave that has not started.
LEMMA PromotedRows ==
    ASSUME NEW b, Lawful(b), NEW r \in RequestIds, b.requests[r].status = "Pending",
           NEW t \in Nat, NEW tz \in Int, ~PromotionRefused(b, r, t, tz),
           NEW action \in Actions,
           NEW c, c = SetLastAction(Promoted(b, r, t, tz), r, action)
    PROVE  /\ Lawful(c)
           /\ c.requests[r].status = "Approved"
           /\ c.requests[r].lastAction = action
           /\ \A x \in RequestIds \ {r} :
                IF Replaces(b, r, x)
                THEN c.requests[x].status = "Superseded" /\ NotStarted(b.requests[x], t)
                ELSE ConsumedFrom(c.requests[x], b.requests[x])
           /\ SameTerms(c.requests[r], b.requests[r])
           /\ \A x \in RequestIds \ {r} : Replaces(b, r, x) => Untaken(c.requests[x], b.requests[x])
<1>1. PICK d : d = Promoted(b, r, t, tz)
    OBVIOUS
<1>2. Lawful(d)
    BY <1>1, LawfulPromoted
<1>3. /\ d.requests[r].status = "Approved"
      /\ \A x \in RequestIds \ {r} :
            IF Replaces(b, r, x)
            THEN /\ Frozen(d.requests[x]) = Frozen(b.requests[x])
                 /\ d.requests[x].status = "Superseded"
            ELSE ConsumedFrom(d.requests[x], b.requests[x])
      /\ SameTerms(d.requests[r], b.requests[r])
      /\ \A x \in RequestIds \ {r} :
            Replaces(b, r, x)
            => d.requests[x].consumed = Reconciled(b, t, tz).requests[x].consumed
    BY <1>1, PromotedSound DEF Lawful
<1>4. d \in Drafts
    BY <1>2 DEF Lawful, Sound
<1>5. c = SetLastAction(d, r, action)
    BY <1>1
<1>6. /\ c.requests[r] = [d.requests[r] EXCEPT !.lastAction = action]
      /\ \A x \in RequestIds \ {r} : c.requests[x] = d.requests[x]
    BY ONLY <1>4, <1>5, SetLastActionRows, r \in RequestIds, action \in Actions
<1>7. Sound(c)
    <2>1. Sound(d) /\ d.requests[r].status # "Absent"
        BY <1>2, <1>3 DEF Lawful
    <2>. QED
        BY ONLY <1>5, <2>1, SetLastActionSound, r \in RequestIds, action \in Actions
<1>8. /\ SameBooking(c.requests[r], d.requests[r])
      /\ c.requests[r].status = "Approved"
      /\ c.requests[r].lastAction = action
    BY <1>3, <1>4, <1>6 DEF SameBooking, Frozen, Drafts, Requests
<1>9. Lawful(c)
    <2>1. \A x \in RequestIds : SameBooking(c.requests[x], d.requests[x])
        BY <1>6, <1>8 DEF SameBooking
    <2>. QED
        BY ONLY <1>2, <1>7, <2>1, LawfulKept
<1>10. ASSUME NEW x \in RequestIds, Replaces(b, r, x)
       PROVE  NotStarted(b.requests[x], t) /\ d.requests[x].consumed = {}
    <2>1. PICK e : e = Reconciled(b, t, tz)
        OBVIOUS
    <2>2. ~HasStarted(e.requests[x], t)
        BY <1>10, <2>1 DEF PromotionRefused
    <2>3. ConsumedFrom(e.requests[x], b.requests[x])
        BY <2>1, ReconciledSound DEF Lawful
    <2>4. b.requests[x].first \in Nat
        BY CalendarAssumption DEF Lawful, Sound, Drafts, Requests
    <2>5. x # r /\ d.requests[x].consumed = e.requests[x].consumed
        BY <1>3, <1>10, <2>1 DEF Replaces
    <2>. QED
        BY <2>2, <2>3, <2>4, <2>5 DEF HasStarted, ConsumedFrom, Frozen, NotStarted
<1>11. SameTerms(c.requests[r], b.requests[r])
    BY <1>3, <1>4, <1>6 DEF SameTerms, Frozen, Drafts, Requests
<1>12. \A x \in RequestIds \ {r} : Replaces(b, r, x) => Untaken(c.requests[x], b.requests[x])
    BY <1>3, <1>6, <1>10 DEF Untaken
<1>. QED
    BY <1>3, <1>6, <1>8, <1>9, <1>10, <1>11, <1>12

LEMMA ApproveRows ==
    ASSUME Inv, NEW r \in RequestIds, books.requests[r].status = "Pending",
           NEW action \in Actions, Approve(r, action)
    PROVE  /\ Lawful(books')
           /\ books'.requests[r].status = "Approved"
           /\ books'.requests[r].lastAction = action
           /\ \A x \in RequestIds \ {r} :
                IF Replaces(books, r, x)
                THEN books'.requests[x].status = "Superseded" /\ NotStarted(books.requests[x], now)
                ELSE Later(books'.requests[x], books.requests[x])
           /\ SameTerms(books'.requests[r], books.requests[r])
           /\ \A x \in RequestIds \ {r} :
                Replaces(books, r, x) => Untaken(books'.requests[x], books.requests[x])
<1>1. now \in Nat /\ zone \in Int
    BY NowAndZone DEF Inv
<1>2. /\ Lawful(books)
      /\ ~PromotionRefused(books, r, now, zone)
      /\ books' = SetLastAction(Promoted(books, r, now, zone), r, action)
    BY DEF Inv, Approve, Commit
<1>3. \A x \in RequestIds \ {r} :
        IF Replaces(books, r, x)
        THEN books'.requests[x].status = "Superseded" /\ NotStarted(books.requests[x], now)
        ELSE ConsumedFrom(books'.requests[x], books.requests[x])
    BY <1>1, <1>2, PromotedRows
<1>4. /\ Lawful(books')
      /\ books'.requests[r].status = "Approved"
      /\ books'.requests[r].lastAction = action
      /\ SameTerms(books'.requests[r], books.requests[r])
      /\ \A x \in RequestIds \ {r} :
            Replaces(books, r, x) => Untaken(books'.requests[x], books.requests[x])
    BY <1>1, <1>2, PromotedRows
<1>. QED
    BY <1>3, <1>4, ConsumedIsLater

LEMMA SettleRows ==
    ASSUME Inv, NEW r \in RequestIds,
           \/ books.requests[r].status = "Pending"
           \/ books.requests[r].status = "Approved" /\ ~PendingReplacement(r),
           NEW status \in {"Rejected", "Cancelled"}, NEW action \in Actions,
           Settle(r, status, action)
    PROVE  /\ Lawful(books')
           /\ books'.requests[r].status = status
           /\ SameTerms(books'.requests[r], books.requests[r])
           /\ \A x \in RequestIds \ {r} : books'.requests[x] = books.requests[x]
<1>1. PICK c : c = Released(SetStatus(books, r, status), r)
    OBVIOUS
<1>2. books' = SetLastAction(c, r, action)
    BY <1>1 DEF Settle, Commit
<1>3. IsActive(books.requests[r]) /\ Lawful(books) /\ Sound(books)
    BY DEF IsActive, Inv, Lawful
<1>4. /\ Sound(c)
      /\ SettledFrom(c.requests[r], books.requests[r])
      /\ c.requests[r].status = status
      /\ \A x \in RequestIds \ {r} : c.requests[x] = books.requests[x]
    BY ONLY <1>1, <1>3, SettleThenRelease, r \in RequestIds, status \in {"Rejected", "Cancelled"}
<1>5. Lawful(c)
    BY <1>3, <1>4, LawfulSettled DEF PendingReplacement
<1>6. c \in Drafts /\ c.requests[r].status # "Absent"
    BY <1>4 DEF Sound
<1>7. Sound(books')
    BY ONLY <1>2, <1>4, <1>6, SetLastActionSound, r \in RequestIds, action \in Actions
<1>8. /\ books'.requests[r] = [c.requests[r] EXCEPT !.lastAction = action]
      /\ \A x \in RequestIds \ {r} : books'.requests[x] = c.requests[x]
    BY ONLY <1>2, <1>6, SetLastActionRows, r \in RequestIds, action \in Actions
<1>9. SameBooking(books'.requests[r], c.requests[r])
    BY <1>6, <1>8 DEF SameBooking, Frozen, Drafts, Requests
<1>10. \A x \in RequestIds : SameBooking(books'.requests[x], c.requests[x])
    BY ONLY <1>8, <1>9 DEF SameBooking
<1>11. Lawful(books')
    BY ONLY <1>5, <1>7, <1>10, LawfulKept
<1>12. SameTerms(books'.requests[r], books.requests[r])
    BY <1>4, <1>6, <1>8 DEF SameTerms, SettledFrom, Frozen, Drafts, Requests
<1>. QED
    BY <1>4, <1>8, <1>9, <1>11, <1>12 DEF SameBooking

LEMMA AnnotateRows ==
    ASSUME Inv, NEW r \in RequestIds, books.requests[r].status # "Absent",
           NEW action \in Actions, books' = SetLastAction(books, r, action)
    PROVE  /\ Lawful(books')
           /\ books'.requests[r].status = books.requests[r].status
           /\ SameTerms(books'.requests[r], books.requests[r])
           /\ \A x \in RequestIds \ {r} : books'.requests[x] = books.requests[x]
<1>1. Lawful(books) /\ Sound(books) /\ books \in Drafts
    BY DEF Inv, Lawful, Sound
<1>2. Sound(books')
    BY <1>1, SetLastActionSound
<1>3. /\ books'.requests[r] = [books.requests[r] EXCEPT !.lastAction = action]
      /\ \A x \in RequestIds \ {r} : books'.requests[x] = books.requests[x]
    BY <1>1, SetLastActionRows
<1>4. SameBooking(books'.requests[r], books.requests[r])
    BY <1>1, <1>3 DEF SameBooking, Frozen, Drafts, Requests
<1>5. \A x \in RequestIds : SameBooking(books'.requests[x], books.requests[x])
    BY ONLY <1>3, <1>4 DEF SameBooking
<1>6. Lawful(books')
    BY ONLY <1>1, <1>2, <1>5, LawfulKept
<1>7. SameTerms(books'.requests[r], books.requests[r])
    BY <1>1, <1>3 DEF SameTerms, Frozen, Drafts, Requests
<1>. QED
    BY <1>3, <1>4, <1>6, <1>7 DEF SameBooking

LEMMA RefreshRows ==
    ASSUME Inv, Refresh
    PROVE  /\ Lawful(books')
           /\ \A x \in RequestIds : Later(books'.requests[x], books.requests[x])
<1>1. books' = Reconciled(books, now, zone)
    BY DEF Refresh, Commit
<1>2. now \in Nat /\ zone \in Int /\ Lawful(books)
    BY NowAndZone DEF Inv
<1>3. /\ Sound(books')
      /\ \A x \in RequestIds : ConsumedFrom(books'.requests[x], books.requests[x])
    BY <1>1, <1>2, ReconciledSound DEF Lawful
<1>4. Lawful(books')
    BY <1>2, <1>3, LawfulKept DEF ConsumedFrom, SameBooking
<1>. QED
    BY <1>3, <1>4, ConsumedIsLater

\* The row createLeaveRequestTx inserts.
NewRow(type, period, hours, unpaid, original) ==
    LET slots == {s \in Slots : s[1] \in DOMAIN hours /\ s[2] <= hours[s[1]]}
    IN  [status |-> "Pending", type |-> type, first |-> period[1], last |-> period[2],
         slots |-> slots, unpaid |-> unpaid, consumed |-> {},
         held |-> Cardinality({s \in slots : s[1] \notin unpaid}),
         supersedes |-> original, lastAction |-> "submitted"]

Addressees(explicit) == explicit \cup (IF approvalRequired THEN DefaultApprovers ELSE {})

LEMMA NewRowIsSound ==
    ASSUME NEW type \in LeaveTypes, NEW period \in Periods,
           NEW dates, dates = WorkingDays \cap (period[1]..period[2]),
           NEW hours \in [dates -> BookableHours], NEW unpaid \in SUBSET dates,
           NEW original \in RequestIds \cup {NoRequest},
           NEW q, q = NewRow(type, period, hours, unpaid, original)
    PROVE  /\ q \in Requests
           /\ q.held = Cardinality(RemainingPaid(q))
           /\ WithinPeriod(q)
<1>. DEFINE slots == {s \in Slots : s[1] \in DOMAIN hours /\ s[2] <= hours[s[1]]}
            paid == {s \in slots : s[1] \notin unpaid}
<1>1. period[1] \in Days /\ period[2] \in Days /\ dates \subseteq Days
    BY CalendarAssumption
<1>2. RemainingPaid(q) = paid
    BY DEF NewRow, RemainingPaid, PaidSlots
<1>3. Cardinality(paid) \in Nat
    BY FiniteSlots, FS_Subset, FS_CardinalityType
<1>4. q \in Requests
    <2>1. "Pending" \in Statuses /\ "submitted" \in Actions
        BY DEF Statuses, Actions
    <2>2. slots \in SUBSET Slots /\ unpaid \in SUBSET Days /\ {} \in SUBSET Days
        BY <1>1
    <2>3. q = [status |-> "Pending", type |-> type, first |-> period[1], last |-> period[2],
               slots |-> slots, unpaid |-> unpaid, consumed |-> {},
               held |-> Cardinality(paid), supersedes |-> original, lastAction |-> "submitted"]
        BY DEF NewRow
    <2>. HIDE DEF slots, paid
    <2>. QED
        BY <1>1, <1>3, <2>1, <2>2, <2>3 DEF Requests
<1>5. WithinPeriod(q)
    <2>1. \A d \in LeaveDays(q) : d \in dates
        BY DEF LeaveDays, NewRow
    <2>2. \A d \in dates : period[1] <= d
        BY <1>1, CalendarAssumption
    <2>. QED
        BY <2>1, <2>2 DEF WithinPeriod, NewRow
<1>. QED
    BY <1>2, <1>4, <1>5 DEF NewRow

\* Filing r: pending when somebody is asked, approved at once otherwise.
LEMMA CreateRows ==
    ASSUME Inv, NEW r \in RequestIds, NEW type \in LeaveTypes, NEW period \in Periods,
           NEW dates, dates = WorkingDays \cap (period[1]..period[2]),
           NEW hours \in [dates -> BookableHours], NEW unpaid \in SUBSET dates,
           NEW explicit \in SUBSET Approvers,
           NEW original \in RequestIds \cup {NoRequest},
           original # NoRequest => /\ books.requests[original].status = "Approved"
                                   /\ ~PendingReplacement(original),
           CreateRequest(r, type, period, hours, unpaid, explicit, original)
    PROVE  /\ Lawful(books')
           /\ books.requests[r].status = "Absent"
           /\ IF Addressees(explicit) = {}
              THEN books'.requests[r].status = "Approved" /\ ~approvalRequired
              ELSE books'.requests[r].status = "Pending"
           /\ \A x \in RequestIds \ {r} :
                \/ Later(books'.requests[x], books.requests[x])
                \/ /\ books.requests[x].status = "Approved"
                   /\ books'.requests[x].status = "Superseded"
                   /\ NotStarted(books.requests[x], now)
           /\ books'.requests[r].consumed = {}
           /\ \A x \in RequestIds \ {r} :
                books.requests[x].status = "Approved" /\ books'.requests[x].status = "Superseded"
                => Untaken(books'.requests[x], books.requests[x])
<1>1. /\ now \in Nat /\ zone \in Int /\ Lawful(books)
      /\ books \in Drafts
      /\ books.requests[r].status = "Absent"
    BY NowAndZone DEF Inv, Lawful, Sound, CreateRequest
<1>2. PICK q : q = NewRow(type, period, hours, unpaid, original)
    OBVIOUS
<1>3. /\ q \in Requests
      /\ q.held = Cardinality(RemainingPaid(q))
      /\ WithinPeriod(q)
    BY <1>2, NewRowIsSound
<1>4. /\ q.status = "Pending" /\ q.consumed = {} /\ q.supersedes = original
      /\ q.first = period[1] /\ q.last = period[2]
    BY <1>2 DEF NewRow
<1>5. PICK b : b = Reconciled(books, now, zone)
    OBVIOUS
<1>6. /\ Sound(b)
      /\ \A x \in RequestIds : ConsumedFrom(b.requests[x], books.requests[x])
    BY <1>1, <1>5, ReconciledSound DEF Lawful
<1>7. Lawful(b)
    BY <1>1, <1>6, LawfulKept DEF ConsumedFrom, SameBooking
<1>8. PICK c : c = Held(b, r, q)
    OBVIOUS
<1>9. b.requests[r].status = "Absent"
    BY <1>1, <1>6 DEF ConsumedFrom
<1>10. /\ Sound(c)
       /\ c.requests[r] = q
       /\ \A x \in RequestIds \ {r} : c.requests[x] = b.requests[x]
    BY <1>3, <1>4, <1>6, <1>8, <1>9, FiledSound
<1>11. \A x \in RequestIds \ {original} : ~Overlaps(books.requests[x], period)
    BY DEF CreateRequest
<1>12. Lawful(c)
    <2>1. \A x \in RequestIds \ {q.supersedes} : ~Overlaps(b.requests[x], <<q.first, q.last>>)
        BY <1>4, <1>6, <1>11 DEF ConsumedFrom, Frozen, Overlaps, IsActive
    <2>2. q.supersedes # NoRequest =>
            /\ b.requests[q.supersedes].status = "Approved"
            /\ \A x \in RequestIds :
                b.requests[x].status = "Pending" => b.requests[x].supersedes # q.supersedes
        BY <1>4, <1>6 DEF ConsumedFrom, Frozen, PendingReplacement
    <2>. QED
        BY <1>3, <1>4, <1>7, <1>9, <1>10, <2>1, <2>2, LawfulFiled
<1>13. CASE Addressees(explicit) = {}
    <2>1. /\ ~approvalRequired
          /\ ~PromotionRefused(c, r, now, zone)
          /\ books' = SetLastAction(Promoted(c, r, now, zone), r, "auto-approved")
        BY <1>2, <1>5, <1>8, <1>13 DEF CreateRequest, NewRow, Addressees, Commit
    <2>2. c.requests[r].status = "Pending" /\ "auto-approved" \in Actions
        BY <1>4, <1>10 DEF Actions
    <2>3. /\ Lawful(books')
          /\ books'.requests[r].status = "Approved"
          /\ \A x \in RequestIds \ {r} :
                IF Replaces(c, r, x)
                THEN books'.requests[x].status = "Superseded" /\ NotStarted(c.requests[x], now)
                ELSE ConsumedFrom(books'.requests[x], c.requests[x])
          /\ SameTerms(books'.requests[r], c.requests[r])
          /\ \A x \in RequestIds \ {r} :
                Replaces(c, r, x) => Untaken(books'.requests[x], c.requests[x])
        BY <1>1, <1>12, <2>1, <2>2, PromotedRows
    <2>4. ASSUME NEW x \in RequestIds \ {r}
          PROVE  \/ Later(books'.requests[x], books.requests[x])
                 \/ /\ books.requests[x].status = "Approved"
                    /\ books'.requests[x].status = "Superseded"
                    /\ NotStarted(books.requests[x], now)
        <3>1. ConsumedFrom(c.requests[x], books.requests[x])
            BY <1>6, <1>10
        <3>2. CASE Replaces(c, r, x)
            <4>1. books.requests[x].status = "Approved"
                BY <3>1, <3>2 DEF Replaces, ConsumedFrom
            <4>2. NotStarted(books.requests[x], now)
                BY <2>3, <3>1, <3>2 DEF NotStarted, ConsumedFrom, Frozen
            <4>. QED
                BY <2>3, <3>2, <4>1, <4>2
        <3>3. CASE ~Replaces(c, r, x)
            BY <2>3, <3>1, <3>3 DEF ConsumedFrom, Later
        <3>. QED
            BY <3>2, <3>3
    <2>5. books'.requests[r].consumed = {}
        BY <1>4, <1>10, <2>3 DEF SameTerms
    <2>6. ASSUME NEW x \in RequestIds \ {r}, books.requests[x].status = "Approved",
                 books'.requests[x].status = "Superseded"
          PROVE  Untaken(books'.requests[x], books.requests[x])
        <3>1. ConsumedFrom(c.requests[x], books.requests[x])
            BY <1>6, <1>10
        <3>2. Replaces(c, r, x)
            BY <2>3, <2>6, <3>1 DEF ConsumedFrom
        <3>. QED
            BY <2>3, <3>1, <3>2 DEF Untaken, ConsumedFrom
    <2>. QED
        BY <1>1, <1>13, <2>1, <2>3, <2>4, <2>5, <2>6
<1>14. CASE Addressees(explicit) # {}
    <2>1. books' = IF original = NoRequest
                   THEN c
                   ELSE SetLastAction(c, original, "modification-requested")
        BY <1>2, <1>5, <1>8, <1>14 DEF CreateRequest, NewRow, Addressees, Commit
    <2>2. CASE original = NoRequest
        <3>1. books' = c
            BY <2>1, <2>2
        <3>. QED
            <4>1. \A x \in RequestIds \ {r} : Later(books'.requests[x], books.requests[x])
                BY <1>6, <1>10, <3>1, ConsumedIsLater
            <4>2. \A x \in RequestIds \ {r} : books'.requests[x].status = books.requests[x].status
                BY <4>1 DEF Later
            <4>. QED
                BY <1>1, <1>4, <1>10, <1>12, <1>14, <3>1, <4>1, <4>2
    <2>3. CASE original # NoRequest
        <3>1. /\ original \in RequestIds /\ original # r
              /\ books.requests[original].status = "Approved"
            BY <1>1, <2>3
        <3>2. /\ c \in Drafts
              /\ c.requests[original].status = "Approved"
              /\ "modification-requested" \in Actions
              /\ Sound(c)
            BY <1>6, <1>10, <3>1 DEF Sound, ConsumedFrom, Actions
        <3>3. books' = SetLastAction(c, original, "modification-requested")
            BY <2>1, <2>3
        <3>4. Sound(books')
            BY ONLY <3>1, <3>2, <3>3, SetLastActionSound
        <3>5. /\ books'.requests[original]
                    = [c.requests[original] EXCEPT !.lastAction = "modification-requested"]
              /\ \A x \in RequestIds \ {original} : books'.requests[x] = c.requests[x]
            BY ONLY <3>1, <3>2, <3>3, SetLastActionRows
        <3>6. /\ SameBooking(books'.requests[original], c.requests[original])
              /\ books'.requests[original].consumed = c.requests[original].consumed
            BY <3>1, <3>2, <3>5 DEF SameBooking, Frozen, Drafts, Requests
        <3>7. Lawful(books')
            <4>1. \A x \in RequestIds : SameBooking(books'.requests[x], c.requests[x])
                BY <3>5, <3>6 DEF SameBooking
            <4>. QED
                BY ONLY <1>12, <3>4, <4>1, LawfulKept
        <3>8. Later(books'.requests[original], books.requests[original])
            BY <1>6, <1>10, <3>1, <3>6 DEF ConsumedFrom, Later, SameBooking
        <3>9. \A x \in RequestIds \ {r} : Later(books'.requests[x], books.requests[x])
            BY <1>6, <1>10, <3>5, <3>8, ConsumedIsLater
        <3>10. books'.requests[r].status = "Pending" /\ books'.requests[r].consumed = {}
            BY <1>4, <1>10, <3>1, <3>5
        <3>11. \A x \in RequestIds \ {r} : books'.requests[x].status = books.requests[x].status
            BY <3>9 DEF Later
        <3>. QED
            BY <1>1, <1>14, <3>7, <3>9, <3>10, <3>11
    <2>. QED
        BY <2>2, <2>3
<1>. QED
    BY <1>13, <1>14

LEMMA FileRows ==
    ASSUME Inv, NEW r \in RequestIds, NEW type \in LeaveTypes,
           NEW original \in RequestIds \cup {NoRequest},
           original # NoRequest => /\ books.requests[original].status = "Approved"
                                   /\ ~PendingReplacement(original),
           FileRequest(r, type, original)
    PROVE  /\ Lawful(books')
           /\ books.requests[r].status = "Absent"
           /\ UNCHANGED <<progress, accounts, imported, approvalRequired, zone, now>>
           /\ \E to \in SUBSET Approvers :
                /\ votes' = [votes EXCEPT ![r] =
                                [a \in Approvers |-> IF a \in to THEN "pending" ELSE "none"]]
                /\ asks' = asks \cup ({r} \X (to \cap accounts))
                /\ IF to = {}
                   THEN books'.requests[r].status = "Approved" /\ ~approvalRequired
                   ELSE books'.requests[r].status = "Pending"
           /\ \A x \in RequestIds \ {r} :
                \/ Later(books'.requests[x], books.requests[x])
                \/ /\ books.requests[x].status = "Approved"
                   /\ books'.requests[x].status = "Superseded"
                   /\ NotStarted(books.requests[x], now)
           /\ books'.requests[r].consumed = {}
           /\ \A x \in RequestIds \ {r} :
                books.requests[x].status = "Approved" /\ books'.requests[x].status = "Superseded"
                => Untaken(books'.requests[x], books.requests[x])
<1>1. PICK period \in Periods, explicit \in SUBSET Approvers :
        \E hours \in [WorkingDays \cap (period[1]..period[2]) -> BookableHours],
           unpaid \in SUBSET (WorkingDays \cap (period[1]..period[2])) :
            CreateRequest(r, type, period, hours, unpaid, explicit, original)
    BY DEF FileRequest
<1>2. PICK dates : dates = WorkingDays \cap (period[1]..period[2])
    OBVIOUS
<1>3. PICK hours \in [dates -> BookableHours], unpaid \in SUBSET dates :
        CreateRequest(r, type, period, hours, unpaid, explicit, original)
    BY <1>1, <1>2
<1>4. /\ Lawful(books')
      /\ books.requests[r].status = "Absent"
      /\ IF Addressees(explicit) = {}
         THEN books'.requests[r].status = "Approved" /\ ~approvalRequired
         ELSE books'.requests[r].status = "Pending"
      /\ \A x \in RequestIds \ {r} :
            \/ Later(books'.requests[x], books.requests[x])
            \/ /\ books.requests[x].status = "Approved"
               /\ books'.requests[x].status = "Superseded"
               /\ NotStarted(books.requests[x], now)
      /\ books'.requests[r].consumed = {}
      /\ \A x \in RequestIds \ {r} :
            books.requests[x].status = "Approved" /\ books'.requests[x].status = "Superseded"
            => Untaken(books'.requests[x], books.requests[x])
    BY <1>2, <1>3, CreateRows
<1>5. /\ votes' = [votes EXCEPT ![r] =
                     [a \in Approvers |-> IF a \in Addressees(explicit) THEN "pending" ELSE "none"]]
      /\ asks' = asks \cup ({r} \X (Addressees(explicit) \cap accounts))
      /\ UNCHANGED <<progress, accounts, imported, approvalRequired, zone, now>>
    BY <1>3 DEF CreateRequest, Addressees
<1>6. Addressees(explicit) \in SUBSET Approvers
    BY IdAssumption DEF Addressees
<1>. QED
    BY <1>4, <1>5, <1>6

\* The hypotheses of FileRows for the two ways to file.
LEMMA SubmitFiles ==
    ASSUME NEW r \in RequestIds, Submit(r)
    PROVE  \E type \in LeaveTypes : FileRequest(r, type, NoRequest)
    BY DEF Submit

LEMMA ModifyFiles ==
    ASSUME Inv, NEW r \in RequestIds, NEW o \in RequestIds, Modify(r, o)
    PROVE  /\ books.requests[o].status = "Approved"
           /\ ~PendingReplacement(o)
           /\ books.requests[o].type \in LeaveTypes
           /\ FileRequest(r, books.requests[o].type, o)
    BY DEF Modify, Inv, Lawful, Sound, Drafts, Requests

\* What a step of any kind does to the request rows.
LEMMA FiledByEither ==
    ASSUME Inv, NEW r \in RequestIds, Submit(r) \/ \E o \in RequestIds : Modify(r, o)
    PROVE  /\ Lawful(books')
           /\ books.requests[r].status = "Absent"
           /\ UNCHANGED <<progress, accounts, imported, approvalRequired, zone, now>>
           /\ \E to \in SUBSET Approvers :
                /\ votes' = [votes EXCEPT ![r] =
                                [a \in Approvers |-> IF a \in to THEN "pending" ELSE "none"]]
                /\ asks' = asks \cup ({r} \X (to \cap accounts))
                /\ IF to = {}
                   THEN books'.requests[r].status = "Approved" /\ ~approvalRequired
                   ELSE books'.requests[r].status = "Pending"
           /\ \A x \in RequestIds \ {r} :
                \/ Later(books'.requests[x], books.requests[x])
                \/ /\ books.requests[x].status = "Approved"
                   /\ books'.requests[x].status = "Superseded"
                   /\ NotStarted(books.requests[x], now)
           /\ books'.requests[r].consumed = {}
           /\ \A x \in RequestIds \ {r} :
                books.requests[x].status = "Approved" /\ books'.requests[x].status = "Superseded"
                => Untaken(books'.requests[x], books.requests[x])
<1>1. CASE Submit(r)
    <2>1. PICK type \in LeaveTypes : FileRequest(r, type, NoRequest)
        BY <1>1, SubmitFiles
    <2>. QED
        BY <2>1, FileRows
<1>2. CASE \E o \in RequestIds : Modify(r, o)
    <2>1. PICK o \in RequestIds : Modify(r, o)
        BY <1>2
    <2>2. /\ books.requests[o].status = "Approved"
          /\ ~PendingReplacement(o)
          /\ books.requests[o].type \in LeaveTypes
          /\ FileRequest(r, books.requests[o].type, o)
        BY <2>1, ModifyFiles
    <2>. QED
        BY <2>2, FileRows
<1>. QED
    BY <1>1, <1>2

--------------------------------------------------------------------------------
(* The invariant                                                            *)

LEMMA InvInit == Init => Inv
<1>. SUFFICES ASSUME Init PROVE Inv
    OBVIOUS
<1>1. AbsentRequest \in Requests /\ WithinPeriod(AbsentRequest)
    <2>1. LeaveTypes # {} /\ Days # {}
        BY CalendarAssumption
    <2>. QED
        BY <2>1 DEF AbsentRequest, Requests, Statuses, Actions, WithinPeriod, LeaveDays
<1>2. \A r \in RequestIds : books.requests[r] = AbsentRequest
    BY DEF Init
<1>3. books \in Drafts
    BY <1>1 DEF Init, Drafts
<1>4. AbsentRequest.status = "Absent" /\ AbsentRequest.held = 0
    BY DEF AbsentRequest
<1>5. ASSUME NEW k \in LeaveTypes, NEW y \in Years
      PROVE  /\ books.onHold[<<k, y>>] = Cardinality(HeldClaims(books, k, y))
             /\ books.spent[<<k, y>>] = Cardinality(SpentClaims(books, k, y))
    <2>1. HeldClaims(books, k, y) = {}
        BY <1>2, <1>4 DEF HeldClaims, IsActive
    <2>2. SpentClaims(books, k, y) = {}
        <3>1. PaidSlots(AbsentRequest) = {}
            BY DEF AbsentRequest, PaidSlots
        <3>. QED
            BY <1>2, <3>1 DEF SpentClaims, Charging
    <2>. QED
        BY <2>1, <2>2, FS_EmptySet DEF Init, Balances
<1>6. Sound(books)
    BY <1>2, <1>3, <1>4, <1>5 DEF Sound, HeldIsRemaining, IsActive
<1>7. Lawful(books)
    BY <1>1, <1>2, <1>4, <1>6 DEF Lawful, Apart, Paired, IsActive
<1>8. TypeOK
    BY <1>6, SoundBooks, ClockAssumption DEF Init, TypeOK, Decisions
<1>. QED
    BY <1>7, <1>8 DEF Inv

LEMMA InvNext == Inv /\ [Next]_vars => Inv'
<1>. SUFFICES ASSUME Inv, [Next]_vars PROVE Inv'
    OBVIOUS
<1>. USE DEF Inv
<1>1. ASSUME Lawful(books') PROVE books' \in Books
    BY <1>1, SoundBooks DEF Lawful
<1>2. ASSUME NEW r \in RequestIds, Submit(r) \/ \E o \in RequestIds : Modify(r, o)
      PROVE  Inv'
    <2>1. /\ Lawful(books')
          /\ UNCHANGED <<progress, accounts, imported, approvalRequired, zone, now>>
        BY <1>2, FiledByEither
    <2>2. PICK to \in SUBSET Approvers :
            /\ votes' = [votes EXCEPT ![r] =
                            [a \in Approvers |-> IF a \in to THEN "pending" ELSE "none"]]
            /\ asks' = asks \cup ({r} \X (to \cap accounts))
        BY <1>2, FiledByEither
    <2>3. votes' \in [RequestIds -> [Approvers -> Decisions]]
        BY <2>2 DEF TypeOK, Decisions
    <2>. QED
        BY <1>1, <2>1, <2>2, <2>3 DEF TypeOK
<1>3. ASSUME NEW r \in RequestIds, NEW a \in Approvers, VoteApprove(r, a)
      PROVE  Inv'
    <2>1. books.requests[r].status = "Pending"
        BY <1>3 DEF VoteApprove, MayVote
    <2>2. Lawful(books') /\ progress' \subseteq RequestIds
        <3>1. CASE OthersApproved(r, a)
            BY <1>3, <2>1, <3>1, ApproveRows DEF VoteApprove, Actions, TrailClosed, TypeOK
        <3>2. CASE ~OthersApproved(r, a)
            BY <1>3, <2>1, <3>2, AnnotateRows DEF VoteApprove, Actions, Commit, TypeOK
        <3>. QED
            BY <3>1, <3>2
    <2>3. votes' \in [RequestIds -> [Approvers -> Decisions]]
        BY <1>3 DEF VoteApprove, TypeOK, Decisions
    <2>. QED
        BY <1>1, <1>3, <2>2, <2>3 DEF VoteApprove, AnsweredBy, TypeOK
<1>4. ASSUME NEW r \in RequestIds, NEW a \in Approvers, VoteReject(r, a)
      PROVE  Inv'
    <2>1. books.requests[r].status = "Pending" /\ "rejected" \in Actions
        BY <1>4 DEF VoteReject, MayVote, Actions
    <2>2. Lawful(books')
        BY <1>4, <2>1, SettleRows DEF VoteReject
    <2>3. votes' \in [RequestIds -> [Approvers -> Decisions]]
        BY <1>4 DEF VoteReject, TypeOK, Decisions
    <2>. QED
        BY <1>1, <1>4, <2>2, <2>3 DEF VoteReject, AnsweredForAll, TrailClosed, TypeOK
<1>5. ASSUME NEW r \in RequestIds, ForceDecide(r)
      PROVE  Inv'
    <2>1. /\ books.requests[r].status = "Pending"
          /\ "force-approved" \in Actions /\ "force-rejected" \in Actions
        BY <1>5 DEF ForceDecide, Actions
    <2>2. Lawful(books')
        <3>1. CASE Approve(r, "force-approved")
            BY <2>1, <3>1, ApproveRows
        <3>2. CASE Settle(r, "Rejected", "force-rejected")
            BY <2>1, <3>2, SettleRows
        <3>. QED
            BY <1>5, <3>1, <3>2 DEF ForceDecide
    <2>. QED
        BY <1>1, <1>5, <2>2 DEF ForceDecide, AnsweredForAll, TrailClosed, TypeOK
<1>6. ASSUME NEW r \in RequestIds, NEW a \in Approvers, RemoveApprover(r, a)
      PROVE  Inv'
    <2>1. books.requests[r].status = "Pending" /\ "approver-removed" \in Actions
        BY <1>6 DEF RemoveApprover, Actions
    <2>2. Lawful(books') /\ progress' \subseteq RequestIds
        <3>1. CASE OthersApproved(r, a)
            BY <1>6, <2>1, <3>1, ApproveRows DEF RemoveApprover, TrailClosed, TypeOK
        <3>2. CASE ~OthersApproved(r, a)
            BY <1>6, <2>1, <3>2, AnnotateRows DEF RemoveApprover, Commit, TypeOK
        <3>. QED
            BY <3>1, <3>2
    <2>3. votes' \in [RequestIds -> [Approvers -> Decisions]]
        BY <1>6 DEF RemoveApprover, TypeOK, Decisions
    <2>. QED
        BY <1>1, <1>6, <2>2, <2>3 DEF RemoveApprover, AnsweredBy, TypeOK
<1>7. ASSUME NEW r \in RequestIds, Cancel(r)
      PROVE  Inv'
    <2>1. /\ \/ books.requests[r].status = "Pending"
             \/ books.requests[r].status = "Approved" /\ ~PendingReplacement(r)
          /\ Settle(r, "Cancelled", "cancelled")
          /\ "cancelled" \in Actions
        BY <1>7 DEF Cancel, Actions
    <2>2. Lawful(books')
        BY <2>1, SettleRows
    <2>3. asks' \subseteq asks /\ progress' \subseteq progress
        BY <1>7 DEF Cancel, AnsweredForAll, TrailClosed
    <2>. QED
        BY <1>1, <1>7, <2>2, <2>3 DEF Cancel, TypeOK
<1>8. CASE Refresh
    BY <1>1, <1>8, RefreshRows DEF Refresh, TypeOK
<1>9. ASSUME NEW a \in Approvers, SignIn(a) \/ ImportAccount(a)
      PROVE  Inv'
    BY <1>9 DEF SignIn, ImportAccount, Backfill, TypeOK
<1>10. CASE SetApprovalRequired \/ SetZone
    BY <1>10 DEF SetApprovalRequired, SetZone, TypeOK
<1>11. CASE Tick
    BY <1>11, ClockAssumption DEF Tick, TypeOK
<1>12. CASE UNCHANGED vars
    BY <1>12 DEF vars, TypeOK
<1>. QED
    BY <1>2, <1>3, <1>4, <1>5, <1>6, <1>7, <1>8, <1>9, <1>10, <1>11, <1>12 DEF Next

LEMMA InvHolds == Spec => []Inv
    BY InvInit, InvNext, PTL DEF Spec

--------------------------------------------------------------------------------
(* The questions in the feeds, and what a step may do                       *)

Feeds ==
    /\ AsksAreOpenQuestions
    /\ ProgressOnlyWhilePending
    /\ \A r \in RequestIds, a \in Approvers :
            /\ books.requests[r].status = "Absent" => votes[r][a] = "none"
            /\ votes[r][a] \in {"approved", "rejected"} => a \in accounts

Settled(q) == q.status \in {"Rejected", "Cancelled", "Superseded"}

\* The bodies of LivedLeaveStands, HistoryIsFinal and GateIsHonoured, the
\* first by the guard the code tests.
Stands(r) ==
    books.requests[r].status = "Approved" /\ books'.requests[r].status # "Approved"
    => NotStarted(books.requests[r], now)

Final(r) ==
    /\ Settled(books.requests[r])
       => books'.requests[r] = books.requests[r] /\ votes'[r] = votes[r]
    /\ \A a \in Approvers :
        votes[r][a] \in {"approved", "rejected"} /\ votes'[r][a] # votes[r][a]
        => votes'[r][a] = "none" /\ books.requests[r].status = "Pending"

Gated(r) ==
    books.requests[r].status # "Approved" /\ books'.requests[r].status = "Approved"
    => LET to == {a \in Approvers : votes'[r][a] # "none"}
       IN  \/ to # {} /\ \A a \in to : votes'[r][a] = "approved"
           \/ to = {} /\ ~approvalRequired /\ books.requests[r].status = "Absent"
           \/ books'.requests[r].lastAction = "force-approved"

Honest == \A r \in RequestIds : Stands(r) /\ Final(r) /\ Gated(r)

\* A step that leaves row x to later transactions, or supersedes it, is honest
\* about it when it casts no vote on it.
LEMMA OthersHonest ==
    ASSUME NEW x \in RequestIds, votes'[x] = votes[x],
           \/ Later(books'.requests[x], books.requests[x])
           \/ /\ books.requests[x].status = "Approved"
              /\ books'.requests[x].status = "Superseded"
              /\ NotStarted(books.requests[x], now)
    PROVE  /\ Stands(x) /\ Final(x) /\ Gated(x)
           /\ books'.requests[x].status = "Pending" <=> books.requests[x].status = "Pending"
           /\ books'.requests[x].status = "Absent" <=> books.requests[x].status = "Absent"
    BY DEF Stands, Final, Gated, Later, Settled

\* A step about request r alone: what remains to be shown about r.
AboutOne(r) ==
    /\ \A x \in RequestIds \ {r} :
        /\ votes'[x] = votes[x]
        /\ \A a \in Approvers : <<x, a>> \in asks' <=> <<x, a>> \in asks
        /\ \/ Later(books'.requests[x], books.requests[x])
           \/ /\ books.requests[x].status = "Approved"
              /\ books'.requests[x].status = "Superseded"
              /\ NotStarted(books.requests[x], now)
    /\ accounts' = accounts /\ imported' = imported
    /\ progress' \subseteq progress \cup {r}

OpenExactly(r) ==
    /\ r \in progress' => books'.requests[r].status = "Pending"
    /\ books'.requests[r].status # "Absent"
    /\ \A a \in Approvers :
        LET open == books'.requests[r].status = "Pending" /\ votes'[r][a] = "pending"
                    /\ a \in accounts
        IN  /\ <<r, a>> \in asks' => open
            /\ open /\ a \notin imported => <<r, a>> \in asks'
    /\ \A a \in Approvers : votes'[r][a] \in {"approved", "rejected"} => a \in accounts

LEMMA OneRequest ==
    ASSUME Inv, Feeds, NEW r \in RequestIds, AboutOne(r), OpenExactly(r),
           Stands(r), Final(r), Gated(r)
    PROVE  Feeds' /\ Honest
<1>1. ASSUME NEW x \in RequestIds \ {r}
      PROVE  /\ Stands(x) /\ Final(x) /\ Gated(x)
             /\ books'.requests[x].status = "Pending" <=> books.requests[x].status = "Pending"
             /\ books'.requests[x].status = "Absent" <=> books.requests[x].status = "Absent"
    BY OthersHonest DEF AboutOne
<1>2. ASSUME NEW x \in RequestIds, NEW a \in Approvers
      PROVE  /\ <<x, a>> \in asks' => IsOpen(x, a)'
             /\ IsOpen(x, a)' /\ a \notin imported' => <<x, a>> \in asks'
             /\ books'.requests[x].status = "Absent" => votes'[x][a] = "none"
             /\ votes'[x][a] \in {"approved", "rejected"} => a \in accounts'
    <2>1. CASE x = r
        BY <2>1 DEF AboutOne, OpenExactly, IsOpen
    <2>2. CASE x # r
        BY <1>1, <2>2 DEF AboutOne, Feeds, AsksAreOpenQuestions, IsOpen
    <2>. QED
        BY <2>1, <2>2
<1>3. \A x \in progress' : books'.requests[x].status = "Pending"
    <2>1. progress \subseteq RequestIds
        BY DEF Inv, TypeOK
    <2>. QED
        BY <1>1, <2>1 DEF AboutOne, OpenExactly, Feeds, ProgressOnlyWhilePending
<1>4. Feeds'
    BY <1>2, <1>3 DEF Feeds, AsksAreOpenQuestions, IsOpen, ProgressOnlyWhilePending
<1>. QED
    BY <1>1, <1>4 DEF Honest

LEMMA FileConduct ==
    ASSUME Inv, Feeds, NEW r \in RequestIds, Submit(r) \/ \E o \in RequestIds : Modify(r, o)
    PROVE  Feeds' /\ Honest
<1>1. /\ books.requests[r].status = "Absent"
      /\ UNCHANGED <<progress, accounts, imported, approvalRequired, zone, now>>
      /\ \A x \in RequestIds \ {r} :
            \/ Later(books'.requests[x], books.requests[x])
            \/ /\ books.requests[x].status = "Approved"
               /\ books'.requests[x].status = "Superseded"
               /\ NotStarted(books.requests[x], now)
    BY FiledByEither
<1>2. PICK to \in SUBSET Approvers :
        /\ votes' = [votes EXCEPT ![r] = [a \in Approvers |-> IF a \in to THEN "pending" ELSE "none"]]
        /\ asks' = asks \cup ({r} \X (to \cap accounts))
        /\ IF to = {}
           THEN books'.requests[r].status = "Approved" /\ ~approvalRequired
           ELSE books'.requests[r].status = "Pending"
    BY FiledByEither
<1>3. votes \in [RequestIds -> [Approvers -> Decisions]]
    BY DEF Inv, TypeOK
<1>4. /\ \A x \in RequestIds \ {r} : votes'[x] = votes[x]
      /\ \A a \in Approvers : votes'[r][a] = IF a \in to THEN "pending" ELSE "none"
    BY <1>2, <1>3
<1>5. AboutOne(r)
    BY <1>1, <1>2, <1>4 DEF AboutOne
<1>6. \A a \in Approvers : <<r, a>> \notin asks /\ votes[r][a] = "none"
    BY <1>1 DEF Feeds, AsksAreOpenQuestions, IsOpen
<1>7. OpenExactly(r)
    <2>1. r \notin progress
        BY <1>1 DEF Feeds, ProgressOnlyWhilePending
    <2>. QED
        BY <1>1, <1>2, <1>4, <1>6, <2>1 DEF OpenExactly
<1>8. Stands(r) /\ Final(r) /\ Gated(r)
    BY <1>1, <1>2, <1>4, <1>6 DEF Stands, Final, Gated, Settled
<1>. QED
    BY <1>5, <1>7, <1>8, OneRequest

\* The rows after an approval, as the lemmas above want them.
LEMMA ApproveAboutOne ==
    ASSUME Inv, NEW r \in RequestIds, books.requests[r].status = "Pending",
           NEW action \in Actions, Approve(r, action)
    PROVE  /\ books'.requests[r].status = "Approved"
           /\ books'.requests[r].lastAction = action
           /\ \A x \in RequestIds \ {r} :
                \/ Later(books'.requests[x], books.requests[x])
                \/ /\ books.requests[x].status = "Approved"
                   /\ books'.requests[x].status = "Superseded"
                   /\ NotStarted(books.requests[x], now)
    BY ApproveRows DEF Replaces

LEMMA VoteApproveConduct ==
    ASSUME Inv, Feeds, NEW r \in RequestIds, NEW a \in Approvers, VoteApprove(r, a)
    PROVE  Feeds' /\ Honest
<1>1. /\ books.requests[r].status = "Pending"
      /\ votes[r][a] = "pending" /\ a \in accounts
      /\ votes' = [votes EXCEPT ![r][a] = "approved"]
      /\ asks' = asks \ {<<r, a>>}
      /\ accounts' = accounts /\ imported' = imported
    BY DEF VoteApprove, MayVote, AnsweredBy
<1>2. votes \in [RequestIds -> [Approvers -> Decisions]]
    BY DEF Inv, TypeOK
<1>3. /\ \A x \in RequestIds \ {r} : votes'[x] = votes[x]
      /\ \A c \in Approvers : votes'[r][c] = IF c = a THEN "approved" ELSE votes[r][c]
    BY <1>1, <1>2
<1>4. CASE OthersApproved(r, a)
    <2>1. Approve(r, "approved") /\ progress' = progress \ {r} /\ "approved" \in Actions
        BY <1>4 DEF VoteApprove, TrailClosed, Actions
    <2>2. /\ books'.requests[r].status = "Approved"
          /\ \A x \in RequestIds \ {r} :
                \/ Later(books'.requests[x], books.requests[x])
                \/ /\ books.requests[x].status = "Approved"
                   /\ books'.requests[x].status = "Superseded"
                   /\ NotStarted(books.requests[x], now)
        BY <1>1, <2>1, ApproveAboutOne
    <2>3. AboutOne(r)
        BY <1>1, <1>3, <2>1, <2>2 DEF AboutOne
    <2>4. \A c \in Approvers : votes'[r][c] # "none" => votes'[r][c] = "approved"
        BY <1>3, <1>4 DEF OthersApproved, ToApprovers
    <2>5. OpenExactly(r)
        <3>1. \A c \in Approvers : <<r, c>> \notin asks'
            BY <1>1, <1>3, <2>4 DEF Feeds, AsksAreOpenQuestions, IsOpen
        <3>. QED
            BY <1>1, <1>3, <2>1, <2>2, <3>1 DEF OpenExactly, Feeds
    <2>6. Stands(r) /\ Final(r) /\ Gated(r)
        BY <1>1, <1>3, <2>2, <2>4 DEF Stands, Final, Gated, Settled
    <2>. QED
        BY <2>3, <2>5, <2>6, OneRequest
<1>5. CASE ~OthersApproved(r, a)
    <2>1. /\ books' = SetLastAction(books, r, "progressed")
          /\ progress' = progress \cup {r}
          /\ "progressed" \in Actions
        BY <1>5 DEF VoteApprove, Commit, Actions
    <2>2. /\ books'.requests[r].status = "Pending"
          /\ \A x \in RequestIds \ {r} : books'.requests[x] = books.requests[x]
        BY <1>1, <2>1, AnnotateRows
    <2>3. AboutOne(r)
        BY <1>1, <1>3, <2>1, <2>2 DEF AboutOne, Later
    <2>4. OpenExactly(r)
        BY <1>1, <1>3, <2>2 DEF OpenExactly, Feeds, AsksAreOpenQuestions, IsOpen
    <2>5. Stands(r) /\ Final(r) /\ Gated(r)
        BY <1>1, <1>3, <2>2 DEF Stands, Final, Gated, Settled
    <2>. QED
        BY <2>3, <2>4, <2>5, OneRequest
<1>. QED
    BY <1>4, <1>5

LEMMA VoteRejectConduct ==
    ASSUME Inv, Feeds, NEW r \in RequestIds, NEW a \in Approvers, VoteReject(r, a)
    PROVE  Feeds' /\ Honest
<1>1. /\ books.requests[r].status = "Pending"
      /\ votes[r][a] = "pending" /\ a \in accounts
      /\ votes' = [votes EXCEPT ![r][a] = "rejected"]
      /\ asks' = {k \in asks : k[1] # r}
      /\ progress' = progress \ {r}
      /\ accounts' = accounts /\ imported' = imported
      /\ "rejected" \in Actions
    BY DEF VoteReject, MayVote, AnsweredForAll, TrailClosed, Actions
<1>2. votes \in [RequestIds -> [Approvers -> Decisions]]
    BY DEF Inv, TypeOK
<1>3. /\ \A x \in RequestIds \ {r} : votes'[x] = votes[x]
      /\ \A c \in Approvers : votes'[r][c] = IF c = a THEN "rejected" ELSE votes[r][c]
    BY <1>1, <1>2
<1>4. /\ books'.requests[r].status = "Rejected"
      /\ \A x \in RequestIds \ {r} : books'.requests[x] = books.requests[x]
    BY <1>1, SettleRows DEF VoteReject
<1>5. AboutOne(r)
    BY <1>1, <1>3, <1>4 DEF AboutOne, Later
<1>6. OpenExactly(r)
    BY <1>1, <1>3, <1>4 DEF OpenExactly, Feeds
<1>7. Stands(r) /\ Final(r) /\ Gated(r)
    BY <1>1, <1>3, <1>4 DEF Stands, Final, Gated, Settled
<1>. QED
    BY <1>5, <1>6, <1>7, OneRequest

LEMMA ForceDecideConduct ==
    ASSUME Inv, Feeds, NEW r \in RequestIds, ForceDecide(r)
    PROVE  Feeds' /\ Honest
<1>1. /\ books.requests[r].status = "Pending"
      /\ votes' = votes
      /\ asks' = {k \in asks : k[1] # r}
      /\ progress' = progress \ {r}
      /\ accounts' = accounts /\ imported' = imported
      /\ "force-approved" \in Actions /\ "force-rejected" \in Actions
    BY DEF ForceDecide, AnsweredForAll, TrailClosed, Actions
<1>2. CASE Approve(r, "force-approved")
    <2>1. /\ books'.requests[r].status = "Approved"
          /\ books'.requests[r].lastAction = "force-approved"
          /\ \A x \in RequestIds \ {r} :
                \/ Later(books'.requests[x], books.requests[x])
                \/ /\ books.requests[x].status = "Approved"
                   /\ books'.requests[x].status = "Superseded"
                   /\ NotStarted(books.requests[x], now)
        BY <1>1, <1>2, ApproveAboutOne
    <2>2. AboutOne(r)
        BY <1>1, <2>1 DEF AboutOne
    <2>3. OpenExactly(r)
        BY <1>1, <2>1 DEF OpenExactly, Feeds
    <2>4. Stands(r) /\ Final(r) /\ Gated(r)
        BY <1>1, <2>1 DEF Stands, Final, Gated, Settled
    <2>. QED
        BY <2>2, <2>3, <2>4, OneRequest
<1>3. CASE Settle(r, "Rejected", "force-rejected")
    <2>1. /\ books'.requests[r].status = "Rejected"
          /\ \A x \in RequestIds \ {r} : books'.requests[x] = books.requests[x]
        BY <1>1, <1>3, SettleRows
    <2>2. AboutOne(r)
        BY <1>1, <2>1 DEF AboutOne, Later
    <2>3. OpenExactly(r)
        BY <1>1, <2>1 DEF OpenExactly, Feeds
    <2>4. Stands(r) /\ Final(r) /\ Gated(r)
        BY <1>1, <2>1 DEF Stands, Final, Gated, Settled
    <2>. QED
        BY <2>2, <2>3, <2>4, OneRequest
<1>. QED
    BY <1>2, <1>3 DEF ForceDecide

LEMMA RemoveApproverConduct ==
    ASSUME Inv, Feeds, NEW r \in RequestIds, NEW a \in Approvers, RemoveApprover(r, a)
    PROVE  Feeds' /\ Honest
<1>1. /\ books.requests[r].status = "Pending"
      /\ votes' = [votes EXCEPT ![r][a] = "none"]
      /\ asks' = asks \ {<<r, a>>}
      /\ accounts' = accounts /\ imported' = imported
      /\ a \in ToApprovers(r) /\ ToApprovers(r) # {a}
      /\ "approver-removed" \in Actions
    BY DEF RemoveApprover, AnsweredBy, Actions
<1>2. votes \in [RequestIds -> [Approvers -> Decisions]]
    BY DEF Inv, TypeOK
<1>3. /\ \A x \in RequestIds \ {r} : votes'[x] = votes[x]
      /\ \A c \in Approvers : votes'[r][c] = IF c = a THEN "none" ELSE votes[r][c]
    BY <1>1, <1>2
<1>4. CASE OthersApproved(r, a)
    <2>1. Approve(r, "approver-removed") /\ progress' = progress \ {r}
        BY <1>4 DEF RemoveApprover, TrailClosed
    <2>2. /\ books'.requests[r].status = "Approved"
          /\ \A x \in RequestIds \ {r} :
                \/ Later(books'.requests[x], books.requests[x])
                \/ /\ books.requests[x].status = "Approved"
                   /\ books'.requests[x].status = "Superseded"
                   /\ NotStarted(books.requests[x], now)
        BY <1>1, <2>1, ApproveAboutOne
    <2>3. AboutOne(r)
        BY <1>1, <1>3, <2>1, <2>2 DEF AboutOne
    <2>4. /\ \A c \in Approvers : votes'[r][c] # "none" => votes'[r][c] = "approved"
          /\ \E c \in Approvers : votes'[r][c] # "none"
        BY <1>1, <1>3, <1>4 DEF OthersApproved, ToApprovers
    <2>5. OpenExactly(r)
        <3>1. \A c \in Approvers : <<r, c>> \notin asks'
            BY <1>1, <1>3, <2>4 DEF Feeds, AsksAreOpenQuestions, IsOpen
        <3>. QED
            BY <1>1, <1>3, <2>1, <2>2, <3>1 DEF OpenExactly, Feeds
    <2>6. Stands(r) /\ Final(r) /\ Gated(r)
        BY <1>1, <1>3, <2>2, <2>4 DEF Stands, Final, Gated, Settled
    <2>. QED
        BY <2>3, <2>5, <2>6, OneRequest
<1>5. CASE ~OthersApproved(r, a)
    <2>1. /\ books' = SetLastAction(books, r, "approver-removed")
          /\ progress' = progress
        BY <1>5 DEF RemoveApprover, Commit
    <2>2. /\ books'.requests[r].status = "Pending"
          /\ \A x \in RequestIds \ {r} : books'.requests[x] = books.requests[x]
        BY <1>1, <2>1, AnnotateRows
    <2>3. AboutOne(r)
        BY <1>1, <1>3, <2>1, <2>2 DEF AboutOne, Later
    <2>4. OpenExactly(r)
        BY <1>1, <1>3, <2>2 DEF OpenExactly, Feeds, AsksAreOpenQuestions, IsOpen
    <2>5. Stands(r) /\ Final(r) /\ Gated(r)
        BY <1>1, <1>3, <2>2 DEF Stands, Final, Gated, Settled
    <2>. QED
        BY <2>3, <2>4, <2>5, OneRequest
<1>. QED
    BY <1>4, <1>5

LEMMA CancelConduct ==
    ASSUME Inv, Feeds, NEW r \in RequestIds, Cancel(r)
    PROVE  Feeds' /\ Honest
<1>1. /\ \/ books.requests[r].status = "Pending"
         \/ /\ books.requests[r].status = "Approved"
            /\ ~HasStarted(books.requests[r], now)
            /\ ~PendingReplacement(r)
      /\ Settle(r, "Cancelled", "cancelled")
      /\ votes' = votes /\ accounts' = accounts /\ imported' = imported
      /\ "cancelled" \in Actions
    BY DEF Cancel, Actions
<1>2. /\ books'.requests[r].status = "Cancelled"
      /\ \A x \in RequestIds \ {r} : books'.requests[x] = books.requests[x]
    BY <1>1, SettleRows
<1>3. /\ \A k \in asks' : k \in asks /\ (k[1] # r \/ books.requests[r].status # "Pending")
      /\ \A k \in asks : k[1] # r => k \in asks'
      /\ progress' \subseteq progress
      /\ r \in progress' => books.requests[r].status # "Pending"
    BY DEF Cancel, AnsweredForAll, TrailClosed
<1>4. AboutOne(r)
    BY <1>1, <1>2, <1>3 DEF AboutOne, Later
<1>5. OpenExactly(r)
    BY <1>1, <1>2, <1>3 DEF OpenExactly, Feeds, AsksAreOpenQuestions, IsOpen, ProgressOnlyWhilePending
<1>6. Stands(r)
    <2>1. now \in Nat /\ books.requests[r].first \in Nat
        BY NowAndZone, CalendarAssumption DEF Inv, Lawful, Sound, Drafts, Requests
    <2>. QED
        BY <1>1, <2>1 DEF Stands, NotStarted, HasStarted
<1>7. Final(r) /\ Gated(r)
    BY <1>1, <1>2 DEF Final, Gated, Settled
<1>. QED
    BY <1>4, <1>5, <1>6, <1>7, OneRequest

LEMMA RefreshConduct ==
    ASSUME Inv, Feeds, Refresh
    PROVE  Feeds' /\ Honest
<1>1. \A x \in RequestIds : Later(books'.requests[x], books.requests[x]) /\ votes'[x] = votes[x]
    BY RefreshRows DEF Refresh
<1>2. \A x \in RequestIds :
        /\ Stands(x) /\ Final(x) /\ Gated(x)
        /\ books'.requests[x].status = books.requests[x].status
    BY <1>1, OthersHonest DEF Later
<1>3. progress \subseteq RequestIds
    BY DEF Inv, TypeOK
<1>4. Feeds'
    BY <1>2, <1>3 DEF Refresh, Feeds, AsksAreOpenQuestions, IsOpen, ProgressOnlyWhilePending
<1>. QED
    BY <1>2, <1>4 DEF Honest

\* Steps that write neither a request row nor a vote.
LEMMA OtherConduct ==
    ASSUME Inv, Feeds, books' = books, votes' = votes, progress' = progress,
           \/ asks' = asks /\ accounts' = accounts /\ imported' = imported
           \/ \E a \in Approvers : SignIn(a) \/ ImportAccount(a)
    PROVE  Feeds' /\ Honest
<1>1. Honest
    BY DEF Honest, Stands, Final, Gated
<1>2. CASE asks' = asks /\ accounts' = accounts /\ imported' = imported
    BY <1>1, <1>2 DEF Feeds, AsksAreOpenQuestions, IsOpen, ProgressOnlyWhilePending
<1>3. ASSUME NEW a \in Approvers, SignIn(a)
      PROVE  Feeds'
    <2>1. /\ accounts' = accounts \cup {a} /\ imported' = imported
          /\ asks' = asks \cup Backfill(a)
        BY <1>3 DEF SignIn
    <2>2. \A x \in RequestIds, c \in Approvers :
            <<x, c>> \in Backfill(a) <=> /\ c = a
                                         /\ books.requests[x].status = "Pending"
                                         /\ votes[x][a] # "none"
        BY DEF Backfill, ToApprovers
    <2>3. \A x \in RequestIds : books.requests[x].status = "Pending" /\ votes[x][a] # "none"
                                => votes[x][a] = "pending"
        BY <1>3 DEF SignIn, Feeds, Inv, TypeOK, Decisions
    <2>. QED
        BY <2>1, <2>2, <2>3 DEF Feeds, AsksAreOpenQuestions, IsOpen, ProgressOnlyWhilePending
<1>4. ASSUME NEW a \in Approvers, ImportAccount(a)
      PROVE  Feeds'
    <2>1. /\ accounts' = accounts \cup {a} /\ imported' = imported \cup {a}
          /\ asks' = asks
        BY <1>4 DEF ImportAccount
    <2>. QED
        BY <2>1 DEF Feeds, AsksAreOpenQuestions, IsOpen, ProgressOnlyWhilePending
<1>. QED
    BY <1>1, <1>2, <1>3, <1>4

LEMMA FeedsInit == Init => Feeds
<1>. SUFFICES ASSUME Init PROVE Feeds
    OBVIOUS
<1>1. \A r \in RequestIds : books.requests[r].status = "Absent"
    BY DEF Init, AbsentRequest
<1>2. asks = {} /\ progress = {} /\ \A r \in RequestIds, a \in Approvers : votes[r][a] = "none"
    BY DEF Init
<1>. QED
    BY <1>1, <1>2 DEF Feeds, AsksAreOpenQuestions, IsOpen, ProgressOnlyWhilePending

LEMMA Conduct == Inv /\ Feeds /\ [Next]_vars => Feeds' /\ Honest
<1>. SUFFICES ASSUME Inv, Feeds, [Next]_vars PROVE Feeds' /\ Honest
    OBVIOUS
<1>1. ASSUME NEW r \in RequestIds, Submit(r) \/ \E o \in RequestIds : Modify(r, o)
      PROVE  Feeds' /\ Honest
    BY <1>1, FileConduct
<1>2. ASSUME NEW r \in RequestIds, NEW a \in Approvers,
             VoteApprove(r, a) \/ VoteReject(r, a) \/ RemoveApprover(r, a)
      PROVE  Feeds' /\ Honest
    BY <1>2, VoteApproveConduct, VoteRejectConduct, RemoveApproverConduct
<1>3. ASSUME NEW r \in RequestIds, ForceDecide(r) \/ Cancel(r)
      PROVE  Feeds' /\ Honest
    BY <1>3, ForceDecideConduct, CancelConduct
<1>4. CASE Refresh
    BY <1>4, RefreshConduct
<1>5. ASSUME NEW a \in Approvers, SignIn(a) \/ ImportAccount(a)
      PROVE  Feeds' /\ Honest
    <2>1. books' = books /\ votes' = votes /\ progress' = progress
        BY <1>5 DEF SignIn, ImportAccount
    <2>. QED
        BY <1>5, <2>1, OtherConduct
<1>6. CASE SetApprovalRequired \/ SetZone \/ Tick \/ UNCHANGED vars
    <2>1. UNCHANGED <<books, votes, progress, asks, accounts, imported>>
        BY <1>6 DEF SetApprovalRequired, SetZone, Tick, vars
    <2>. QED
        BY <2>1, OtherConduct
<1>. QED
    BY <1>1, <1>2, <1>3, <1>4, <1>5, <1>6 DEF Next

LEMMA FeedsHold == Spec => []Feeds
    BY InvHolds, FeedsInit, Conduct, PTL DEF Spec

--------------------------------------------------------------------------------
(* Theorems                                                                 *)

\* The tables keep their types: every row is of its kind, the held remainders
\* are never negative, and only approvers with an account count as imported.
THEOREM TypeCorrect == Spec => []TypeOK
    BY InvHolds, PTL DEF Inv

\* The holds on the balance rows are what the requests still reserve.
THEOREM HoldsAreRight == Spec => []HoldsMatchRequests
<1>1. Inv => HoldsMatchRequests
    BY DEF Inv, Lawful, Sound, HoldsMatchRequests
<1>. QED
    BY <1>1, InvHolds, PTL

\* What was spent is what the requests consumed.
THEOREM SpendingIsRight == Spec => []SpentMatchesConsumed
<1>1. Inv => SpentMatchesConsumed
    BY DEF Inv, Lawful, Sound, SpentMatchesConsumed
<1>. QED
    BY <1>1, InvHolds, PTL

\* The scalar on a request row agrees with its day list and cursor.
THEOREM HeldScalarIsRight == Spec => []HeldScalarMatchesCursor
<1>1. Inv => HeldScalarMatchesCursor
    BY DEF Inv, Lawful, Sound, HeldIsRemaining, HeldScalarMatchesCursor
<1>. QED
    BY <1>1, InvHolds, PTL

\* No date is on two leaves at once.
THEOREM NoDateIsBookedTwice == Spec => []NoDoubleBooking
<1>1. ASSUME Inv PROVE NoDoubleBooking
    <2>. SUFFICES ASSUME NEW r \in RequestIds, NEW x \in RequestIds, r # x,
                         IsActive(books.requests[r]), IsActive(books.requests[x]),
                         NEW d \in (books.requests[r].first..books.requests[r].last)
                                    \cap (books.requests[x].first..books.requests[x].last)
                  PROVE  \/ books.requests[r].status = "Pending" /\ books.requests[r].supersedes = x
                         \/ books.requests[x].status = "Pending" /\ books.requests[x].supersedes = r
        BY DEF NoDoubleBooking
    <2>1. /\ books.requests[r].first \in Nat /\ books.requests[r].last \in Nat
          /\ books.requests[x].first \in Nat /\ books.requests[x].last \in Nat
        BY <1>1, CalendarAssumption DEF Inv, TypeOK, Books, Requests
    <2>2. Overlaps(books.requests[x], <<books.requests[r].first, books.requests[r].last>>)
        BY <2>1 DEF Overlaps
    <2>. QED
        BY <1>1, <2>2 DEF Inv, Lawful, Apart
<1>. QED
    BY <1>1, InvHolds, PTL

\* A pending modification always has the leave it modifies.
THEOREM ReplacementsArePaired == Spec => []ReplacementHasOriginal
<1>1. Inv => ReplacementHasOriginal
    BY DEF Inv, Lawful, Paired, ReplacementHasOriginal
<1>. QED
    BY <1>1, InvHolds, PTL

\* A feed asks what is open; who signed up by signing in is asked all of it.
THEOREM QuestionsAreOpen == Spec => []AsksAreOpenQuestions
<1>1. Feeds => AsksAreOpenQuestions
    BY DEF Feeds
<1>. QED
    BY <1>1, FeedsHold, PTL

\* The requester's trail of votes ends with the request.
THEOREM TrailsEnd == Spec => []ProgressOnlyWhilePending
<1>1. Feeds => ProgressOnlyWhilePending
    BY DEF Feeds
<1>. QED
    BY <1>1, FeedsHold, PTL

\* Leave is cancelled or replaced only before any of its days has ended for
\* the employee: the guard on the UTC date is strong enough for every offset
\* from UTC-12 to UTC+14.
THEOREM LivedLeaveIsKept == Spec => LivedLeaveStands
<1>1. ASSUME Inv, Honest, NEW r \in RequestIds,
             books.requests[r].status = "Approved", books'.requests[r].status # "Approved",
             NEW d \in LeaveDays(books.requests[r])
      PROVE  d \notin books.requests[r].consumed /\ EndOfDay(d, zone) > now
    <2>1. NotStarted(books.requests[r], now)
        BY <1>1 DEF Honest, Stands
    <2>2. /\ now \in Nat /\ zone \in Int /\ zone <= 14
          /\ books.requests[r].first \in Nat
        BY <1>1, NowAndZone, CalendarAssumption DEF Inv, Lawful, Sound, Drafts, Requests
    <2>3. d \in Nat /\ books.requests[r].first <= d
        <3>1. WithinPeriod(books.requests[r]) /\ books.requests[r] \in Requests
            BY <1>1 DEF Inv, Lawful, Sound, Drafts
        <3>2. LeaveDays(books.requests[r]) \subseteq Days
            BY <3>1 DEF Requests, LeaveDays, Slots
        <3>. QED
            BY <1>1, <3>1, <3>2, CalendarAssumption DEF WithinPeriod
    <2>. QED
        BY <2>1, <2>2, <2>3 DEF NotStarted, EndOfDay
<1>2. Inv /\ Feeds /\ [Next]_vars =>
        [\A r \in RequestIds :
            LET q == books.requests[r]
            IN  q.status = "Approved" /\ books'.requests[r].status # "Approved"
                => \A d \in LeaveDays(q) : d \notin q.consumed /\ EndOfDay(d, zone) > now]_vars
    BY <1>1, Conduct
<1>. QED
    BY <1>2, InvHolds, FeedsHold, PTL DEF Spec, LivedLeaveStands

\* Settled requests and cast votes are never rewritten.
THEOREM HistoryIsKept == Spec => HistoryIsFinal
<1>1. Inv /\ Feeds /\ [Next]_vars =>
        [\A r \in RequestIds :
            /\ books.requests[r].status \in {"Rejected", "Cancelled", "Superseded"}
               => books'.requests[r] = books.requests[r] /\ votes'[r] = votes[r]
            /\ \A a \in Approvers :
                votes[r][a] \in {"approved", "rejected"} /\ votes'[r][a] # votes[r][a]
                => votes'[r][a] = "none" /\ books.requests[r].status = "Pending"]_vars
    BY Conduct DEF Honest, Final, Settled
<1>. QED
    BY <1>1, InvHolds, FeedsHold, PTL DEF Spec, HistoryIsFinal

\* Nothing is approved past its approvers but by an override.
THEOREM GateIsKept == Spec => GateIsHonoured
<1>1. Inv /\ Feeds /\ [Next]_vars =>
        [\A r \in RequestIds :
            books.requests[r].status # "Approved" /\ books'.requests[r].status = "Approved"
            => LET to == {a \in Approvers : votes'[r][a] # "none"}
               IN  \/ to # {} /\ \A a \in to : votes'[r][a] = "approved"
                   \/ to = {} /\ ~approvalRequired /\ books.requests[r].status = "Absent"
                   \/ books'.requests[r].lastAction = "force-approved"]_vars
    BY Conduct DEF Honest, Gated
<1>. QED
    BY <1>1, InvHolds, FeedsHold, PTL DEF Spec, GateIsHonoured

--------------------------------------------------------------------------------
(* LeaveRequests implements LeaveLedger.  First the claims.                 *)

LEMMA ClaimIn ==
    ASSUME NEW q, NEW S, NEW c
    PROVE  c \in ClaimsOn(q, S)
           <=> c = <<c[1], c[2]>> /\ c[2] \in S /\ c[1] = <<q.type, YearOf(c[2][1])>>
    BY DEF ClaimsOn

LEMMA ClaimsAreOnBalances ==
    ASSUME NEW q \in Requests, NEW S, S \subseteq Slots
    PROVE  ClaimsOn(q, S) \subseteq Balances \X Slots
<1>1. \A s \in Slots : s[1] \in Days /\ YearOf(s[1]) \in Years
    BY DEF Slots, Years
<1>. QED
    BY <1>1 DEF ClaimsOn, Balances, Requests

\* Claims of one row on two sets of slots differ where the slots do.
LEMMA ClaimsDiffer ==
    ASSUME NEW q, NEW S, NEW T, NEW U
    PROVE  /\ U = S \ T => ClaimsOn(q, U) = ClaimsOn(q, S) \ ClaimsOn(q, T)
           /\ U = S \cup T => ClaimsOn(q, U) = ClaimsOn(q, S) \cup ClaimsOn(q, T)
           /\ S \subseteq T => ClaimsOn(q, S) \subseteq ClaimsOn(q, T)
    BY DEF ClaimsOn

--------------------------------------------------------------------------------
(* What a step does to one row, as the ledger tells it                      *)

RowMoves(p, q) ==
    \/ q.status = "Absent" /\ IsActive(p) /\ p.consumed = {}
    \/ /\ IsActive(q) /\ IsActive(p)
       /\ Frozen(p) = Frozen(q) /\ q.consumed \subseteq p.consumed
    \/ /\ IsActive(q) /\ ~IsActive(p) /\ p.status # "Absent"
       /\ Frozen(p) = Frozen(q) /\ q.consumed = {} /\ p.consumed = {}
    \/ ~IsActive(q) /\ p = q

LEMMA RowMovesClaims ==
    ASSUME NEW p \in Requests, NEW q \in Requests, RowMoves(p, q)
    PROVE  \/ /\ PhaseOf(p) = PhaseOf(q)
              /\ ReservedBy(p) = ReservedBy(q)
              /\ UsedBy(p) = UsedBy(q)
           \/ /\ PhaseOf(q) = "new" /\ PhaseOf(p) = "open"
              /\ ReservedBy(p) \subseteq Balances \X Slots
              /\ UsedBy(p) = {}
           \/ /\ PhaseOf(q) = "open" /\ PhaseOf(p) = "open"
              /\ UsedBy(q) \subseteq UsedBy(p)
              /\ ReservedBy(p) = ReservedBy(q) \ UsedBy(p)
              /\ UsedBy(p) \subseteq UsedBy(q) \cup ReservedBy(q)
           \/ /\ PhaseOf(q) = "open" /\ PhaseOf(p) = "done"
              /\ UsedBy(q) = {} /\ UsedBy(p) = {}
              /\ ReservedBy(p) = {}
<1>1. ASSUME NEW x, x.consumed = {}
      PROVE  UsedBy(x) = {}
    BY <1>1 DEF UsedBy, ClaimsOn, RemainingPaid
<1>2. CASE q.status = "Absent" /\ IsActive(p) /\ p.consumed = {}
    <2>1. RemainingPaid(p) \subseteq Slots
        BY FiniteRemaining
    <2>2. ReservedBy(p) \subseteq Balances \X Slots
        BY <1>2, <2>1, ClaimsAreOnBalances DEF ReservedBy
    <2>3. PhaseOf(q) = "new" /\ PhaseOf(p) = "open"
        BY <1>2 DEF PhaseOf, IsActive
    <2>. QED
        BY <1>1, <1>2, <2>2, <2>3
<1>3. CASE /\ IsActive(q) /\ IsActive(p)
           /\ Frozen(p) = Frozen(q) /\ q.consumed \subseteq p.consumed
    <2>. DEFINE paid == PaidSlots(q)
                before == RemainingPaid(q)
                after == RemainingPaid(p)
                taken == paid \ before
                takenBy == paid \ after
                newly == before \ after
    <2>1. /\ PaidSlots(p) = paid
          /\ after \subseteq before /\ before \subseteq paid
          /\ p.type = q.type
        BY <1>3 DEF Frozen, PaidSlots, RemainingPaid
    <2>2. \A S : ClaimsOn(p, S) = ClaimsOn(q, S)
        BY <2>1 DEF ClaimsOn
    <2>3. PhaseOf(q) = "open" /\ PhaseOf(p) = "open"
        BY <1>3 DEF PhaseOf, IsActive
    <2>4. /\ ReservedBy(q) = ClaimsOn(q, before)
          /\ ReservedBy(p) = ClaimsOn(q, after)
          /\ UsedBy(q) = ClaimsOn(q, taken)
          /\ UsedBy(p) = ClaimsOn(q, takenBy)
        BY <1>3, <2>1, <2>2 DEF ReservedBy, UsedBy
    <2>. HIDE DEF paid, before, after
    <2>5. /\ after = before \ takenBy
          /\ takenBy = taken \cup newly
          /\ taken \subseteq takenBy
          /\ newly \subseteq before
        BY <2>1
    <2>. HIDE DEF taken, takenBy, newly
    <2>6. ClaimsOn(q, after) = ClaimsOn(q, before) \ ClaimsOn(q, takenBy)
        BY ONLY <2>5, ClaimsDiffer
    <2>7. ClaimsOn(q, taken) \subseteq ClaimsOn(q, takenBy)
        BY ONLY <2>5, ClaimsDiffer
    <2>8. ClaimsOn(q, takenBy) = ClaimsOn(q, taken) \cup ClaimsOn(q, newly)
        BY ONLY <2>5, ClaimsDiffer
    <2>9. ClaimsOn(q, newly) \subseteq ClaimsOn(q, before)
        BY ONLY <2>5, ClaimsDiffer
    <2>. QED
        BY <2>3, <2>4, <2>6, <2>7, <2>8, <2>9
<1>4. CASE /\ IsActive(q) /\ ~IsActive(p) /\ p.status # "Absent"
           /\ q.consumed = {} /\ p.consumed = {}
    <2>1. PhaseOf(q) = "open" /\ PhaseOf(p) = "done"
        BY <1>4 DEF PhaseOf, IsActive
    <2>. QED
        BY <1>1, <1>4, <2>1 DEF ReservedBy
<1>5. CASE p = q
    BY <1>5
<1>. QED
    BY <1>2, <1>3, <1>4, <1>5 DEF RowMoves

--------------------------------------------------------------------------------
(* The columns are the totals of the claims                                 *)

Reserved(b) == [r \in RequestIds |-> ReservedBy(b.requests[r])]

Used(b) == [r \in RequestIds |-> UsedBy(b.requests[r])]

\* The ledger counts with the same operator.
LEMMA SameCount == \A S : Ledger!Cardinality(S) = Cardinality(S)
    BY DEF Ledger!Cardinality, Cardinality

LEMMA ColumnsAreTotals ==
    ASSUME NEW b, Sound(b)
    PROVE  /\ b.onHold = [a \in Balances |-> Ledger!Total(Reserved(b), a)]
           /\ b.spent = [a \in Balances |-> Ledger!Total(Used(b), a)]
<1>1. ASSUME NEW r \in RequestIds
      PROVE  /\ b.requests[r] \in Requests
             /\ RemainingPaid(b.requests[r]) \subseteq Slots
             /\ PaidSlots(b.requests[r]) \subseteq Slots
    BY FiniteRemaining DEF Sound, Drafts, PaidSlots, Requests
<1>2. ASSUME NEW k \in LeaveTypes, NEW y \in Years
      PROVE  /\ b.onHold[<<k, y>>] = Ledger!Total(Reserved(b), <<k, y>>)
             /\ b.spent[<<k, y>>] = Ledger!Total(Used(b), <<k, y>>)
    <2>1. ASSUME NEW r \in RequestIds
          PROVE  /\ Ledger!HoursOn(Reserved(b), r, <<k, y>>)
                      = {c \in {r} \X Slots : c \in HeldClaims(b, k, y)}
                 /\ Ledger!HoursOn(Used(b), r, <<k, y>>)
                      = {c \in {r} \X Slots : c \in SpentClaims(b, k, y)}
        <3>. DEFINE q == b.requests[r]
        <3>1. ASSUME NEW S, S \subseteq Slots
              PROVE  {<<r, c[2]>> : c \in {d \in ClaimsOn(q, S) : d[1] = <<k, y>>}}
                       = {r} \X Charging(q, S, k, y)
            <4>. DEFINE charged == {d \in ClaimsOn(q, S) : d[1] = <<k, y>>}
                        slots == Charging(q, S, k, y)
            <4>1. ASSUME NEW s
                  PROVE  s \in slots <=> \E d \in charged : d[2] = s
                <5>1. s \in slots <=> s \in S /\ q.type = k /\ YearOf(s[1]) = y
                    BY DEF Charging
                <5>2. ASSUME s \in slots
                      PROVE  \E d \in charged : d[2] = s
                    <6>1. <<<<k, y>>, s>> \in ClaimsOn(q, S)
                        BY <5>1, <5>2 DEF ClaimsOn
                    <6>. QED
                        BY <6>1
                <5>3. ASSUME NEW d \in charged, d[2] = s
                      PROVE  s \in slots
                    <6>1. s \in S /\ <<k, y>> = <<q.type, YearOf(s[1])>>
                        BY <5>3, ClaimIn
                    <6>. QED
                        BY <5>1, <6>1
                <5>. QED
                    BY <5>2, <5>3
            <4>. HIDE DEF charged, slots
            <4>2. \A x : x \in {<<r, c[2]>> : c \in charged} <=> x \in {r} \X slots
                BY <4>1
            <4>. QED
                BY <4>2 DEF charged, slots
        <3>2. Ledger!HoursOn(Reserved(b), r, <<k, y>>)
                = IF IsActive(q) THEN {r} \X Charging(q, RemainingPaid(q), k, y) ELSE {}
            BY <1>1, <3>1 DEF Ledger!HoursOn, Reserved, ReservedBy
        <3>3. Ledger!HoursOn(Used(b), r, <<k, y>>)
                = {r} \X Charging(q, PaidSlots(q) \ RemainingPaid(q), k, y)
            <4>1. PaidSlots(q) \ RemainingPaid(q) \subseteq Slots
                BY <1>1
            <4>2. Used(b)[r] = ClaimsOn(q, PaidSlots(q) \ RemainingPaid(q))
                BY DEF Used, UsedBy
            <4>. QED
                BY <3>1, <4>1, <4>2 DEF Ledger!HoursOn
        <3>4. {c \in {r} \X Slots : c \in HeldClaims(b, k, y)}
                = IF IsActive(q) THEN {r} \X Charging(q, RemainingPaid(q), k, y) ELSE {}
            BY <1>1 DEF HeldClaims, Charging
        <3>5. {c \in {r} \X Slots : c \in SpentClaims(b, k, y)}
                = {r} \X Charging(q, PaidSlots(q) \ RemainingPaid(q), k, y)
            BY <1>1 DEF SpentClaims, Charging
        <3>. QED
            BY <3>2, <3>3, <3>4, <3>5
    <2>2. UNION {Ledger!HoursOn(Reserved(b), r, <<k, y>>) : r \in RequestIds}
            = HeldClaims(b, k, y)
        BY <2>1 DEF HeldClaims
    <2>3. UNION {Ledger!HoursOn(Used(b), r, <<k, y>>) : r \in RequestIds}
            = SpentClaims(b, k, y)
        BY <2>1 DEF SpentClaims
    <2>. QED
        BY <2>2, <2>3, SameCount DEF Sound, Ledger!Total
<1>3. \A a \in Balances : /\ b.onHold[a] = Ledger!Total(Reserved(b), a)
                          /\ b.spent[a] = Ledger!Total(Used(b), a)
    BY <1>2 DEF Balances
<1>4. b.onHold \in [Balances -> Int] /\ b.spent \in [Balances -> Int]
    BY DEF Sound, Drafts
<1>. QED
    BY <1>3, <1>4
--------------------------------------------------------------------------------
(* Every step moves the rows as the ledger allows                           *)

\* Nothing of a request is taken before it is approved.
Fresh == \A r \in RequestIds :
            books.requests[r].status = "Pending" => books.requests[r].consumed = {}

RowsMove == \A r \in RequestIds : RowMoves(books'.requests[r], books.requests[r])

\* A row that is left to transactions about other requests moves.
LEMMA LaterMoves ==
    ASSUME NEW p, NEW q, Later(p, q)
    PROVE  RowMoves(p, q) /\ p.status = q.status
    BY DEF Later, RowMoves, IsActive

\* So does a leave that is swapped out before it has begun.
LEMMA SwappedMoves ==
    ASSUME NEW p, NEW q, NEW t, q.status = "Approved", p.status = "Superseded",
           NotStarted(q, t), Untaken(p, q)
    PROVE  RowMoves(p, q)
    BY DEF NotStarted, Untaken, RowMoves, IsActive

LEMMA UnchangedMoves ==
    ASSUME NEW p, NEW q, p = q \/ (IsActive(q) /\ p.status = q.status /\ SameTerms(p, q))
    PROVE  RowMoves(p, q)
    BY DEF SameTerms, RowMoves, IsActive

LEMMA FileMoves ==
    ASSUME Inv, Fresh, NEW r \in RequestIds, Submit(r) \/ \E o \in RequestIds : Modify(r, o)
    PROVE  Fresh' /\ RowsMove
<1>1. /\ books.requests[r].status = "Absent"
      /\ books'.requests[r].status \in {"Pending", "Approved"}
      /\ books'.requests[r].consumed = {}
    BY FiledByEither
<1>2. ASSUME NEW x \in RequestIds \ {r}
      PROVE  /\ RowMoves(books'.requests[x], books.requests[x])
             /\ books'.requests[x].status = "Pending" => books'.requests[x].consumed = {}
    <2>1. \/ Later(books'.requests[x], books.requests[x])
          \/ /\ books.requests[x].status = "Approved"
             /\ books'.requests[x].status = "Superseded"
             /\ NotStarted(books.requests[x], now)
             /\ Untaken(books'.requests[x], books.requests[x])
        BY FiledByEither
    <2>2. CASE Later(books'.requests[x], books.requests[x])
        BY <2>2, LaterMoves DEF Later, Fresh
    <2>3. CASE ~Later(books'.requests[x], books.requests[x])
        BY <2>1, <2>3, SwappedMoves
    <2>. QED
        BY <2>2, <2>3
<1>3. RowMoves(books'.requests[r], books.requests[r])
    BY <1>1 DEF RowMoves, IsActive
<1>. QED
    BY <1>1, <1>2, <1>3 DEF Fresh, RowsMove

LEMMA ApproveMoves ==
    ASSUME Inv, Fresh, NEW r \in RequestIds, books.requests[r].status = "Pending",
           NEW action \in Actions, Approve(r, action)
    PROVE  Fresh' /\ RowsMove
<1>1. /\ books'.requests[r].status = "Approved"
      /\ SameTerms(books'.requests[r], books.requests[r])
    BY ApproveRows
<1>2. ASSUME NEW x \in RequestIds \ {r}
      PROVE  /\ RowMoves(books'.requests[x], books.requests[x])
             /\ books'.requests[x].status = "Pending" => books'.requests[x].consumed = {}
    <2>1. CASE Replaces(books, r, x)
        <3>1. /\ books'.requests[x].status = "Superseded"
              /\ NotStarted(books.requests[x], now)
              /\ Untaken(books'.requests[x], books.requests[x])
            BY <2>1, ApproveRows
        <3>. QED
            BY <2>1, <3>1, SwappedMoves DEF Replaces
    <2>2. CASE ~Replaces(books, r, x)
        <3>1. Later(books'.requests[x], books.requests[x])
            BY <2>2, ApproveRows
        <3>. QED
            BY <3>1, LaterMoves DEF Later, Fresh
    <2>. QED
        BY <2>1, <2>2
<1>3. RowMoves(books'.requests[r], books.requests[r])
    BY <1>1 DEF SameTerms, RowMoves, IsActive
<1>. QED
    BY <1>1, <1>2, <1>3 DEF Fresh, RowsMove

LEMMA SettleMoves ==
    ASSUME Inv, Fresh, NEW r \in RequestIds,
           \/ books.requests[r].status = "Pending"
           \/ /\ books.requests[r].status = "Approved"
              /\ ~PendingReplacement(r)
              /\ books.requests[r].consumed = {},
           NEW status \in {"Rejected", "Cancelled"}, NEW action \in Actions,
           Settle(r, status, action)
    PROVE  Fresh' /\ RowsMove
<1>1. /\ books'.requests[r].status = status
      /\ SameTerms(books'.requests[r], books.requests[r])
      /\ \A x \in RequestIds \ {r} : books'.requests[x] = books.requests[x]
    BY SettleRows
<1>2. IsActive(books.requests[r]) /\ books.requests[r].consumed = {}
    BY DEF Fresh, IsActive
<1>3. RowMoves(books'.requests[r], books.requests[r])
    BY <1>1, <1>2 DEF SameTerms, RowMoves, IsActive
<1>4. \A x \in RequestIds \ {r} : RowMoves(books'.requests[x], books.requests[x])
    BY <1>1, UnchangedMoves
<1>. QED
    BY <1>1, <1>3, <1>4 DEF Fresh, RowsMove

LEMMA AnnotateMoves ==
    ASSUME Inv, Fresh, NEW r \in RequestIds, books.requests[r].status = "Pending",
           NEW action \in Actions, books' = SetLastAction(books, r, action)
    PROVE  Fresh' /\ RowsMove
<1>1. /\ books'.requests[r].status = "Pending"
      /\ SameTerms(books'.requests[r], books.requests[r])
      /\ \A x \in RequestIds \ {r} : books'.requests[x] = books.requests[x]
    BY AnnotateRows
<1>2. \A x \in RequestIds : RowMoves(books'.requests[x], books.requests[x])
    BY <1>1, UnchangedMoves DEF IsActive
<1>. QED
    BY <1>1, <1>2 DEF Fresh, RowsMove, SameTerms

LEMMA StepMoves == Inv /\ Fresh /\ [Next]_vars => Fresh' /\ RowsMove
<1>. SUFFICES ASSUME Inv, Fresh, [Next]_vars PROVE Fresh' /\ RowsMove
    OBVIOUS
<1>1. ASSUME NEW r \in RequestIds, Submit(r) \/ \E o \in RequestIds : Modify(r, o)
      PROVE  Fresh' /\ RowsMove
    BY <1>1, FileMoves
<1>2. ASSUME NEW r \in RequestIds, NEW a \in Approvers, VoteApprove(r, a)
      PROVE  Fresh' /\ RowsMove
    BY <1>2, ApproveMoves, AnnotateMoves DEF VoteApprove, MayVote, Commit, Actions
<1>3. ASSUME NEW r \in RequestIds, NEW a \in Approvers, VoteReject(r, a)
      PROVE  Fresh' /\ RowsMove
    BY <1>3, SettleMoves DEF VoteReject, MayVote, Actions
<1>4. ASSUME NEW r \in RequestIds, ForceDecide(r)
      PROVE  Fresh' /\ RowsMove
    BY <1>4, ApproveMoves, SettleMoves DEF ForceDecide, Actions
<1>5. ASSUME NEW r \in RequestIds, NEW a \in Approvers, RemoveApprover(r, a)
      PROVE  Fresh' /\ RowsMove
    BY <1>5, ApproveMoves, AnnotateMoves DEF RemoveApprover, Commit, Actions
<1>6. ASSUME NEW r \in RequestIds, Cancel(r)
      PROVE  Fresh' /\ RowsMove
    BY <1>6, SettleMoves DEF Cancel, HasStarted, Actions
<1>7. CASE Refresh
    <2>1. \A x \in RequestIds : Later(books'.requests[x], books.requests[x])
        BY <1>7, RefreshRows
    <2>. QED
        BY <2>1, LaterMoves DEF Later, Fresh, RowsMove
<1>8. ASSUME books' = books
      PROVE  Fresh' /\ RowsMove
    BY <1>8, UnchangedMoves DEF Fresh, RowsMove
<1>9. CASE \/ \E a \in Approvers : SignIn(a) \/ ImportAccount(a)
           \/ SetApprovalRequired \/ SetZone \/ Tick \/ UNCHANGED vars
    BY <1>8, <1>9 DEF SignIn, ImportAccount, SetApprovalRequired, SetZone, Tick, vars
<1>. QED
    BY <1>1, <1>2, <1>3, <1>4, <1>5, <1>6, <1>7, <1>9 DEF Next

--------------------------------------------------------------------------------
(* The refinement                                                           *)

LEMMA LedgerInit == Init => Ledger!Init
<1>. SUFFICES ASSUME Init PROVE Ledger!Init
    OBVIOUS
<1>1. \A r \in RequestIds : books.requests[r] = AbsentRequest
    BY DEF Init
<1>2. /\ PhaseOf(AbsentRequest) = "new"
      /\ ReservedBy(AbsentRequest) = {}
      /\ UsedBy(AbsentRequest) = {}
    BY DEF AbsentRequest, PhaseOf, ReservedBy, UsedBy, ClaimsOn, PaidSlots, IsActive
<1>. QED
    BY <1>1, <1>2 DEF Init, Ledger!Init

LEMMA LedgerNext ==
    Inv /\ Inv' /\ RowsMove => Ledger!Next
<1>. SUFFICES ASSUME Inv, Inv', RowsMove PROVE Ledger!Next
    OBVIOUS
<1>1. Sound(books) /\ Sound(books')
    BY DEF Inv, Lawful
<1>2. /\ books'.onHold = [a \in Balances |-> Ledger!Total(Reserved(books'), a)]
      /\ books'.spent = [a \in Balances |-> Ledger!Total(Used(books'), a)]
    BY <1>1, ColumnsAreTotals
<1>3. ASSUME NEW r \in RequestIds
      PROVE  Ledger!File(r) \/ Ledger!Take(r) \/ Ledger!GiveBack(r) \/ Ledger!Rest(r)
    <2>1. /\ books.requests[r] \in Requests /\ books'.requests[r] \in Requests
          /\ RowMoves(books'.requests[r], books.requests[r])
        BY <1>1 DEF Sound, Drafts, RowsMove
    <2>. QED
        BY <2>1, RowMovesClaims
        DEF Ledger!File, Ledger!Take, Ledger!GiveBack, Ledger!Rest, Ledger!Claims
<1>. QED
    BY <1>2, <1>3 DEF Ledger!Next, Reserved, Used

LEMMA FreshHolds == Spec => []Fresh
<1>1. Init => Fresh
    BY DEF Init, Fresh, AbsentRequest
<1>2. Inv /\ Fresh /\ [Next]_vars => Fresh'
    BY StepMoves
<1>. QED
    BY <1>1, <1>2, InvHolds, PTL DEF Spec

\* Whatever a transaction does to the requests of an employee, the ledger
\* allows it: claims are filed once, then all given back with none taken, or
\* taken for good, and the columns of every balance are their totals
\* (createLeaveRequestTx, releaseHold, reconcileApprovedLeaveTx).
THEOREM LedgerIsImplemented == Spec => ImplementsLedger
<1>1. Inv /\ Fresh /\ [Next]_vars /\ Inv' => [Ledger!Next]_(Ledger!vars)
    BY StepMoves, LedgerNext
<1>. QED
    BY <1>1, LedgerInit, InvHolds, FreshHolds, PTL DEF Spec, ImplementsLedger, Ledger!Spec
================================================================================
