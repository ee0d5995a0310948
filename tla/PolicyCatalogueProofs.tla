------------------------ MODULE PolicyCatalogueProofs ------------------------
(***************************************************************************)
(* That the live memberships of an account divide its days among them, and *)
(* that an import does what its report said, for any number of accounts,   *)
(* policies and memberships, any file and any calendar.                    *)
(*                                                                         *)
(* What is live now does not say why: cancelling a transfer and importing  *)
(* a history delete rows, and a row that named a deleted one comes alive   *)
(* again.  The invariant therefore says of the superseded rows that only a *)
(* row that has begun supersedes (a transfer that can be cancelled has     *)
(* not), and that whatever a live row supersedes includes an open row (so  *)
(* the unique index refuses the import that would revive it).              *)
(***************************************************************************)
EXTENDS PolicyCatalogue, OrderLemmas

-----------------------------------------------------------------------------
(* The inductive invariant.  Its parts are predicates of a timeline t and   *)
(* of the date, today, of its user.                                         *)

IsRow(r) ==
  /\ r = [policy |-> r.policy, from |-> r.from, to |-> r.to, by |-> r.by, auto |-> r.auto]
  /\ r.from \in Dates /\ r.to \in Dates \cup {NoDate}

Table(t) ==
  /\ IsFiniteSet(DOMAIN t) /\ DOMAIN t \subseteq RowIds
  /\ \A i \in DOMAIN t : IsRow(t[i]) /\ t[i].by \in DOMAIN t \cup {NoRow}

\* Does the first row end where the second starts, or earlier?
Before(r, s) == r.to # NoDate /\ r.to <= s.from

\* Live rows are in a line, one after the other.
InLine(t) ==
  /\ \A i \in Live(t) : t[i].to = NoDate \/ t[i].from <= t[i].to
  /\ \A i, j \in Live(t) : i = j \/ Before(t[i], t[j]) \/ Before(t[j], t[i])

\* Nothing is missing between them, nor after them.
NoGap(t) ==
  /\ Live(t) # {} => Open(t) # {}
  /\ \A i \in Live(t), day \in Dates :
       t[i].from <= day => \E k \in Live(t) : Governs(t[k], day)

\* A live row that governs no day has begun.
EmptyHaveBegun(t, today) ==
  \A i \in Live(t) : t[i].to = t[i].from => t[i].from <= today

\* So has a row that supersedes another.
SupersedingHaveBegun(t, today) ==
  \A i \in DOMAIN t : t[i].by # NoRow => t[t[i].by].from <= today

\* Of the rows that a live one supersedes, one is open.
SupersedesOpen(t) ==
  \A i \in DOMAIN t :
    t[i].by \in Live(t) => \E j \in DOMAIN t : t[j].by = t[i].by /\ t[j].to = NoDate

Sound(t, today) ==
  /\ Table(t) /\ InLine(t) /\ NoGap(t)
  /\ EmptyHaveBegun(t, today) /\ SupersedingHaveBegun(t, today) /\ SupersedesOpen(t)

Inv ==
  /\ DOMAIN rows = Users /\ DOMAIN joining = Users
  /\ hired \in [Users -> Nat \cup {NoDate, NoAccount}]
  /\ now \in FirstDay..LastDay
  /\ \A u \in Users :
       /\ Sound(rows[u], Today(u))
       /\ u \notin Accounts => DOMAIN rows[u] = {}
       /\ joining[u] # NoPolicy => u \notin Accounts

-----------------------------------------------------------------------------
(* Rows and tables *)

LEMMA Moved ==
  ASSUME NEW r, IsRow(r), NEW d \in Dates \cup {NoDate}
  PROVE  LET s == [r EXCEPT !.to = d]
         IN  IsRow(s) /\ s.from = r.from /\ s.to = d /\ s.by = r.by
  BY DEF IsRow

LEMMA Marked ==
  ASSUME NEW r, IsRow(r), NEW k
  PROVE  LET s == [r EXCEPT !.by = k]
         IN  IsRow(s) /\ s.from = r.from /\ s.to = r.to /\ s.by = k
  BY DEF IsRow

LEMMA NewRowIsNew ==
  ASSUME NEW t, Table(t)
  PROVE  NewRow(t) \in RowIds \ DOMAIN t
<1> DEFINE n == Cardinality(DOMAIN t)
           I == 1..(n + 1)
<1>1. n \in Nat
  BY FS_CardinalityType DEF Table
<1>2. IsFiniteSet(I) /\ Cardinality(I) = n + 1
  BY <1>1, FS_Interval
<1>3. ~(I \subseteq DOMAIN t)
  <2>1. SUFFICES ASSUME I \subseteq DOMAIN t PROVE FALSE
    OBVIOUS
  <2>2. Cardinality(I) <= n
    BY <2>1, FS_Subset DEF Table
  <2> QED BY <1>1, <1>2, <2>2
<1>4. \E i \in I : i \notin DOMAIN t
  BY <1>3
<1> QED BY <1>1, <1>4 DEF NewRow, RowIds, NoRow

LEMMA AtMostOne ==
  ASSUME NEW S, IsFiniteSet(S), Cardinality(S) <= 1, NEW a \in S, NEW b \in S
  PROVE  a = b
<1>1. SUFFICES ASSUME a # b PROVE FALSE
  OBVIOUS
<1> DEFINE R == S \ {a}
<1>2. IsFiniteSet(R) /\ Cardinality(R) = Cardinality(S) - 1
  BY FS_RemoveElement
<1>3. Cardinality(R) \in Nat /\ Cardinality(S) \in Nat
  BY <1>2, FS_CardinalityType
<1>4. Cardinality(R) = 0
  BY <1>2, <1>3
<1>5. R = {}
  BY <1>2, <1>4, FS_EmptySet
<1> QED BY <1>1, <1>5

\* Inserting a row leaves the others as they are.
LEMMA InsertedRow ==
  ASSUME NEW t, Table(t), NEW r, IsRow(r), r.by = NoRow,
         NEW n, n = NewRow(t), NEW s, s = Inserted(t, r)
  PROVE  /\ Table(s)
         /\ n \notin DOMAIN t /\ n \in RowIds
         /\ DOMAIN s = DOMAIN t \cup {n}
         /\ s[n] = r
         /\ \A i \in DOMAIN t : s[i] = t[i]
         /\ Live(s) = Live(t) \cup {n}
<1>1. n \notin DOMAIN t /\ n \in RowIds
  BY NewRowIsNew
<1>2. DOMAIN s = DOMAIN t \cup {n} /\ s[n] = r /\ \A i \in DOMAIN t : s[i] = t[i]
  BY <1>1 DEF Inserted
<1>3. IsFiniteSet(DOMAIN s)
  BY <1>2, FS_AddElement DEF Table
<1>4. Table(s)
  BY <1>1, <1>2, <1>3 DEF Table
<1>5. Live(s) = Live(t) \cup {n}
  BY <1>1, <1>2 DEF Live
<1> QED BY <1>1, <1>2, <1>4, <1>5

LEMMA EnrolledRow ==
  ASSUME NEW p, NEW from \in Dates, NEW auto
  PROVE  LET r == [policy |-> p, from |-> from, to |-> NoDate, by |-> NoRow, auto |-> auto]
         IN  IsRow(r) /\ r.by = NoRow /\ r.from = from /\ r.to = NoDate
  BY DEF IsRow, Dates

LEMMA ClosedRows ==
  ASSUME NEW t, Table(t), NEW S, NEW from \in Dates
  PROVE  LET c == ClosedAt(t, S, from)
         IN  /\ Table(c)
             /\ DOMAIN c = DOMAIN t
             /\ Live(c) = Live(t)
             /\ \A i \in DOMAIN t :
                  /\ c[i].from = t[i].from /\ c[i].by = t[i].by
                  /\ c[i].to = IF i \in S THEN from ELSE t[i].to
<1> DEFINE c == ClosedAt(t, S, from)
<1>1. DOMAIN c = DOMAIN t
  BY DEF ClosedAt
<1>2. ASSUME NEW i \in DOMAIN t
      PROVE  /\ IsRow(c[i]) /\ c[i].from = t[i].from /\ c[i].by = t[i].by
             /\ c[i].to = IF i \in S THEN from ELSE t[i].to
  <2>1. IsRow(t[i])
    BY DEF Table
  <2>2. CASE i \in S
    BY <2>1, <2>2, Moved DEF ClosedAt
  <2>3. CASE i \notin S
    BY <2>1, <2>3 DEF ClosedAt
  <2> QED BY <2>2, <2>3
<1> HIDE DEF c
<1>3. Table(c)
  BY <1>1, <1>2 DEF Table
<1>4. Live(c) = Live(t)
  BY <1>1, <1>2 DEF Live
<1> QED BY <1>1, <1>2, <1>3, <1>4 DEF c

-----------------------------------------------------------------------------
(* A transfer that leaves the past alone *)

LEMMA OneOpen ==
  ASSUME NEW t, InLine(t), NEW i \in Open(t), NEW j \in Open(t)
  PROVE  i = j
  BY DEF InLine, Open, Before

\* The open row ends where the new one starts.
LEMMA AppendedIsSound ==
  ASSUME NEW t, NEW today \in Int, Sound(t, today),
         NEW p, NEW from \in Dates,
         \A i \in Open(t) : t[i].from < from \/ (t[i].from = from /\ from <= today)
  PROVE  Sound(Appended(t, p, from), today)
<1> DEFINE c == ClosedAt(t, Open(t), from)
           r == [policy |-> p, from |-> from, to |-> NoDate, by |-> NoRow, auto |-> FALSE]
           n == NewRow(c)
           s == Inserted(c, r)
<1>1. /\ Table(c) /\ DOMAIN c = DOMAIN t /\ Live(c) = Live(t)
      /\ \A i \in DOMAIN t :
           /\ c[i].from = t[i].from /\ c[i].by = t[i].by
           /\ c[i].to = IF i \in Open(t) THEN from ELSE t[i].to
  BY ClosedRows DEF Sound
<1>2. IsRow(r) /\ r.by = NoRow /\ r.from = from /\ r.to = NoDate
  BY EnrolledRow
<1> HIDE DEF c, r
<1>3. /\ Table(s) /\ n \notin DOMAIN t /\ n \in RowIds
      /\ DOMAIN s = DOMAIN t \cup {n} /\ s[n] = r
      /\ \A i \in DOMAIN t : s[i] = c[i]
      /\ Live(s) = Live(t) \cup {n}
  BY <1>1, <1>2, InsertedRow
<1>4. s = Appended(t, p, from)
  BY DEF Appended, Enrolled, c, r
<1> HIDE DEF n, s
<1>5. /\ s[n].from = from /\ s[n].to = NoDate /\ s[n].by = NoRow
      /\ \A i \in DOMAIN t :
           /\ s[i].from = t[i].from /\ s[i].by = t[i].by
           /\ s[i].to = IF i \in Open(t) THEN from ELSE t[i].to
  BY <1>1, <1>2, <1>3
<1>6. /\ \A i \in Live(t) : i \in DOMAIN t /\ t[i].from \in Dates
      /\ \A i \in Live(t) : t[i].to \in Dates \cup {NoDate}
      /\ \A i \in Live(t) : i \in Open(t) <=> t[i].to = NoDate
      /\ \A i \in Open(t) : i \in Live(t)
  BY DEF Sound, Table, IsRow, Live, Open
<1>7. InLine(s)
  <2>1. \A i, j \in Live(t) : i = j \/ Before(s[i], s[j]) \/ Before(s[j], s[i])
    BY <1>5, <1>6 DEF Sound, InLine, Before, Dates, NoDate
  <2>2. \A i \in Live(t) : Before(s[i], s[n])
    <3>1. SUFFICES ASSUME NEW i \in Live(t) PROVE Before(s[i], s[n])
      OBVIOUS
    <3>2. CASE i \in Open(t)
      BY <3>2, <1>5, <1>6 DEF Before, Dates, NoDate
    <3>3. CASE i \notin Open(t)
      <4>1. PICK o \in Open(t) : TRUE
        BY DEF Sound, NoGap
      <4>2. Before(t[i], t[o])
        BY <4>1, <3>3, <1>6 DEF Sound, InLine, Before
      <4> QED BY <4>1, <4>2, <3>3, <1>5, <1>6 DEF Before, Dates, NoDate
    <3> QED BY <3>2, <3>3
  <2>3. \A i \in Live(s) : s[i].to = NoDate \/ s[i].from <= s[i].to
    BY <1>3, <1>5, <1>6 DEF Sound, InLine, Dates, NoDate
  <2> QED BY <2>1, <2>2, <2>3, <1>3 DEF InLine
<1>8. NoGap(s)
  <2>1. n \in Open(s)
    BY <1>3, <1>5 DEF Open
  <2>2. ASSUME NEW i \in Live(s), NEW day \in Dates, s[i].from <= day
        PROVE  \E k \in Live(s) : Governs(s[k], day)
    <3>1. CASE from <= day
      BY <3>1, <1>3, <1>5 DEF Governs
    <3>2. CASE day < from
      <4>1. i \in Live(t) /\ t[i].from <= day
        BY <3>2, <2>2, <1>3, <1>5, <1>6 DEF Dates
      <4>2. PICK k \in Live(t) : Governs(t[k], day)
        BY <4>1 DEF Sound, NoGap
      <4>3. Governs(s[k], day)
        BY <4>2, <3>2, <1>5, <1>6 DEF Governs, Dates, NoDate
      <4> QED BY <4>3, <1>3
    <3> QED BY <3>1, <3>2 DEF Dates
  <2> QED BY <2>1, <2>2 DEF NoGap
<1>9. EmptyHaveBegun(s, today)
  BY <1>3, <1>5, <1>6 DEF Sound, EmptyHaveBegun, Dates, NoDate
<1>10. SupersedingHaveBegun(s, today)
  BY <1>3, <1>5 DEF Sound, SupersedingHaveBegun, Table
<1>11. SupersedesOpen(s)
  <2>1. ASSUME NEW i \in DOMAIN s, s[i].by \in Live(s)
        PROVE  \E j \in DOMAIN s : s[j].by = s[i].by /\ s[j].to = NoDate
    <3>1. i \in DOMAIN t /\ t[i].by \in Live(t)
      BY <2>1, <1>3, <1>5 DEF Sound, Table, Live, RowIds
    <3>2. PICK j \in DOMAIN t : t[j].by = t[i].by /\ t[j].to = NoDate
      BY <3>1 DEF Sound, SupersedesOpen
    <3>3. j \notin Open(t)
      BY <3>1, <3>2 DEF Sound, Table, Open, Live, RowIds
    <3> QED BY <3>1, <3>2, <3>3, <1>3, <1>5
  <2> QED BY <2>1 DEF SupersedesOpen
<1> QED BY <1>3, <1>4, <1>7, <1>8, <1>9, <1>10, <1>11 DEF Sound

-----------------------------------------------------------------------------
(* The cancellation of a transfer *)

LEMMA RemovedRows ==
  ASSUME NEW t, Table(t), NEW S, S \subseteq DOMAIN t
  PROVE  LET s == Removed(t, S)
         IN  /\ Table(s)
             /\ DOMAIN s = DOMAIN t \ S
             /\ \A i \in DOMAIN t \ S :
                  /\ s[i].from = t[i].from /\ s[i].to = t[i].to
                  /\ s[i].by = IF t[i].by \in S THEN NoRow ELSE t[i].by
<1> DEFINE s == Removed(t, S)
<1>1. DOMAIN s = DOMAIN t \ S
  BY DEF Removed
<1>2. IsFiniteSet(DOMAIN s)
  BY <1>1, FS_Subset DEF Table
<1>3. ASSUME NEW i \in DOMAIN t \ S
      PROVE  /\ IsRow(s[i]) /\ s[i].from = t[i].from /\ s[i].to = t[i].to
             /\ s[i].by = IF t[i].by \in S THEN NoRow ELSE t[i].by
  <2>1. i \in DOMAIN t /\ IsRow(t[i])
    BY DEF Table
  <2>2. CASE t[i].by \in S
    BY <2>1, <2>2, Marked DEF Removed
  <2>3. CASE t[i].by \notin S
    BY <2>1, <2>3 DEF Removed
  <2> QED BY <2>2, <2>3
<1> HIDE DEF s
<1>4. Table(s)
  BY <1>1, <1>2, <1>3 DEF Table
<1> QED BY <1>1, <1>3, <1>4 DEF s

\* Is s the timeline t without row i, and otherwise the same?
Without(t, i, s) ==
  /\ Table(s) /\ DOMAIN s = DOMAIN t \ {i} /\ Live(s) = Live(t) \ {i}
  /\ \A j \in DOMAIN t \ {i} :
       s[j].from = t[j].from /\ s[j].to = t[j].to /\ s[j].by = t[j].by

\* No row becomes live by the removal of one that has not begun.
LEMMA WithoutScheduled ==
  ASSUME NEW t, NEW today \in Int, Sound(t, today),
         NEW i \in Open(t), t[i].from > today
  PROVE  Without(t, i, Removed(t, {i}))
<1> DEFINE S == {i}
           s == Removed(t, S)
<1>1. i \in DOMAIN t /\ S \subseteq DOMAIN t /\ i # NoRow
  BY DEF Sound, Table, Open, Live, RowIds
<1>2. \A j \in DOMAIN t : t[j].by # i
  BY <1>1 DEF Sound, SupersedingHaveBegun, Table, IsRow, Dates
<1>3. /\ Table(s) /\ DOMAIN s = DOMAIN t \ S
      /\ \A j \in DOMAIN t \ S :
           /\ s[j].from = t[j].from /\ s[j].to = t[j].to
           /\ s[j].by = IF t[j].by \in S THEN NoRow ELSE t[j].by
  <2>1. Table(t)
    BY DEF Sound
  <2> HIDE DEF S
  <2> QED BY <1>1, <2>1, RemovedRows
<1> HIDE DEF s
<1>4. Without(t, i, s)
  BY <1>2, <1>3 DEF Live, Without
<1> QED BY <1>4 DEF s

\* Before a transfer that has not begun ends another row, if there is one.
LEMMA PredecessorEnds ==
  ASSUME NEW t, NEW today \in Int, Sound(t, today),
         NEW i \in Open(t), t[i].from > today, Live(t) # {i}
  PROVE  /\ \E j \in Live(t) \ {i} : t[j].to = t[i].from
         /\ \A j \in Live(t) \ {i} :
              /\ t[j].to # NoDate /\ t[j].to <= t[i].from /\ t[j].from < t[i].from
              /\ Before(t[j], t[i]) /\ ~Before(t[i], t[j])
<1>1. \A j \in Live(t) :
        /\ j \in DOMAIN t /\ t[j].from \in Nat /\ t[j].to \in Nat \cup {NoDate}
        /\ t[j].to = NoDate \/ t[j].from <= t[j].to
  BY DEF Sound, Table, IsRow, Live, Dates, InLine
<1>2. i \in Live(t) /\ t[i].to = NoDate
  BY DEF Open
<1>3. \A j \in Live(t) \ {i} : Before(t[j], t[i]) /\ ~Before(t[i], t[j])
  BY <1>2 DEF Sound, InLine, Before
<1>4. \A j \in Live(t) \ {i} :
        t[j].to # NoDate /\ t[j].to <= t[i].from /\ t[j].from < t[i].from
  BY <1>1, <1>2, <1>3 DEF Before, Sound, EmptyHaveBegun, NoDate
<1>5. PICK k \in Live(t) \ {i} : TRUE
  BY <1>2
<1> DEFINE eve == t[i].from - 1
<1>6. eve \in Dates /\ t[k].from <= eve /\ eve < t[i].from
  BY <1>1, <1>2, <1>4, <1>5 DEF Dates
<1>7. PICK j \in Live(t) : Governs(t[j], eve)
  BY <1>6 DEF Sound, NoGap
<1>8. j # i
  BY <1>1, <1>2, <1>6, <1>7 DEF Governs
<1>9. t[j].to = t[i].from
  BY <1>1, <1>2, <1>4, <1>7, <1>8 DEF Governs, NoDate
<1> QED BY <1>3, <1>4, <1>8, <1>9

\* The predecessor reopens.
LEMMA CancelledIsSound ==
  ASSUME NEW t, NEW today \in Int, Sound(t, today),
         NEW i \in Open(t), t[i].from > today,
         NEW s,
         \/ /\ ~\E j \in Live(t) \ {i} : t[j].to = t[i].from
            /\ s = Removed(t, {i})
         \/ \E j \in Live(t) \ {i} :
              /\ t[j].to = t[i].from
              /\ s = [Removed(t, {i}) EXCEPT ![j].to = NoDate]
  PROVE  Sound(s, today)
<1> DEFINE r == Removed(t, {i})
<1>1. /\ Table(r) /\ DOMAIN r = DOMAIN t \ {i} /\ Live(r) = Live(t) \ {i}
      /\ \A k \in DOMAIN t \ {i} :
           r[k].from = t[k].from /\ r[k].to = t[k].to /\ r[k].by = t[k].by
  <2>1. Without(t, i, r)
    BY WithoutScheduled
  <2> HIDE DEF r
  <2> QED BY <2>1 DEF Without
<1> HIDE DEF r
<1>2. \A k \in DOMAIN t :
        /\ t[k].from \in Nat /\ t[k].to \in Nat \cup {NoDate}
        /\ t[k].by # NoRow => t[k].by \in DOMAIN t /\ t[k].by # i
  <2>1. \A k \in DOMAIN t :
          /\ t[k].from \in Nat /\ t[k].to \in Nat \cup {NoDate}
          /\ t[k].by \in DOMAIN t \cup {NoRow}
    BY DEF Sound, Table, IsRow, Dates
  <2> QED BY <2>1 DEF Sound, SupersedingHaveBegun
<1>3. Live(t) \subseteq DOMAIN t /\ NoRow \notin DOMAIN t /\ i \in Live(t)
  BY DEF Live, Open, Sound, Table, RowIds
<1>4. CASE Live(t) = {i}
  <2>1. s = r
    BY <1>4 DEF r
  <2>2. Live(s) = {}
    BY <2>1, <1>4, <1>1
  <2>3. SupersedingHaveBegun(s, today)
    BY <2>1, <1>1, <1>2 DEF Sound, SupersedingHaveBegun
  <2> QED BY <2>1, <2>2, <2>3, <1>1
          DEF Sound, InLine, NoGap, EmptyHaveBegun, SupersedesOpen
<1>5. CASE Live(t) # {i}
  <2>1. /\ \E j \in Live(t) \ {i} : t[j].to = t[i].from
        /\ \A j \in Live(t) \ {i} :
             /\ t[j].to # NoDate /\ t[j].to <= t[i].from /\ t[j].from < t[i].from
             /\ Before(t[j], t[i]) /\ ~Before(t[i], t[j])
    BY <1>5, PredecessorEnds
  <2>2. PICK j \in Live(t) \ {i} : t[j].to = t[i].from /\ s = [r EXCEPT ![j].to = NoDate]
    BY <2>1 DEF r
  <2>3. j \in DOMAIN r /\ IsRow(r[j])
    BY <1>1, <1>3 DEF Table
  <2>4. /\ DOMAIN s = DOMAIN r /\ \A k \in DOMAIN r \ {j} : s[k] = r[k]
        /\ s[j] = [r[j] EXCEPT !.to = NoDate]
    BY <2>2, <2>3
  <2>5. IsRow(s[j]) /\ s[j].from = r[j].from /\ s[j].to = NoDate /\ s[j].by = r[j].by
    BY <2>3, <2>4, Moved
  <2>6. /\ Table(s) /\ DOMAIN s = DOMAIN t \ {i} /\ Live(s) = Live(t) \ {i}
        /\ \A k \in DOMAIN s :
             /\ s[k].from = t[k].from /\ s[k].by = t[k].by
             /\ s[k].to = IF k = j THEN NoDate ELSE t[k].to
    <3>1. \A k \in DOMAIN s :
             /\ IsRow(s[k]) /\ s[k].from = t[k].from /\ s[k].by = t[k].by
             /\ s[k].to = IF k = j THEN NoDate ELSE t[k].to
      BY <1>1, <2>4, <2>5 DEF Table
    <3>2. Table(s)
      BY <1>1, <1>2, <2>4, <3>1 DEF Table
    <3>3. Live(s) = Live(r)
      BY <1>1, <2>4, <3>1 DEF Live
    <3> QED BY <1>1, <2>4, <3>1, <3>2, <3>3
  <2>7. \A k \in Live(s) : k \in DOMAIN s /\ k \in Live(t) /\ k \in DOMAIN t
    BY <2>6, <1>3
  <2>8. InLine(s)
    <3>1. \A k \in Live(s) : s[k].to = NoDate \/ s[k].from <= s[k].to
      BY <2>6, <2>7 DEF Sound, InLine
    <3>2. ASSUME NEW k \in Live(s), NEW m \in Live(s), k # m, k # j, m # j
          PROVE  Before(s[k], s[m]) \/ Before(s[m], s[k])
      BY <3>2, <2>6, <2>7 DEF Sound, InLine, Before
    <3>3. ASSUME NEW k \in Live(s), k # j
          PROVE  Before(s[k], s[j])
      <4>1. ~Before(t[j], t[k])
        <5>1. t[k].from < t[i].from
          BY <2>1, <2>6
        <5>2. t[k].from \in Nat /\ t[i].from \in Nat
          BY <1>2, <1>3, <2>7
        <5> QED BY <5>1, <5>2, <2>2 DEF Before
      <4>2. Before(t[k], t[j])
        BY <4>1, <3>3, <2>2, <2>7 DEF Sound, InLine
      <4> QED BY <4>2, <3>3, <2>2, <2>6, <2>7 DEF Before
    <3> QED BY <3>1, <3>2, <3>3 DEF InLine
  <2>9. NoGap(s)
    <3>1. j \in Open(s)
      BY <2>2, <2>6, <2>5, <1>3 DEF Open
    <3>2. ASSUME NEW k \in Live(s), NEW day \in Dates, s[k].from <= day
          PROVE  \E m \in Live(s) : Governs(s[m], day)
      <4>1. PICK m \in Live(t) : Governs(t[m], day)
        BY <3>2, <2>6, <2>7 DEF Sound, NoGap
      <4>2. CASE m \in {i, j}
        <5>1. t[j].from <= day
          BY <4>1, <4>2, <2>1, <2>2, <1>2, <1>3 DEF Governs, Dates
        <5> QED BY <5>1, <2>2, <2>6, <1>3 DEF Governs
      <4>3. CASE m \notin {i, j}
        BY <4>1, <4>3, <2>6, <1>3 DEF Governs
      <4> QED BY <4>2, <4>3
    <3> QED BY <3>1, <3>2 DEF NoGap
  <2>10. EmptyHaveBegun(s, today)
    BY <2>6, <2>7, <1>2 DEF Sound, EmptyHaveBegun, NoDate
  <2>11. SupersedingHaveBegun(s, today)
    BY <2>6, <1>2 DEF Sound, SupersedingHaveBegun
  <2>12. SupersedesOpen(s)
    <3>1. ASSUME NEW k \in DOMAIN s, s[k].by \in Live(s)
          PROVE  \E m \in DOMAIN s : s[m].by = s[k].by /\ s[m].to = NoDate
      <4>1. PICK m \in DOMAIN t : t[m].by = t[k].by /\ t[m].to = NoDate
        BY <3>1, <2>6 DEF Sound, SupersedesOpen
      <4>2. m # i
        BY <4>1, <3>1, <2>6, <2>7, <1>3 DEF Live
      <4> QED BY <4>1, <4>2, <2>6
    <3> QED BY <3>1 DEF SupersedesOpen
  <2> QED BY <2>6, <2>8, <2>9, <2>10, <2>11, <2>12 DEF Sound
<1> QED BY <1>4, <1>5

-----------------------------------------------------------------------------
(* A transfer that rewrites the past *)

\* Do the live rows of s, but for row n, end by the date from, and do they govern
\* what those of t governed until then?
Shortened(t, s, n, from, today) ==
  /\ \A i \in Live(s) \ {n} :
       /\ s[i].from \in Dates /\ s[i].to \in Dates
       /\ s[i].from < from /\ s[i].from <= s[i].to /\ s[i].to <= from
       /\ s[i].from = s[i].to => s[i].from <= today
       /\ \E k \in Live(t) : t[k].from = s[i].from
  /\ \A i, j \in Live(s) \ {n} : i = j \/ Before(s[i], s[j]) \/ Before(s[j], s[i])
  /\ \A day \in Dates : \A k \in Live(t) :
       day < from /\ Governs(t[k], day) => \E i \in Live(s) \ {n} : Governs(s[i], day)

\* Such rows, and one that starts on the date, are in a line without a gap.
LEMMA Continued ==
  ASSUME NEW t, NEW today \in Int, Sound(t, today), NEW from \in Dates,
         NEW s, NEW n \in Live(s), s[n].from = from, s[n].to = NoDate,
         Shortened(t, s, n, from, today)
  PROVE  InLine(s) /\ NoGap(s) /\ EmptyHaveBegun(s, today)
<1>1. \A i \in Live(s) \ {n} :
        /\ s[i].from \in Nat /\ s[i].to \in Nat /\ s[i].from < from
        /\ s[i].from <= s[i].to /\ s[i].to <= from
        /\ s[i].from = s[i].to => s[i].from <= today
        /\ \E k \in Live(t) : t[k].from = s[i].from
  BY DEF Shortened, Dates
<1>2. InLine(s)
  <2>1. \A i \in Live(s) \ {n} : Before(s[i], s[n])
    BY <1>1 DEF Before, NoDate
  <2>2. \A i, j \in Live(s) \ {n} : i = j \/ Before(s[i], s[j]) \/ Before(s[j], s[i])
    BY DEF Shortened
  <2> QED BY <1>1, <2>1, <2>2 DEF InLine
<1>3. NoGap(s)
  <2>1. n \in Open(s)
    BY DEF Open
  <2>2. ASSUME NEW i \in Live(s), NEW day \in Dates, s[i].from <= day
        PROVE  \E k \in Live(s) : Governs(s[k], day)
    <3>1. CASE from <= day
      BY <3>1 DEF Governs
    <3>2. CASE day < from
      <4>1. i \in Live(s) \ {n}
        BY <3>2, <2>2 DEF Dates
      <4>2. PICK k \in Live(t) : t[k].from = s[i].from
        BY <4>1, <1>1
      <4>3. PICK m \in Live(t) : Governs(t[m], day)
        BY <4>2, <2>2 DEF Sound, NoGap
      <4> QED BY <4>3, <3>2 DEF Shortened
    <3> QED BY <3>1, <3>2 DEF Dates
  <2> QED BY <2>1, <2>2 DEF NoGap
<1>4. EmptyHaveBegun(s, today)
  BY <1>1 DEF EmptyHaveBegun, Dates, NoDate
<1> QED BY <1>2, <1>3, <1>4

LEMMA LiveRows ==
  ASSUME NEW t, NEW today \in Int, Sound(t, today)
  PROVE  \A i \in Live(t) :
           /\ i \in DOMAIN t /\ i # NoRow /\ t[i].by = NoRow
           /\ t[i].from \in Nat /\ t[i].to \in Nat \cup {NoDate}
           /\ t[i].to = NoDate \/ t[i].from <= t[i].to
           /\ i \in Open(t) <=> t[i].to = NoDate
  BY DEF Sound, Table, IsRow, Live, Open, Dates, RowIds, InLine

\* One row straddles a date at most, and when it is open nothing starts later.
LEMMA OneStraddles ==
  ASSUME NEW t, NEW today \in Int, Sound(t, today), NEW from \in Dates
  PROVE  /\ \A i, j \in Straddling(t, from) : i = j
         /\ \A i \in Closing(t, from) : Replaced(t, from) = {}
<1>1. \A i \in Straddling(t, from) :
        i \in Live(t) /\ t[i].from < from /\ (t[i].to = NoDate \/ t[i].to > from)
  BY LiveRows DEF Straddling, Later, Dates
<1>2. \A i, j \in Straddling(t, from) : ~Before(t[i], t[j])
  BY <1>1, LiveRows DEF Before, Dates, NoDate
<1>3. \A i, j \in Straddling(t, from) : i = j
  BY <1>1, <1>2 DEF Sound, InLine
<1>4. ASSUME NEW i \in Closing(t, from)
      PROVE  Replaced(t, from) = {}
  <2>1. i \in Live(t) /\ t[i].to = NoDate /\ t[i].from < from /\ t[i].from \in Nat
    BY <1>1, LiveRows DEF Open, Closing
  <2>2. ASSUME NEW j \in Later(t, from) PROVE FALSE
    <3>1. j \in Live(t) /\ t[j].from >= from
      BY DEF Later
    <3>2. j # i /\ t[j].from \in Nat /\ t[j].to \in Nat \cup {NoDate}
      BY <2>1, <3>1, LiveRows DEF Dates
    <3>3. Before(t[j], t[i])
      BY <2>1, <3>1, <3>2 DEF Sound, InLine, Before
    <3> QED BY <2>1, <3>1, <3>2, <3>3, LiveRows DEF Before, Dates, NoDate
  <2>3. Straddling(t, from) = Closing(t, from)
    BY <1>3 DEF Closing
  <2> QED BY <2>2, <2>3 DEF Replaced
<1> QED BY <1>3, <1>4

\* Is s the timeline t with a row n that starts at the date, what that supersedes
\* marked and what it cuts short closed?
Cut(t, from, n, s) ==
  /\ Table(s) /\ n \in RowIds /\ n \notin DOMAIN t
  /\ DOMAIN s = DOMAIN t \cup {n}
  /\ Live(s) = (Live(t) \ Replaced(t, from)) \cup {n}
  /\ s[n].from = from /\ s[n].to = NoDate /\ s[n].by = NoRow
  /\ \A i \in DOMAIN t :
       /\ s[i].from = t[i].from
       /\ s[i].to = IF i \in Closing(t, from) THEN from ELSE t[i].to
       /\ s[i].by = IF i \in Replaced(t, from) THEN n ELSE t[i].by

LEMMA MarkedIsCut ==
  ASSUME NEW t, Table(t), NEW p, NEW from \in Dates
  PROVE  Cut(t, from, NewRow(t),
             Superseded(Enrolled(ClosedAt(t, Closing(t, from), from), p, from, FALSE),
                        Replaced(t, from), NewRow(t)))
<1> DEFINE c == ClosedAt(t, Closing(t, from), from)
           r == [policy |-> p, from |-> from, to |-> NoDate, by |-> NoRow, auto |-> FALSE]
           n == NewRow(c)
           v == Inserted(c, r)
           w == Superseded(v, Replaced(t, from), n)
<1>1. /\ Table(c) /\ DOMAIN c = DOMAIN t /\ Live(c) = Live(t)
      /\ \A i \in DOMAIN t :
           /\ c[i].from = t[i].from /\ c[i].by = t[i].by
           /\ c[i].to = IF i \in Closing(t, from) THEN from ELSE t[i].to
  BY ClosedRows
<1>2. IsRow(r) /\ r.by = NoRow /\ r.from = from /\ r.to = NoDate
  BY EnrolledRow
<1>3. v = Enrolled(c, p, from, FALSE)
  BY DEF Enrolled
<1>4. n = NewRow(t)
  BY <1>1 DEF NewRow
<1> HIDE DEF c, r
<1>5. /\ Table(v) /\ n \notin DOMAIN t /\ n \in RowIds
      /\ DOMAIN v = DOMAIN t \cup {n} /\ v[n] = r
      /\ \A i \in DOMAIN t : v[i] = c[i]
      /\ Live(v) = Live(t) \cup {n}
  BY <1>1, <1>2, InsertedRow
<1> HIDE DEF n, v
<1>6. Replaced(t, from) \subseteq Live(t) /\ Live(t) \subseteq DOMAIN t
  BY DEF Replaced, Later, Straddling, Live
<1>7. DOMAIN w = DOMAIN v
  BY DEF Superseded
<1>8. ASSUME NEW i \in DOMAIN v
      PROVE  /\ IsRow(w[i]) /\ w[i].from = v[i].from /\ w[i].to = v[i].to
             /\ w[i].by = IF i \in Replaced(t, from) THEN n ELSE v[i].by
  <2>1. IsRow(v[i])
    BY <1>5 DEF Table
  <2>2. CASE i \in Replaced(t, from)
    BY <2>1, <2>2, Marked DEF Superseded
  <2>3. CASE i \notin Replaced(t, from)
    BY <2>1, <2>3 DEF Superseded
  <2> QED BY <2>2, <2>3
<1> HIDE DEF w
<1>9. Table(w)
  BY <1>5, <1>7, <1>8 DEF Table
<1>10. Live(w) = (Live(t) \ Replaced(t, from)) \cup {n}
  BY <1>1, <1>2, <1>5, <1>6, <1>7, <1>8 DEF Live, RowIds
<1>11. Cut(t, from, n, w)
  BY <1>1, <1>2, <1>5, <1>6, <1>7, <1>8, <1>9, <1>10 DEF Cut
<1> QED BY <1>3, <1>4, <1>11 DEF w, c

\* What is superseded keeps to the invariant: if anything is, the open row is.
LEMMA CutSupersedes ==
  ASSUME NEW t, NEW today \in Int, Sound(t, today), NEW from \in Dates, from <= today,
         NEW n, NEW s, Cut(t, from, n, s)
  PROVE  SupersedingHaveBegun(s, today) /\ SupersedesOpen(s)
<1>1. SupersedingHaveBegun(s, today)
  <2>1. ASSUME NEW i \in DOMAIN s, s[i].by # NoRow PROVE s[s[i].by].from <= today
    <3>1. CASE s[i].by = n
      BY <3>1 DEF Cut
    <3>2. CASE s[i].by # n
      BY <2>1, <3>2 DEF Cut, Sound, Table, SupersedingHaveBegun
    <3> QED BY <3>1, <3>2
  <2> QED BY <2>1 DEF SupersedingHaveBegun
<1>2. SupersedesOpen(s)
  <2>1. ASSUME NEW i \in DOMAIN s, s[i].by \in Live(s)
        PROVE  \E j \in DOMAIN s : s[j].by = s[i].by /\ s[j].to = NoDate
    <3>1. CASE s[i].by = n
      <4>1. i \in Replaced(t, from)
        BY <3>1 DEF Cut, Sound, Table, RowIds
      <4>2. PICK o \in Open(t) : TRUE
        BY <4>1 DEF Sound, NoGap, Replaced, Later, Straddling
      <4>3. o \in Live(t) /\ t[o].to = NoDate /\ o \in DOMAIN t /\ t[o].from \in Nat
        BY LiveRows DEF Open
      <4>4. o \notin Closing(t, from)
        BY <4>1, OneStraddles
      <4>5. o \in Replaced(t, from)
        BY <4>3, <4>4 DEF Closing, Straddling, Replaced
      <4> QED BY <3>1, <4>3, <4>4, <4>5 DEF Cut
    <3>2. CASE s[i].by # n
      <4>1. i \in DOMAIN t /\ t[i].by = s[i].by /\ t[i].by \in Live(t)
        <5>1. NoRow \notin Live(s)
          BY DEF Cut, Table, Live, RowIds
        <5>2. i \in DOMAIN t
          BY <2>1, <5>1 DEF Cut
        <5>3. t[i].by = s[i].by
          BY <3>2, <5>2 DEF Cut
        <5> QED BY <2>1, <3>2, <5>2, <5>3 DEF Cut
      <4>2. PICK j \in DOMAIN t : t[j].by = t[i].by /\ t[j].to = NoDate
        BY <4>1 DEF Sound, SupersedesOpen
      <4>3. j \notin Live(t)
        BY <4>1, <4>2, LiveRows
      <4>4. j \notin Replaced(t, from) /\ j \notin Closing(t, from)
        BY <4>3 DEF Replaced, Closing, Straddling, Later
      <4> QED BY <4>1, <4>2, <4>4 DEF Cut
    <3> QED BY <3>1, <3>2
  <2> QED BY <2>1 DEF SupersedesOpen
<1> QED BY <1>1, <1>2

\* When nothing closed straddles the date, that is all.
LEMMA CutIsSound ==
  ASSUME NEW t, NEW today \in Int, Sound(t, today), NEW from \in Dates, from <= today,
         NEW n, NEW s, Cut(t, from, n, s),
         Straddling(t, from) = Closing(t, from)
  PROVE  Sound(s, today)
<1>1. n \in Live(s) /\ s[n].from = from /\ s[n].to = NoDate
  BY DEF Cut
<1>2. \A i \in Live(s) \ {n} :
        /\ i \in Live(t) /\ t[i].from < from /\ s[i].from = t[i].from
        /\ s[i].to = IF i \in Closing(t, from) THEN from ELSE t[i].to
        /\ i \notin Closing(t, from) => t[i].to # NoDate /\ t[i].to <= from
  <2>1. ASSUME NEW i \in Live(s) \ {n}
        PROVE  /\ i \in Live(t) /\ t[i].from < from
               /\ i \notin Closing(t, from) => t[i].to # NoDate /\ t[i].to <= from
    <3>1. i \in Live(t) /\ i \notin Later(t, from)
      BY DEF Cut, Replaced
    <3>2. t[i].from \in Nat /\ t[i].to \in Nat \cup {NoDate}
      BY <3>1, LiveRows
    <3> QED BY <3>1, <3>2 DEF Later, Straddling, Dates, NoDate
  <2>2. \A i \in Live(s) \ {n} : i \in DOMAIN t
    BY <2>1, LiveRows
  <2> QED BY <2>1, <2>2 DEF Cut
<1>3. \A i \in Live(t) :
        t[i].from \in Nat /\ t[i].to \in Nat \cup {NoDate} /\ (t[i].to = NoDate \/ t[i].from <= t[i].to)
  BY LiveRows
<1>4. \A i \in Closing(t, from) : i \in Live(t) /\ t[i].to = NoDate
  BY DEF Closing, Open
<1>5. Shortened(t, s, n, from, today)
  <2>1. ASSUME NEW i \in Live(s) \ {n}
        PROVE  /\ s[i].from \in Dates /\ s[i].to \in Dates
               /\ s[i].from < from /\ s[i].from <= s[i].to /\ s[i].to <= from
               /\ s[i].from = s[i].to => s[i].from <= today
               /\ \E k \in Live(t) : t[k].from = s[i].from
    BY <1>2, <1>3 DEF Dates, NoDate
  <2>2. ASSUME NEW i \in Live(s) \ {n}, NEW j \in Live(s) \ {n}, i # j
        PROVE  Before(s[i], s[j]) \/ Before(s[j], s[i])
    <3>1. Before(t[i], t[j]) \/ Before(t[j], t[i])
      BY <2>2, <1>2 DEF Sound, InLine
    <3> QED BY <3>1, <1>2, <1>4 DEF Before
  <2>3. ASSUME NEW day \in Dates, NEW k \in Live(t), day < from, Governs(t[k], day)
        PROVE  \E i \in Live(s) \ {n} : Governs(s[i], day)
    <3>1. t[k].from < from
      BY <2>3, <1>3 DEF Governs, Dates
    <3>2. k \notin Replaced(t, from)
      BY <3>1, <1>3 DEF Replaced, Later, Dates
    <3>3. k \in Live(s) \ {n}
      BY <3>2, LiveRows DEF Cut
    <3> QED BY <3>3, <2>3, <1>2 DEF Governs
  <2> QED BY <2>1, <2>2, <2>3 DEF Shortened
<1>6. InLine(s) /\ NoGap(s) /\ EmptyHaveBegun(s, today)
  BY <1>1, <1>5, Continued
<1>7. Table(s)
  BY DEF Cut
<1> QED BY <1>6, <1>7, CutSupersedes DEF Sound

\* When something closed does, a copy of it comes in its place.
LEMMA CutAndCopiedIsSound ==
  ASSUME NEW t, NEW today \in Int, Sound(t, today), NEW from \in Dates, from <= today,
         NEW n, NEW c, Cut(t, from, n, c),
         NEW o \in Straddling(t, from), o \notin Closing(t, from)
  PROVE  Sound(Inserted(c, [t[o] EXCEPT !.to = from]), today)
<1> DEFINE r == [t[o] EXCEPT !.to = from]
           m == NewRow(c)
           s == Inserted(c, r)
<1>1. /\ o \in Live(t) /\ t[o].to # NoDate /\ t[o].from < from /\ t[o].to > from
      /\ t[o].from \in Nat /\ t[o].to \in Nat
  BY LiveRows DEF Closing, Straddling, Later, Dates
<1>2. IsRow(r) /\ r.by = NoRow /\ r.from = t[o].from /\ r.to = from
  <2>1. IsRow(t[o]) /\ t[o].by = NoRow
    BY <1>1, LiveRows DEF Sound, Table
  <2> QED BY <2>1, Moved
<1> HIDE DEF r
<1>3. /\ Table(s) /\ m \notin DOMAIN c /\ m \in RowIds
      /\ DOMAIN s = DOMAIN c \cup {m} /\ s[m] = r
      /\ \A i \in DOMAIN c : s[i] = c[i]
      /\ Live(s) = Live(c) \cup {m}
  <2>1. Table(c)
    BY DEF Cut
  <2> QED BY <2>1, <1>2, InsertedRow
<1> HIDE DEF m, s
<1>4. Straddling(t, from) = {o} /\ Closing(t, from) = {}
  BY OneStraddles DEF Closing
<1>5. \A i \in Live(t) :
        t[i].from \in Nat /\ t[i].to \in Nat \cup {NoDate} /\ (t[i].to = NoDate \/ t[i].from <= t[i].to)
  BY LiveRows
<1>6. /\ n \in Live(s) /\ s[n].from = from /\ s[n].to = NoDate /\ m # n /\ n \in DOMAIN c
      /\ s[n].by = NoRow
  BY <1>3 DEF Cut
<1>7. Live(s) \ {n} = (Live(t) \ Replaced(t, from)) \cup {m}
  <2>1. n \notin Live(t)
    BY DEF Cut, Live
  <2> QED BY <2>1, <1>3, <1>6 DEF Cut
<1>8. \A i \in Live(t) \ Replaced(t, from) :
        /\ s[i].from = t[i].from /\ s[i].to = t[i].to
        /\ t[i].from < from /\ t[i].to # NoDate /\ t[i].to <= from /\ i # o
  <2>1. ASSUME NEW i \in Live(t) \ Replaced(t, from)
        PROVE  t[i].from < from /\ t[i].to # NoDate /\ t[i].to <= from /\ i # o
    <3>1. i \notin Later(t, from) /\ i \notin Straddling(t, from)
      BY <1>4 DEF Replaced
    <3> QED BY <3>1, <1>5 DEF Later, Straddling, Dates, NoDate
  <2>2. \A i \in Live(t) \ Replaced(t, from) : i \in DOMAIN t /\ i \in DOMAIN c /\ s[i] = c[i]
    BY <1>3, LiveRows DEF Cut
  <2> QED BY <2>1, <2>2, <1>4 DEF Cut
<1>9. s[m].from = t[o].from /\ s[m].to = from
  BY <1>2, <1>3
<1>10. Shortened(t, s, n, from, today)
  <2>1. ASSUME NEW i \in Live(s) \ {n}
        PROVE  /\ s[i].from \in Dates /\ s[i].to \in Dates
               /\ s[i].from < from /\ s[i].from <= s[i].to /\ s[i].to <= from
               /\ s[i].from = s[i].to => s[i].from <= today
               /\ \E k \in Live(t) : t[k].from = s[i].from
    BY <1>1, <1>5, <1>7, <1>8, <1>9 DEF Dates, NoDate
  <2>2. ASSUME NEW i \in Live(t) \ Replaced(t, from) PROVE Before(s[i], s[m])
    <3>1. Before(t[i], t[o]) \/ Before(t[o], t[i])
      BY <1>1, <1>8 DEF Sound, InLine
    <3>2. ~Before(t[o], t[i])
      BY <1>1, <1>5, <1>8 DEF Before, Dates, NoDate
    <3> QED BY <3>1, <3>2, <1>8, <1>9 DEF Before
  <2>3. ASSUME NEW i \in Live(t) \ Replaced(t, from), NEW j \in Live(t) \ Replaced(t, from)
        PROVE  i = j \/ Before(s[i], s[j]) \/ Before(s[j], s[i])
    BY <1>8 DEF Sound, InLine, Before
  <2>4. ASSUME NEW day \in Dates, NEW k \in Live(t), day < from, Governs(t[k], day)
        PROVE  \E i \in Live(s) \ {n} : Governs(s[i], day)
    <3>1. CASE k = o
      BY <3>1, <2>4, <1>7, <1>9 DEF Governs
    <3>2. CASE k # o
      <4>1. t[k].from < from
        BY <2>4, <1>5 DEF Governs, Dates
      <4>2. k \notin Replaced(t, from)
        BY <3>2, <4>1, <1>4, <1>5 DEF Replaced, Later, Dates
      <4> QED BY <4>2, <2>4, <1>7, <1>8 DEF Governs
    <3> QED BY <3>1, <3>2
  <2> QED BY <2>1, <2>2, <2>3, <2>4, <1>7 DEF Shortened
<1>11. InLine(s) /\ NoGap(s) /\ EmptyHaveBegun(s, today)
  BY <1>6, <1>10, Continued
<1>12. SupersedingHaveBegun(c, today) /\ SupersedesOpen(c) /\ Table(c)
  BY CutSupersedes DEF Cut
<1>13. \A i \in DOMAIN c : s[i] = c[i] /\ c[i].by \in DOMAIN c \cup {NoRow} /\ c[i].by # m
  BY <1>3, <1>12 DEF Table, RowIds
<1>14. s[m].by = NoRow /\ NoRow \notin DOMAIN s
  BY <1>2, <1>3 DEF Table, RowIds
<1>15. SupersedingHaveBegun(s, today)
  BY <1>3, <1>12, <1>13, <1>14 DEF SupersedingHaveBegun
<1>16. SupersedesOpen(s)
  BY <1>3, <1>12, <1>13, <1>14 DEF SupersedesOpen, Live
<1>17. Sound(s, today)
  BY <1>3, <1>11, <1>15, <1>16 DEF Sound
<1> QED BY <1>17 DEF s, r

LEMMA RewrittenIsSound ==
  ASSUME NEW t, NEW today \in Int, Sound(t, today),
         NEW p, NEW from \in Dates, from <= today
  PROVE  Sound(Rewritten(t, p, from), today)
<1> DEFINE n == NewRow(t)
           c == Superseded(Enrolled(ClosedAt(t, Closing(t, from), from), p, from, FALSE),
                           Replaced(t, from), n)
           o == CHOOSE i \in Straddling(t, from) : TRUE
<1>1. Cut(t, from, n, c)
  BY MarkedIsCut DEF Sound
<1>2. Rewritten(t, p, from) =
        IF Straddling(t, from) = Closing(t, from) THEN c ELSE Inserted(c, [t[o] EXCEPT !.to = from])
  BY DEF Rewritten
<1> HIDE DEF n, c
<1>3. CASE Straddling(t, from) = Closing(t, from)
  BY <1>1, <1>2, <1>3, CutIsSound
<1>4. CASE Straddling(t, from) # Closing(t, from)
  <2>1. Closing(t, from) \subseteq Straddling(t, from)
    BY DEF Closing
  <2>2. o \in Straddling(t, from)
    BY <1>4, <2>1
  <2>3. o \notin Closing(t, from)
    BY <1>4, <2>1, <2>2, OneStraddles
  <2> HIDE DEF o
  <2>4. Sound(Inserted(c, [t[o] EXCEPT !.to = from]), today)
    BY <1>1, <2>2, <2>3, CutAndCopiedIsSound
  <2> QED BY <1>2, <1>4, <2>4
<1> QED BY <1>3, <1>4

-----------------------------------------------------------------------------
(* Enrolment and import *)

\* A row beside none that is live
LEMMA FirstRowIsSound ==
  ASSUME NEW q, Table(q), Live(q) = {}, NEW today \in Int, SupersedingHaveBegun(q, today),
         NEW p, NEW from \in Dates, NEW auto
  PROVE  Sound(Enrolled(q, p, from, auto), today)
<1> DEFINE r == [policy |-> p, from |-> from, to |-> NoDate, by |-> NoRow, auto |-> auto]
           n == NewRow(q)
           s == Inserted(q, r)
<1>1. IsRow(r) /\ r.by = NoRow /\ r.from = from /\ r.to = NoDate
  BY EnrolledRow
<1>2. s = Enrolled(q, p, from, auto)
  BY DEF Enrolled
<1> HIDE DEF r
<1>3. /\ Table(s) /\ n \notin DOMAIN q /\ n \in RowIds
      /\ DOMAIN s = DOMAIN q \cup {n} /\ s[n] = r
      /\ \A i \in DOMAIN q : s[i] = q[i]
      /\ Live(s) = Live(q) \cup {n}
  BY <1>1, InsertedRow
<1> HIDE DEF n, s
<1>4. Live(s) = {n} /\ s[n].from = from /\ s[n].to = NoDate /\ s[n].by = NoRow
  BY <1>1, <1>3
<1>5. \A i \in DOMAIN q : q[i].by \in DOMAIN q \cup {NoRow}
  BY DEF Table
<1>6. InLine(s) /\ NoGap(s) /\ EmptyHaveBegun(s, today)
  BY <1>4 DEF InLine, NoGap, EmptyHaveBegun, Open, Governs, Dates, NoDate
<1>7. SupersedingHaveBegun(s, today)
  BY <1>3, <1>4, <1>5 DEF SupersedingHaveBegun
<1>8. SupersedesOpen(s)
  BY <1>3, <1>4, <1>5 DEF SupersedesOpen, RowIds
<1> QED BY <1>2, <1>3, <1>6, <1>7, <1>8 DEF Sound

\* The unique index lets an import pass only when it revives nothing.
LEMMA NothingRevives ==
  ASSUME NEW t, Table(t), SupersedesOpen(t), NEW p, NEW from \in Dates,
         OneOpenRow(Enrolled(Removed(t, Live(t)), p, from, FALSE))
  PROVE  Live(Removed(t, Live(t))) = {}
<1> DEFINE L == Live(t)
           q == Removed(t, L)
           r == [policy |-> p, from |-> from, to |-> NoDate, by |-> NoRow, auto |-> FALSE]
           n == NewRow(q)
           s == Inserted(q, r)
<1>1. /\ Table(q) /\ DOMAIN q = DOMAIN t \ L
      /\ \A i \in DOMAIN t \ L :
           /\ q[i].from = t[i].from /\ q[i].to = t[i].to
           /\ q[i].by = IF t[i].by \in L THEN NoRow ELSE t[i].by
  <2>1. Table(t) /\ L \subseteq DOMAIN t
    BY DEF Live
  <2> HIDE DEF L
  <2> QED BY <2>1, RemovedRows
<1>2. IsRow(r) /\ r.by = NoRow /\ r.from = from /\ r.to = NoDate
  BY EnrolledRow
<1>3. s = Enrolled(q, p, from, FALSE)
  BY DEF Enrolled
<1> HIDE DEF q, r
<1>4. /\ Table(s) /\ n \notin DOMAIN q /\ n \in RowIds
      /\ DOMAIN s = DOMAIN q \cup {n} /\ s[n] = r
      /\ \A i \in DOMAIN q : s[i] = q[i]
      /\ Live(s) = Live(q) \cup {n}
  <2>1. Table(q)
    BY <1>1
  <2> QED BY <2>1, <1>2, InsertedRow
<1> HIDE DEF n, s
<1>5. \A i \in DOMAIN t \ L : t[i].by \in DOMAIN t /\ t[i].by # NoRow
  BY DEF Live, Table
<1>6. SUFFICES ASSUME NEW i \in Live(q) PROVE FALSE
  BY DEF q
<1>7. i \in DOMAIN t \ L /\ t[i].by \in L
  BY <1>1, <1>5 DEF Live
<1>8. PICK j \in DOMAIN t : t[j].by = t[i].by /\ t[j].to = NoDate
  BY <1>7 DEF SupersedesOpen
<1>9. j \in DOMAIN t \ L
  BY <1>7, <1>8, <1>5 DEF Live
<1>10. j \in DOMAIN q /\ q[j].by = NoRow /\ q[j].to = NoDate
  BY <1>7, <1>8, <1>9, <1>1
<1>11. j \in Open(s) /\ n \in Open(s) /\ j # n
  BY <1>10, <1>2, <1>4 DEF Open, Live
<1>12. IsFiniteSet(Open(s))
  <2>1. IsFiniteSet(DOMAIN s) /\ Open(s) \subseteq DOMAIN s
    BY <1>4 DEF Table, Open, Live
  <2> QED BY <2>1, FS_Subset
<1>13. Cardinality(Open(s)) <= 1
  BY <1>3 DEF OneOpenRow, q
<1> QED BY <1>11, <1>12, <1>13, AtMostOne

LEMMA ReplacementIsSound ==
  ASSUME NEW t, NEW today \in Int, Sound(t, today), NEW p, NEW from \in Dates,
         OneOpenRow(Enrolled(Removed(t, Live(t)), p, from, FALSE))
  PROVE  Sound(Enrolled(Removed(t, Live(t)), p, from, FALSE), today)
<1> DEFINE L == Live(t)
           q == Removed(t, L)
<1>1. Table(t) /\ L \subseteq DOMAIN t /\ SupersedesOpen(t)
  BY DEF Sound, Live
<1>2. Live(q) = {}
  BY <1>1, NothingRevives
<1>3. /\ Table(q) /\ DOMAIN q = DOMAIN t \ L
      /\ \A i \in DOMAIN t \ L :
           /\ q[i].from = t[i].from /\ q[i].to = t[i].to
           /\ q[i].by = IF t[i].by \in L THEN NoRow ELSE t[i].by
  <2> HIDE DEF L
  <2> QED BY <1>1, RemovedRows
<1> HIDE DEF q
<1>4. \A i \in DOMAIN t \ L : t[i].by \in DOMAIN t /\ t[i].by # NoRow
  BY <1>1 DEF Live, Table
<1>5. SupersedingHaveBegun(q, today)
  BY <1>3, <1>4 DEF Sound, SupersedingHaveBegun
<1>6. Sound(Enrolled(q, p, from, FALSE), today)
  BY <1>2, <1>3, <1>5, FirstRowIsSound
<1> QED BY <1>6 DEF q

LEMMA LaterIsSound ==
  ASSUME NEW t, NEW today \in Int, NEW later \in Int, today <= later, Sound(t, today)
  PROVE  Sound(t, later)
<1>1. EmptyHaveBegun(t, later)
  BY LiveRows DEF Sound, EmptyHaveBegun
<1>2. SupersedingHaveBegun(t, later)
  <2>1. \A i \in DOMAIN t : t[i].by # NoRow => t[t[i].by].from \in Nat
    BY DEF Sound, Table, IsRow, Dates
  <2> QED BY <2>1 DEF Sound, SupersedingHaveBegun
<1> QED BY <1>1, <1>2 DEF Sound

-----------------------------------------------------------------------------
(* The specification *)

LEMMA Days ==
  ASSUME Inv, NEW u \in Users
  PROVE  /\ now \in Nat /\ Today(u) \in Int /\ EarliestTransfer(u) \in Nat
         /\ u \in DOMAIN rows /\ Sound(rows[u], Today(u))
<1>1. now \in Nat /\ now \in FirstDay..LastDay /\ Lead[u] \in {-1, 0, 1}
  BY CatalogueAssumption DEF Inv
<1>2. Today(u) \in Calendar
  BY <1>1, CatalogueAssumption DEF Today, Calendar
<1>3. Today(u) \in Int
  BY <1>1 DEF Today
<1>4. NewYear[Today(u)] \in Nat
  BY <1>2, CatalogueAssumption
<1>5. hired[u] \in Nat \cup {NoDate, NoAccount}
  BY DEF Inv
<1>6. EarliestTransfer(u) \in Nat
  BY <1>4, <1>5 DEF EarliestTransfer, NoDate, NoAccount
<1> QED BY <1>1, <1>3, <1>6 DEF Inv

\* A step that gives one account another timeline keeps the invariant if that
\* is sound.
LEMMA OneAccountMoves ==
  ASSUME Inv, NEW u \in Accounts, NEW t, Sound(t, Today(u)),
         EditMemberships(u, t),
         NEW hire \in Nat, hired' = hired \/ hired' = [hired EXCEPT ![u] = hire]
  PROVE  Inv'
<1>1. u \in Users /\ joining' = joining /\ now' = now /\ rows' = [rows EXCEPT ![u] = t]
  BY DEF EditMemberships, Accounts
<1>2. hired' \in [Users -> Nat \cup {NoDate, NoAccount}] /\ Accounts' = Accounts
  BY <1>1 DEF Inv, Accounts, NoAccount
<1>3. ASSUME NEW w \in Users
      PROVE  /\ Sound(rows[w], Today(w))'
             /\ w \notin Accounts' => DOMAIN rows'[w] = {}
             /\ joining'[w] # NoPolicy => w \notin Accounts'
  <2>1. Today(w)' = Today(w) /\ joining'[w] = joining[w]
    BY <1>1 DEF Today
  <2>2. rows'[w] = IF w = u THEN t ELSE rows[w]
    BY <1>1 DEF Inv
  <2>3. Sound(rows'[w], Today(w))
    BY <2>2, <1>1 DEF Inv
  <2> QED BY <2>1, <2>2, <2>3, <1>2 DEF Inv
<1> QED BY <1>1, <1>2, <1>3 DEF Inv

LEMMA TransferKeeps ==
  ASSUME Inv, NEW u \in Users, NEW p, NEW date \in Nat,
         NEW mode \in {"plain", "prospective", "retroactive"}, Transfer(u, p, date, mode)
  PROVE  Inv'
<1> DEFINE t == rows[u]
           early == EarliestTransfer(u)
<1>1. Today(u) \in Int /\ early \in Nat /\ Sound(t, Today(u))
  BY Days
<1>2. /\ u \in Accounts /\ hired' = hired /\ Scheduled(u) = {} /\ date >= early
      /\ mode = "plain" <=> date >= Today(u)
      /\ mode = "prospective" => \A i \in Open(t) : date > t[i].from
      /\ EditMemberships(u, IF mode = "retroactive" THEN Rewritten(t, p, early)
                                                     ELSE Appended(t, p, date))
  BY DEF Transfer
<1> HIDE DEF early
<1>3. CASE mode = "retroactive"
  <2>1. early <= Today(u)
    BY <1>1, <1>2, <1>3
  <2>2. Sound(Rewritten(t, p, early), Today(u))
    BY <1>1, <2>1, RewrittenIsSound DEF Dates
  <2> QED BY <1>2, <1>3, <2>2, OneAccountMoves
<1>4. CASE mode # "retroactive"
  <2>1. \A i \in Open(t) : t[i].from < date \/ (t[i].from = date /\ date <= Today(u))
    <3>1. \A i \in Open(t) : t[i].from \in Nat
      BY <1>1, LiveRows DEF Open
    <3>2. \A i \in Open(t) : t[i].from <= Today(u)
      BY <1>1, <1>2, <3>1 DEF Scheduled
    <3> QED BY <1>1, <1>2, <1>4, <3>1, <3>2
  <2>2. Sound(Appended(t, p, date), Today(u))
    BY <1>1, <2>1, AppendedIsSound DEF Dates
  <2> QED BY <1>2, <1>4, <2>2, OneAccountMoves
<1> QED BY <1>3, <1>4

LEMMA CancelKeeps ==
  ASSUME Inv, NEW u \in Users, CancelTransfer(u)
  PROVE  Inv'
<1> DEFINE t == rows[u]
<1>1. Today(u) \in Int /\ Sound(t, Today(u))
  BY Days
<1>2. u \in Accounts /\ hired' = hired
  BY DEF CancelTransfer
<1>3. PICK i \in Scheduled(u) :
        LET rest   == Removed(t, {i})
            ending == {j \in Live(t) \ {i} : t[j].to = t[i].from}
        IN  IF ending = {} THEN EditMemberships(u, rest)
            ELSE \E j \in Earliest(rest, ending) :
                   EditMemberships(u, [rest EXCEPT ![j].to = NoDate])
  BY DEF CancelTransfer
<1>4. i \in Open(t) /\ t[i].from > Today(u)
  BY DEF Scheduled
<1>5. PICK s :
        /\ EditMemberships(u, s)
        /\ \/ /\ ~\E j \in Live(t) \ {i} : t[j].to = t[i].from
              /\ s = Removed(t, {i})
           \/ \E j \in Live(t) \ {i} :
                /\ t[j].to = t[i].from
                /\ s = [Removed(t, {i}) EXCEPT ![j].to = NoDate]
  BY <1>3 DEF Earliest
<1>6. Sound(s, Today(u))
  BY <1>1, <1>4, <1>5, CancelledIsSound
<1> QED BY <1>2, <1>5, <1>6, OneAccountMoves

LEMMA ImportKeeps ==
  ASSUME Inv, NEW u \in Users, NEW row \in Imports, NEW chosen, NEW mode,
         ImportEmployee(u, row, chosen, mode)
  PROVE  Inv'
<1>1. row.hire \in Nat
  BY CatalogueAssumption DEF FileRows
<1>2. Today(u) \in Int /\ Sound(rows[u], Today(u))
  BY Days
<1>3. u \in Accounts
  BY DEF ImportEmployee
<1>4. PICK p : /\ hired' = [hired EXCEPT ![u] = row.hire]
               /\ OneOpenRow(Assigned(rows[u], p, row.hire, mode))
               /\ EditMemberships(u, Assigned(rows[u], p, row.hire, mode))
  BY DEF ImportEmployee
<1>5. Sound(Assigned(rows[u], p, row.hire, mode), Today(u))
  BY <1>1, <1>2, <1>4, ReplacementIsSound DEF Assigned, Dates
<1> QED BY <1>1, <1>3, <1>4, <1>5, OneAccountMoves

LEMMA ProvisionKeeps ==
  ASSUME Inv, NEW u \in Users, NEW hire \in Hires \cup {NoDate}, Provision(u, hire)
  PROVE  Inv'
<1>1. /\ now \in Dates /\ Today(u) \in Int /\ u \in DOMAIN rows
      /\ u \notin Accounts /\ now' = now
      /\ joining' = [joining EXCEPT ![u] = NoPolicy]
  BY Days DEF Provision, Inv, Dates
<1>2. hire \in Nat \cup {NoDate} /\ hire # NoAccount
  BY CatalogueAssumption DEF NoDate, NoAccount
<1>3. CASE joining[u] \in DOMAIN policies
  <2>1. /\ hired' = [hired EXCEPT ![u] = hire]
        /\ rows' = [rows EXCEPT ![u] = Enrolled(rows[u], joining[u], now, TRUE)]
    BY <1>3 DEF Provision
  <2>2. Sound(Enrolled(rows[u], joining[u], now, TRUE), Today(u))
    <3>1. Table(rows[u]) /\ Live(rows[u]) = {} /\ SupersedingHaveBegun(rows[u], Today(u))
      BY <1>1 DEF Inv, Sound, Live
    <3> QED BY <3>1, <1>1, FirstRowIsSound
  <2>3. hired' \in [Users -> Nat \cup {NoDate, NoAccount}] /\ Accounts' = Accounts \cup {u}
    BY <2>1, <1>2 DEF Inv, Accounts
  <2>4. ASSUME NEW w \in Users
        PROVE  /\ Sound(rows[w], Today(w))'
               /\ w \notin Accounts' => DOMAIN rows'[w] = {}
               /\ joining'[w] # NoPolicy => w \notin Accounts'
    <3>1. Today(w)' = Today(w) /\ joining'[w] = IF w = u THEN NoPolicy ELSE joining[w]
      BY <1>1 DEF Today, Inv
    <3>2. rows'[w] = IF w = u THEN Enrolled(rows[u], joining[u], now, TRUE) ELSE rows[w]
      BY <2>1 DEF Inv
    <3>3. Sound(rows'[w], Today(w))
      BY <3>2, <2>2 DEF Inv
    <3> QED BY <3>1, <3>2, <3>3, <2>3 DEF Inv
  <2> QED BY <1>1, <2>1, <2>3, <2>4 DEF Inv
<1>4. CASE joining[u] \notin DOMAIN policies
  <2>1. hired' = hired /\ rows' = rows
    BY <1>4 DEF Provision
  <2> QED BY <1>1, <2>1 DEF Inv, Today, Accounts
<1> QED BY <1>3, <1>4

LEMMA InitialInv == Init => Inv
<1> SUFFICES ASSUME Init PROVE Inv
  OBVIOUS
<1>1. /\ rows = [u \in Users |-> <<>>] /\ hired = [u \in Users |-> NoAccount]
      /\ joining = [u \in Users |-> NoPolicy] /\ now = FirstDay
  BY DEF Init
<1>2. IsFiniteSet({})
  BY FS_EmptySet
<1>3. \A today : Sound(<<>>, today)
  BY <1>2 DEF Sound, Table, InLine, NoGap, EmptyHaveBegun, SupersedingHaveBegun,
              SupersedesOpen, Live
<1> QED BY <1>1, <1>3, CatalogueAssumption DEF Inv, Accounts

\* The memberships, the accounts and the day stay
LEMMA OthersKeep ==
  ASSUME Inv, rows' = rows, joining' = joining, now' = now,
         hired' \in [Users -> Nat \cup {NoDate, NoAccount}], Accounts' = Accounts
  PROVE  Inv'
  BY DEF Inv, Today

LEMMA InvIsInductive == Inv /\ [Next]_vars => Inv'
<1> SUFFICES ASSUME Inv, [Next]_vars PROVE Inv'
  OBVIOUS
<1>1. CASE Tick
  <2>1. /\ rows' = rows /\ joining' = joining /\ hired' = hired
        /\ now \in FirstDay..LastDay /\ now < LastDay /\ now' = now + 1
    BY <1>1 DEF Tick, Inv
  <2>2. now' \in FirstDay..LastDay
    BY <2>1, CatalogueAssumption
  <2>3. ASSUME NEW u \in Users PROVE Sound(rows[u], Today(u)')
    <3>1. Today(u) \in Int /\ Sound(rows[u], Today(u))
      BY Days
    <3>2. Today(u)' \in Int /\ Today(u) <= Today(u)'
      <4>1. now \in Int /\ Lead[u] \in Int
        BY <2>1, CatalogueAssumption
      <4> QED BY <4>1, <2>1 DEF Today
    <3> QED BY <3>1, <3>2, LaterIsSound
  <2> QED BY <2>1, <2>2, <2>3 DEF Inv, Accounts
<1>2. ASSUME NEW p \in PolicyIds,
             \/ \E offer \in Offers : CreatePolicy(p, offer)
             \/ \E stem \in Typed : RenamePolicy(p, stem)
             \/ \E date \in FirstDay..(LastDay + 1) : RetirePolicy(p, date)
             \/ ReopenPolicy(p) \/ SetDefault(p) \/ DeletePolicy(p)
      PROVE  Inv'
  <2>1. rows' = rows /\ joining' = joining /\ hired' = hired /\ now' = now
    BY <1>2 DEF CreatePolicy, RenamePolicy, RetirePolicy, ReopenPolicy, SetDefault,
                DeletePolicy, EditCatalogue
  <2> QED BY <2>1, OthersKeep DEF Inv, Accounts
<1>3. ASSUME NEW u \in Users, ReadDefault(u) PROVE Inv'
  <2>1. /\ rows' = rows /\ hired' = hired /\ now' = now /\ u \notin Accounts
        /\ joining' = [joining EXCEPT ![u] = default]
    BY <1>3 DEF ReadDefault
  <2> QED BY <2>1 DEF Inv, Today, Accounts
<1>4. ASSUME NEW u \in Users, NEW hire \in Hires, SetStartDate(u, hire) PROVE Inv'
  <2>1. /\ rows' = rows /\ joining' = joining /\ now' = now /\ u \in Accounts
        /\ hired' = [hired EXCEPT ![u] = hire] /\ hire \in Nat
    BY <1>4, CatalogueAssumption DEF SetStartDate
  <2>2. hired' \in [Users -> Nat \cup {NoDate, NoAccount}] /\ Accounts' = Accounts
    BY <2>1 DEF Inv, Accounts, NoAccount
  <2> QED BY <2>1, <2>2, OthersKeep
<1>5. ASSUME NEW u \in Users, NEW p \in PolicyIds, NEW date \in 0..(LastDay + 2),
             NEW mode \in {"plain", "prospective", "retroactive"}, Transfer(u, p, date, mode)
      PROVE  Inv'
  <2>1. date \in Nat
    BY CatalogueAssumption
  <2> QED BY <1>5, <2>1, TransferKeeps
<1>6. CASE UNCHANGED vars
  <2>1. rows' = rows /\ joining' = joining /\ hired' = hired /\ now' = now
    BY <1>6 DEF vars
  <2> QED BY <2>1, OthersKeep DEF Inv, Accounts
<1> QED BY <1>1, <1>2, <1>3, <1>4, <1>5, <1>6, CancelKeeps, ImportKeeps, ProvisionKeeps DEF Next

LEMMA SoundIsOneTimeline == Inv => OneTimeline
<1> SUFFICES ASSUME Inv, NEW u \in Accounts, NEW i \in Live(rows[u]),
                    NEW day \in 0..(LastDay + 3), rows[u][i].from <= day
             PROVE  Cardinality({k \in Live(rows[u]) : Governs(rows[u][k], day)}) = 1
  BY DEF OneTimeline
<1> DEFINE t == rows[u]
           S == {k \in Live(t) : Governs(t[k], day)}
<1>1. u \in Users /\ day \in Nat
  BY CatalogueAssumption DEF Accounts
<1>2. Sound(t, Today(u)) /\ Today(u) \in Int
  BY <1>1, Days
<1>3. PICK k \in Live(t) : Governs(t[k], day)
  BY <1>1, <1>2 DEF Sound, NoGap, Dates
<1>4. ASSUME NEW m \in S PROVE m = k
  <2>1. t[m].from \in Nat /\ t[k].from \in Nat
        /\ t[m].to \in Nat \cup {NoDate} /\ t[k].to \in Nat \cup {NoDate}
    BY <1>2, LiveRows
  <2>2. ~Before(t[m], t[k]) /\ ~Before(t[k], t[m])
    BY <1>1, <1>3, <2>1 DEF Governs, Before, NoDate
  <2> QED BY <1>2, <2>2 DEF Sound, InLine
<1>5. S = {k}
  BY <1>3, <1>4
<1> QED BY <1>5, FS_Singleton

\* Whatever transfers, cancellations and imports do to the memberships of an
\* account, each day since the first is governed by exactly one of those alive
\* (planPolicyTransferTx, transferEmployeePolicy, cancelScheduledPolicyTransfer,
\* assignHistoricalMembershipTx).
THEOREM TimelinesAreWhole == Spec => []OneTimeline
<1>1. Inv => OneTimeline
  BY SoundIsOneTimeline
<1> QED BY InitialInv, InvIsInductive, <1>1, PTL DEF Spec

-----------------------------------------------------------------------------
(* Catalogues                                                                *)

IsCatalogue(catalogue) ==
  DOMAIN catalogue \subseteq PolicyIds /\ catalogue \in [DOMAIN catalogue -> Policy]

\* One that a walk over a file has added to, beyond the ids of the database.
IsListing(catalogue) ==
  /\ IsFiniteSet(DOMAIN catalogue) /\ DOMAIN catalogue \subseteq Nat \ {NoPolicy}
  /\ catalogue \in [DOMAIN catalogue -> Policy]

LEMMA CatalogueIsListing ==
  ASSUME NEW catalogue, IsCatalogue(catalogue)
  PROVE  IsListing(catalogue)
  BY ResolutionAssumption, FS_Subset DEF IsCatalogue, IsListing

\* sortPolicyCatalog is a strict order and decides between any two policies.
LEMMA PrecedesIsAnOrder ==
  ASSUME NEW catalogue, IsListing(catalogue),
         NEW p \in DOMAIN catalogue, NEW q \in DOMAIN catalogue, NEW r \in DOMAIN catalogue
  PROVE  /\ ~Precedes(catalogue, p, p)
         /\ p # q => Precedes(catalogue, p, q) \/ Precedes(catalogue, q, p)
         /\ Precedes(catalogue, p, q) /\ Precedes(catalogue, q, r) => Precedes(catalogue, p, r)
<1>1. /\ p \in Nat /\ q \in Nat /\ r \in Nat
      /\ catalogue[p].to \in Nat \cup {NoDate}
      /\ catalogue[q].to \in Nat \cup {NoDate}
      /\ catalogue[r].to \in Nat \cup {NoDate}
  BY DEF IsListing, Policy
<1> QED BY <1>1 DEF Precedes, NoDate

\* So one of any policies comes first.
LEMMA FirstOfIsThere ==
  ASSUME NEW catalogue, IsListing(catalogue),
         NEW S, S \subseteq DOMAIN catalogue, S # {}
  PROVE  FirstOf(catalogue, S) \in S
<1> DEFINE R == {pair \in S \X S : Precedes(catalogue, pair[1], pair[2])}
<1>1. \A p, q \in S : <<p, q>> \in R <=> Precedes(catalogue, p, q)
  OBVIOUS
<1> HIDE DEF R
<1>2. IsFiniteSet(S)
  BY FS_Subset DEF IsListing
<1>3. \A p \in S : <<p, p>> \notin R
  BY <1>1, PrecedesIsAnOrder
<1>4. \A p, q, r \in S : <<p, q>> \in R /\ <<q, r>> \in R => <<p, r>> \in R
  BY <1>1, PrecedesIsAnOrder
<1>5. PICK p \in S : \A q \in S : <<q, p>> \notin R
  BY <1>2, <1>3, <1>4, FirstElement
<1>6. \A q \in S \ {p} : Precedes(catalogue, p, q)
  BY <1>1, <1>5, PrecedesIsAnOrder
<1> QED BY <1>6 DEF FirstOf

LEMMA JoinedIsThere ==
  ASSUME NEW catalogue, IsListing(catalogue), NEW row
  PROVE  Joined(catalogue, row) \in DOMAIN catalogue \cup {NoPolicy}
<1>1. /\ Named(catalogue, row) \subseteq DOMAIN catalogue
      /\ InForce(catalogue, row) \subseteq DOMAIN catalogue
      /\ StillCovering(catalogue, row) \subseteq DOMAIN catalogue
  BY DEF Named, InForce, StillCovering, WithTerms
<1> QED BY <1>1, FirstOfIsThere DEF Joined

LEMMA TakenIsFinite ==
  ASSUME NEW catalogue, IsListing(catalogue)
  PROVE  IsFiniteSet(Taken(catalogue))
<1> DEFINE f == [p \in DOMAIN catalogue |-> catalogue[p].name]
<1>1. f \in Surjection(DOMAIN catalogue, Taken(catalogue))
  BY DEF Surjection, Taken
<1>2. IsFiniteSet(DOMAIN catalogue)
  BY FS_Subset DEF IsListing
<1> QED BY <1>1, <1>2, FS_Surjection

\* firstFreePolicyName: the ladder has a free place.
LEMMA FirstFreeIsName ==
  ASSUME NEW stem \in Stems, NEW taken, IsFiniteSet(taken)
  PROVE  FirstFree(stem, taken) \in Names \ taken
<1> DEFINE c == Cardinality(taken)
           I == 1..(c + 1)
           S == {n \in I : <<stem, n>> \notin taken}
           f == [n \in I |-> <<stem, n>>]
<1>0. c \in Nat
  BY FS_CardinalityType
<1>1. c \in Nat /\ IsFiniteSet(I) /\ Cardinality(I) = c + 1
  <2>1. IsFiniteSet(I) /\ Cardinality(I) = IF 1 > c + 1 THEN 0 ELSE (c + 1) - 1 + 1
    <3>1. \A b \in Int : IsFiniteSet(1..b) /\ Cardinality(1..b) = IF 1 > b THEN 0 ELSE b - 1 + 1
      BY FS_Interval
    <3> HIDE DEF c
    <3>2. c + 1 \in Int
      BY <1>0
    <3> QED BY <3>1, <3>2
  <2> HIDE DEF c
  <2> QED BY <1>0, <2>1
<1>2. S # {}
  <2>1. SUFFICES ASSUME S = {} PROVE FALSE
    OBVIOUS
  <2>2. f \in [I -> taken]
    BY <2>1
  <2>3. Cardinality(taken) < Cardinality(I)
    BY <1>1
  <2>4. \E x, y \in I : x # y /\ f[x] = f[y]
    <3> HIDE DEF f, I
    <3> QED BY <1>1, <2>2, <2>3, FS_PigeonHole
  <2> QED BY <2>4
<1>3. S \subseteq Nat \ {0}
  BY <1>1
<1>4. PICK n \in S : \A m \in S : n <= m
  <2> HIDE DEF S
  <2> QED BY <1>2, <1>3, LeastNumber
<1>5. Min(S) \in S
  <2> HIDE DEF S
  <2> QED BY <1>4 DEF Min
<1>6. FirstFree(stem, taken) = <<stem, Min(S)>>
  BY DEF FirstFree
<1>7. Min(S) \in Nat \ {0} /\ <<stem, Min(S)>> \notin taken
  BY <1>3, <1>5
<1> HIDE DEF S
<1> QED BY <1>6, <1>7 DEF Names

LEMMA AddedIsCatalogue ==
  ASSUME NEW catalogue, IsCatalogue(catalogue), NEW p \in PolicyIds, NEW policy \in Policy
  PROVE  LET c == Added(catalogue, p, policy)
         IN  /\ IsCatalogue(c) /\ DOMAIN c = DOMAIN catalogue \cup {p}
             /\ c[p] = policy
             /\ \A q \in DOMAIN catalogue \ {p} : c[q] = catalogue[q]
  BY DEF Added, IsCatalogue

LEMMA MintedIsPolicy ==
  ASSUME NEW catalogue, IsListing(catalogue), NEW row \in FileRows(Users),
         NEW chosen \in Stems \cup {NoName}
  PROVE  Minted(catalogue, row, chosen) \in Policy /\ Minted(catalogue, row, chosen).to = NoDate
<1> DEFINE stem == IF row.name # NoName THEN row.name
                   ELSE IF chosen # NoName THEN chosen ELSE row.terms
<1>1. row.terms \in Terms /\ row.hire \in Nat /\ row.name \in Stems \cup {NoName}
  BY DEF FileRows
<1>2. stem \in Stems
  BY <1>1 DEF Stems
<1>3. FirstFree(stem, Taken(catalogue)) \in Names
  BY <1>2, FirstFreeIsName, TakenIsFinite
<1>4. Minted(catalogue, row, chosen) =
        [name |-> FirstFree(stem, Taken(catalogue)), terms |-> row.terms,
         from |-> row.hire, to |-> NoDate]
  BY DEF Minted
<1> HIDE DEF stem
<1> QED BY <1>1, <1>3, <1>4 DEF Policy


-----------------------------------------------------------------------------
(* Types.  The rows of an account are kept for policies among P.            *)

Membership(P) ==
  [policy : P, from : Dates, to : Dates \cup {NoDate}, by : RowIds \cup {NoRow}, auto : BOOLEAN]

Kept(t, P) == t \in [DOMAIN t -> Membership(P)]

LEMMA KeptForMore ==
  ASSUME NEW P, NEW Q, P \subseteq Q, NEW t, Kept(t, P)
  PROVE  Kept(t, Q)
  BY DEF Kept, Membership

LEMMA KeptInserted ==
  ASSUME NEW P, NEW t, Kept(t, P), NEW r \in Membership(P)
  PROVE  Kept(Inserted(t, r), P)
<1> DEFINE s == Inserted(t, r)
<1>1. DOMAIN s = DOMAIN t \cup {NewRow(t)}
  BY DEF Inserted
<1>2. s \in [DOMAIN t \cup {NewRow(t)} -> Membership(P)]
  BY DEF Inserted, Kept
<1> QED BY <1>1, <1>2 DEF Kept

LEMMA KeptEnrolled ==
  ASSUME NEW P, NEW t, Kept(t, P), NEW p \in P, NEW from \in Dates, NEW auto \in BOOLEAN
  PROVE  Kept(Enrolled(t, p, from, auto), P)
<1>1. [policy |-> p, from |-> from, to |-> NoDate, by |-> NoRow, auto |-> auto] \in Membership(P)
  BY DEF Membership
<1> QED BY <1>1, KeptInserted DEF Enrolled

LEMMA KeptClosed ==
  ASSUME NEW P, NEW t, Kept(t, P), NEW S, NEW from \in Dates
  PROVE  Kept(ClosedAt(t, S, from), P)
<1>1. ASSUME NEW i \in DOMAIN t PROVE ClosedAt(t, S, from)[i] \in Membership(P)
  <2>1. t[i] \in Membership(P)
    BY DEF Kept
  <2> QED BY <2>1 DEF ClosedAt, Membership
<1> QED BY <1>1 DEF ClosedAt, Kept

LEMMA KeptSuperseded ==
  ASSUME NEW P, NEW t, Kept(t, P), NEW S, NEW by \in RowIds
  PROVE  Kept(Superseded(t, S, by), P)
<1>1. ASSUME NEW i \in DOMAIN t PROVE Superseded(t, S, by)[i] \in Membership(P)
  <2>1. t[i] \in Membership(P)
    BY DEF Kept
  <2> QED BY <2>1 DEF Superseded, Membership
<1> QED BY <1>1 DEF Superseded, Kept

LEMMA KeptRemoved ==
  ASSUME NEW P, NEW t, Kept(t, P), NEW S
  PROVE  Kept(Removed(t, S), P)
<1>1. ASSUME NEW i \in DOMAIN t \ S PROVE Removed(t, S)[i] \in Membership(P)
  <2>1. t[i] \in Membership(P)
    BY DEF Kept
  <2> QED BY <2>1 DEF Removed, Membership
<1> QED BY <1>1 DEF Removed, Kept

LEMMA KeptReopened ==
  ASSUME NEW P, NEW t, Kept(t, P), NEW j
  PROVE  Kept([t EXCEPT ![j].to = NoDate], P)
<1> DEFINE s == [t EXCEPT ![j].to = NoDate]
<1>1. ASSUME NEW i \in DOMAIN t PROVE s[i] \in Membership(P)
  <2>1. t[i] \in Membership(P)
    BY DEF Kept
  <2> QED BY <2>1 DEF Membership
<1>2. DOMAIN s = DOMAIN t /\ s = [i \in DOMAIN t |-> s[i]]
  OBVIOUS
<1> HIDE DEF s
<1>3. Kept(s, P)
  BY <1>1, <1>2 DEF Kept
<1> QED BY <1>3 DEF s

LEMMA KeptAppended ==
  ASSUME NEW P, NEW t, Kept(t, P), NEW p \in P, NEW from \in Dates
  PROVE  Kept(Appended(t, p, from), P)
  BY KeptClosed, KeptEnrolled DEF Appended

LEMMA KeptRewritten ==
  ASSUME NEW P, NEW t, Table(t), Kept(t, P), NEW p \in P, NEW from \in Dates
  PROVE  Kept(Rewritten(t, p, from), P)
<1> DEFINE moved  == Enrolled(ClosedAt(t, Closing(t, from), from), p, from, FALSE)
           marked == Superseded(moved, Replaced(t, from), NewRow(t))
           copied == CHOOSE i \in Straddling(t, from) : TRUE
           copy   == [t[copied] EXCEPT !.to = from]
<1>1. Kept(marked, P)
  <2>1. Kept(moved, P)
    BY KeptClosed, KeptEnrolled
  <2>2. NewRow(t) \in RowIds
    BY NewRowIsNew
  <2> HIDE DEF moved
  <2> QED BY <2>1, <2>2, KeptSuperseded
<1>2. Rewritten(t, p, from) =
        IF Straddling(t, from) = Closing(t, from) THEN marked ELSE Inserted(marked, copy)
  BY DEF Rewritten
<1> HIDE DEF marked
<1>3. CASE Straddling(t, from) = Closing(t, from)
  BY <1>1, <1>2, <1>3
<1>4. CASE Straddling(t, from) # Closing(t, from)
  <2>1. copied \in Straddling(t, from)
    BY <1>4 DEF Closing
  <2>2. t[copied] \in Membership(P)
    BY <2>1 DEF Straddling, Live, Kept
  <2> HIDE DEF copied
  <2>3. copy \in Membership(P)
    BY <2>2 DEF Membership
  <2> HIDE DEF copy
  <2> QED BY <1>1, <1>2, <1>4, <2>3, KeptInserted
<1> QED BY <1>3, <1>4

LEMMA KeptAssigned ==
  ASSUME NEW P, NEW t, Kept(t, P), NEW p \in P, NEW from \in Dates, NEW mode
  PROVE  Kept(Assigned(t, p, from, mode), P)
  BY KeptRemoved, KeptEnrolled DEF Assigned

Types ==
  /\ IsCatalogue(policies)
  /\ default \in DOMAIN policies /\ policies[default].to = NoDate
  /\ joining \in [Users -> PolicyIds \cup {NoPolicy}]
  /\ edits \in 0..MaxEdits
  /\ \A u \in Users : Kept(rows[u], DOMAIN policies)

LEMMA InitialTypes == Init => Types
<1> SUFFICES ASSUME Init PROVE Types
  OBVIOUS
<1>1. PICK terms \in Terms :
        policies = [p \in {FirstPolicy} |->
                      [name |-> <<terms, 1>>, terms |-> terms, from |-> 0, to |-> NoDate]]
  BY DEF Init
<1>2. IsCatalogue(policies) /\ FirstPolicy \in DOMAIN policies /\ policies[FirstPolicy].to = NoDate
  BY <1>1, CatalogueAssumption DEF IsCatalogue, Policy, Names, Stems
<1>3. /\ default = FirstPolicy /\ edits = 0 /\ joining = [u \in Users |-> NoPolicy]
      /\ rows = [u \in Users |-> <<>>]
  BY DEF Init
<1>4. \A u \in Users : Kept(rows[u], DOMAIN policies)
  BY <1>3 DEF Kept
<1> QED BY <1>2, <1>3, <1>4, CatalogueAssumption DEF Types

\* What each edit of the catalogue leaves
LEMMA CatalogueTypes ==
  ASSUME Inv, Types, NEW catalogue, EditCatalogue(catalogue), IsCatalogue(catalogue),
         default' \in DOMAIN catalogue, catalogue[default'].to = NoDate,
         \A u \in Users : Kept(rows[u], DOMAIN catalogue)
  PROVE  Types'
  BY CatalogueAssumption DEF Types, EditCatalogue, Edit

LEMMA CatalogueStepTypes ==
  ASSUME Inv, Types, NEW p \in PolicyIds,
         \/ \E offer \in Offers : CreatePolicy(p, offer)
         \/ \E stem \in Typed : RenamePolicy(p, stem)
         \/ \E date \in FirstDay..(LastDay + 1) : RetirePolicy(p, date)
         \/ ReopenPolicy(p) \/ SetDefault(p) \/ DeletePolicy(p)
  PROVE  Types'
<1>1. ASSUME NEW offer \in Offers, CreatePolicy(p, offer) PROVE Types'
  <2> DEFINE policy == [name |-> <<offer.name, 1>>, terms |-> offer.terms,
                        from |-> offer.from, to |-> offer.to]
             catalogue == Added(policies, p, policy)
  <2>1. policy \in Policy
    BY CatalogueAssumption DEF Policy, Names
  <2>2. p \notin DOMAIN policies /\ EditCatalogue(catalogue) /\ default' = default
    BY <1>1 DEF CreatePolicy
  <2> HIDE DEF policy
  <2>3. /\ IsCatalogue(catalogue) /\ DOMAIN catalogue = DOMAIN policies \cup {p}
        /\ \A q \in DOMAIN policies \ {p} : catalogue[q] = policies[q]
    BY <2>1, AddedIsCatalogue DEF Types
  <2> HIDE DEF catalogue
  <2>4. \A u \in Users : Kept(rows[u], DOMAIN catalogue)
    BY <2>3, KeptForMore DEF Types
  <2> QED BY <2>2, <2>3, <2>4, CatalogueTypes DEF Types
<1>2. ASSUME NEW stem \in Typed, RenamePolicy(p, stem) PROVE Types'
  <2> DEFINE catalogue == [policies EXCEPT ![p].name = <<stem, 1>>]
  <2>1. p \in DOMAIN policies /\ EditCatalogue(catalogue) /\ default' = default
    BY <1>2 DEF RenamePolicy
  <2>2. DOMAIN catalogue = DOMAIN policies /\ IsCatalogue(catalogue)
        /\ \A q \in DOMAIN policies : catalogue[q].to = policies[q].to
    BY <2>1 DEF Types, IsCatalogue, Policy, Names, Stems
  <2> HIDE DEF catalogue
  <2> QED BY <2>1, <2>2, CatalogueTypes DEF Types
<1>3. ASSUME NEW date \in FirstDay..(LastDay + 1), RetirePolicy(p, date) PROVE Types'
  <2> DEFINE catalogue == [policies EXCEPT ![p].to = date]
  <2>1. p \in DOMAIN policies \ {default} /\ EditCatalogue(catalogue) /\ default' = default
    BY <1>3 DEF RetirePolicy
  <2>2. date \in Nat
    BY CatalogueAssumption
  <2>3. DOMAIN catalogue = DOMAIN policies /\ IsCatalogue(catalogue)
        /\ catalogue[default] = policies[default]
    BY <2>1, <2>2 DEF Types, IsCatalogue, Policy
  <2> HIDE DEF catalogue
  <2> QED BY <2>1, <2>3, CatalogueTypes DEF Types
<1>4. ASSUME ReopenPolicy(p) PROVE Types'
  <2> DEFINE catalogue == [policies EXCEPT ![p].to = NoDate]
  <2>1. p \in DOMAIN policies /\ EditCatalogue(catalogue) /\ default' = default
    BY <1>4 DEF ReopenPolicy
  <2>2. DOMAIN catalogue = DOMAIN policies /\ IsCatalogue(catalogue)
        /\ catalogue[default].to = NoDate
    BY <2>1 DEF Types, IsCatalogue, Policy
  <2> HIDE DEF catalogue
  <2> QED BY <2>1, <2>2, CatalogueTypes DEF Types
<1>5. ASSUME SetDefault(p) PROVE Types'
  <2>1. EditCatalogue(policies) /\ default' = p /\ p \in DOMAIN policies /\ policies[p].to = NoDate
    BY <1>5 DEF SetDefault, Retired
  <2> QED BY <2>1, CatalogueTypes DEF Types
<1>6. ASSUME DeletePolicy(p) PROVE Types'
  <2> DEFINE catalogue == [q \in DOMAIN policies \ {p} |-> policies[q]]
  <2>1. /\ p \in DOMAIN policies \ {default} /\ EditCatalogue(catalogue) /\ default' = default
        /\ \A u \in Users : \A i \in DOMAIN rows[u] : rows[u][i].policy # p
    BY <1>6 DEF DeletePolicy
  <2>2. DOMAIN catalogue = DOMAIN policies \ {p} /\ IsCatalogue(catalogue)
        /\ catalogue[default] = policies[default]
    BY <2>1 DEF Types, IsCatalogue
  <2>3. ASSUME NEW u \in Users PROVE Kept(rows[u], DOMAIN policies \ {p})
    <3>1. Kept(rows[u], DOMAIN policies)
      BY DEF Types
    <3>2. \A i \in DOMAIN rows[u] : rows[u][i].policy # p
      BY <2>1
    <3> QED BY <3>1, <3>2 DEF Kept, Membership
  <2> HIDE DEF catalogue
  <2> QED BY <2>1, <2>2, <2>3, CatalogueTypes DEF Types
<1> QED BY <1>1, <1>2, <1>3, <1>4, <1>5, <1>6

\* What each edit of a timeline leaves, in a catalogue that may have grown
LEMMA MembershipTypes ==
  ASSUME Inv, Types, NEW u \in Users, NEW t, EditMemberships(u, t),
         Kept(t, DOMAIN policies'), IsCatalogue(policies'),
         DOMAIN policies \subseteq DOMAIN policies',
         \A q \in DOMAIN policies : policies'[q].to = policies[q].to
  PROVE  Types'
<1>1. /\ rows' = [rows EXCEPT ![u] = t] /\ default' = default /\ joining' = joining
      /\ edits' \in 0..MaxEdits
  BY CatalogueAssumption DEF EditMemberships, Edit, Types
<1>2. \A w \in Users : Kept(rows'[w], DOMAIN policies')
  BY <1>1, KeptForMore DEF Types, Inv
<1> QED BY <1>1, <1>2 DEF Types

LEMMA TransferTypes ==
  ASSUME Inv, Types, NEW u \in Users, NEW p, NEW date \in Nat, NEW mode,
         Transfer(u, p, date, mode)
  PROVE  Types'
<1> DEFINE P == DOMAIN policies
           t == rows[u]
<1>1. /\ p \in P /\ policies' = policies
      /\ EditMemberships(u, IF mode = "retroactive" THEN Rewritten(t, p, EarliestTransfer(u))
                            ELSE Appended(t, p, date))
  BY DEF Transfer
<1>2. EarliestTransfer(u) \in Dates /\ date \in Dates /\ Table(t)
  BY Days DEF Dates, Sound
<1>3. Kept(t, P)
  BY DEF Types
<1>4. Kept(Rewritten(t, p, EarliestTransfer(u)), P) /\ Kept(Appended(t, p, date), P)
  BY <1>1, <1>2, <1>3, KeptRewritten, KeptAppended
<1> QED BY <1>1, <1>4, MembershipTypes DEF Types

LEMMA CancelTypes ==
  ASSUME Inv, Types, NEW u \in Users, CancelTransfer(u)
  PROVE  Types'
<1> DEFINE P == DOMAIN policies
<1>1. Kept(rows[u], P) /\ policies' = policies
  BY DEF Types, CancelTransfer
<1>2. PICK i \in Scheduled(u) :
        \/ EditMemberships(u, Removed(rows[u], {i}))
        \/ \E j : EditMemberships(u, [Removed(rows[u], {i}) EXCEPT ![j].to = NoDate])
  BY DEF CancelTransfer
<1>3. Kept(Removed(rows[u], {i}), P)
  BY <1>1, KeptRemoved
<1>4. \A j : Kept([Removed(rows[u], {i}) EXCEPT ![j].to = NoDate], P)
  BY <1>3, KeptReopened
<1> QED BY <1>1, <1>2, <1>3, <1>4, MembershipTypes DEF Types

LEMMA ImportTypes ==
  ASSUME Inv, Types, NEW u \in Users, NEW row \in Imports,
         NEW chosen \in Typed \cup {NoName}, NEW mode,
         ImportEmployee(u, row, chosen, mode)
  PROVE  Types'
<1> DEFINE joined == Joined(policies, row)
<1>1. row \in FileRows(Users) /\ row.hire \in Dates
  BY CatalogueAssumption DEF FileRows, Dates
<1>2. joined \in DOMAIN policies \cup {NoPolicy}
  BY JoinedIsThere, CatalogueIsListing DEF Types
<1>3. CASE joined # NoPolicy
  <2>1. /\ policies' = Backdated(policies, joined, row.hire)
        /\ EditMemberships(u, Assigned(rows[u], joined, row.hire, mode))
    BY <1>3 DEF ImportEmployee
  <2> HIDE DEF joined
  <2>2. /\ DOMAIN policies' = DOMAIN policies /\ IsCatalogue(policies')
        /\ \A q \in DOMAIN policies : policies'[q].to = policies[q].to
    BY <2>1, <1>1, <1>2, <1>3 DEF Backdated, IsCatalogue, Policy, Types, Dates
  <2>3. Kept(Assigned(rows[u], joined, row.hire, mode), DOMAIN policies)
    BY <1>1, <1>2, <1>3, KeptAssigned DEF Types
  <2> QED BY <2>1, <2>2, <2>3, MembershipTypes
<1>4. CASE joined = NoPolicy
  <2>1. PICK p \in PolicyIds \ DOMAIN policies :
          /\ policies' = Added(policies, p, Minted(policies, row, chosen))
          /\ EditMemberships(u, Assigned(rows[u], p, row.hire, mode))
    BY <1>4 DEF ImportEmployee
  <2>2. Minted(policies, row, chosen) \in Policy /\ IsCatalogue(policies) /\ p \in PolicyIds
    BY <1>1, MintedIsPolicy, CatalogueIsListing DEF Types, Stems
  <2>3. /\ IsCatalogue(policies') /\ DOMAIN policies' = DOMAIN policies \cup {p}
        /\ \A q \in DOMAIN policies \ {p} : policies'[q] = policies[q]
    <3> DEFINE m == Minted(policies, row, chosen)
               c == Added(policies, p, m)
    <3>1. m \in Policy /\ IsCatalogue(policies) /\ p \in PolicyIds /\ policies' = c
      BY <2>1, <2>2
    <3> HIDE DEF m
    <3>2. /\ IsCatalogue(c) /\ DOMAIN c = DOMAIN policies \cup {p}
          /\ \A q \in DOMAIN policies \ {p} : c[q] = policies[q]
      BY <3>1, AddedIsCatalogue
    <3> HIDE DEF c
    <3> QED BY <3>1, <3>2
  <2>4. Kept(rows[u], DOMAIN policies')
    BY <2>3, KeptForMore DEF Types
  <2>5. Kept(Assigned(rows[u], p, row.hire, mode), DOMAIN policies')
    BY <1>1, <2>3, <2>4, KeptAssigned
  <2> QED BY <2>1, <2>3, <2>5, MembershipTypes
<1> QED BY <1>3, <1>4

LEMMA ProvisionTypes ==
  ASSUME Inv, Types, NEW u \in Users, NEW hire, Provision(u, hire)
  PROVE  Types'
<1>1. /\ joining' = [joining EXCEPT ![u] = NoPolicy]
      /\ policies' = policies /\ default' = default /\ edits' = edits
  BY DEF Provision
<1>2. CASE joining[u] \in DOMAIN policies
  <2>1. rows' = [rows EXCEPT ![u] = Enrolled(rows[u], joining[u], now, TRUE)]
    BY <1>2 DEF Provision
  <2>2. Kept(Enrolled(rows[u], joining[u], now, TRUE), DOMAIN policies)
    BY <1>2, Days, KeptEnrolled DEF Types, Dates
  <2>3. \A w \in Users : Kept(rows'[w], DOMAIN policies)
    BY <2>1, <2>2 DEF Types, Inv
  <2> QED BY <1>1, <2>3 DEF Types
<1>3. CASE joining[u] \notin DOMAIN policies
  BY <1>1, <1>3 DEF Types, Provision
<1> QED BY <1>2, <1>3

LEMMA TypesAreKept == Inv /\ Types /\ [Next]_vars => Types'
<1> SUFFICES ASSUME Inv, Types, [Next]_vars PROVE Types'
  OBVIOUS
<1>1. ASSUME Tick PROVE Types'
  BY <1>1 DEF Tick, Types
<1>2. ASSUME NEW u \in Users, ReadDefault(u) PROVE Types'
  <2>1. default \in PolicyIds
    BY DEF Types, IsCatalogue
  <2> QED BY <1>2, <2>1 DEF ReadDefault, Types
<1>3. ASSUME NEW u \in Users, NEW hire, SetStartDate(u, hire) PROVE Types'
  BY <1>3 DEF SetStartDate, Types
<1>4. ASSUME NEW u \in Users, NEW p, NEW date \in 0..(LastDay + 2), NEW mode,
             Transfer(u, p, date, mode)
      PROVE  Types'
  <2>1. date \in Nat
    BY CatalogueAssumption
  <2> QED BY <1>4, <2>1, TransferTypes
<1>5. CASE UNCHANGED vars
  BY <1>5 DEF vars, Types
<1> QED BY <1>1, <1>2, <1>3, <1>4, <1>5, CatalogueStepTypes, CancelTypes, ImportTypes,
           ProvisionTypes DEF Next

LEMMA TypesAreRight == Inv /\ Types => TypeOK
<1> SUFFICES ASSUME Inv, Types PROVE TypeOK
  OBVIOUS
<1>1. ASSUME NEW u \in Users
      PROVE  /\ DOMAIN rows[u] \subseteq RowIds /\ rows[u] \in [DOMAIN rows[u] -> Row]
             /\ \A i \in DOMAIN rows[u] :
                  /\ rows[u][i].policy \in DOMAIN policies
                  /\ rows[u][i].by \in DOMAIN rows[u] \cup {NoRow}
  <2>1. Kept(rows[u], DOMAIN policies) /\ Table(rows[u]) /\ DOMAIN policies \subseteq PolicyIds
    BY DEF Types, Inv, Sound, IsCatalogue
  <2>2. Kept(rows[u], PolicyIds)
    BY <2>1, KeptForMore
  <2> QED BY <2>1, <2>2 DEF Kept, Membership, Row, Table
<1> QED BY <1>1 DEF Types, Inv, TypeOK, IsCatalogue, Retired

\* Every value is of its kind, references lead somewhere, and the default
\* policy is in force: it can neither be retired nor deleted, and the foreign
\* key keeps a policy while a row refers to it (updatePolicy, deletePolicy,
\* upsertUserTx, applyUserData).
THEOREM TypeCorrect == Spec => []TypeOK
<1>1. Init => Inv /\ Types
  BY InitialInv, InitialTypes
<1>2. Inv /\ Types /\ [Next]_vars => (Inv /\ Types)'
  BY InvIsInductive, TypesAreKept
<1> QED BY <1>1, <1>2, TypesAreRight, PTL DEF Spec

-----------------------------------------------------------------------------
(* Memberships and the policies they outlive *)

\* Is s the row r, or r cut short?
Shortens(r, s) == s.policy = r.policy /\ (r.to = NoDate \/ (s.to # NoDate /\ s.to <= r.to))

\* Are the live rows of s those of t, some cut short, and rows of the policy p?
OnlyJoins(t, s, p) ==
  \A i \in Live(s) : s[i].policy = p \/ \E k \in Live(t) : Shortens(t[k], s[i])

LEMMA ShortRowsOutliveLess ==
  ASSUME NEW P, NEW r \in Membership(P), NEW s \in Membership(P), Shortens(r, s),
         NEW policy \in Policy, Outlives(s, policy)
  PROVE  Outlives(r, policy)
<1>1. /\ r.to \in Nat \cup {NoDate} /\ s.to \in Nat \cup {NoDate}
      /\ policy.to \in Nat \cup {NoDate}
  BY DEF Membership, Policy, Dates
<1> QED BY <1>1 DEF Shortens, Outlives, NoDate

LEMMA InsertedJoins ==
  ASSUME NEW t, Table(t), NEW q, Table(q), NEW p,
         \A i \in Live(q) : \E k \in Live(t) : Shortens(t[k], q[i]),
         NEW r, IsRow(r), r.by = NoRow,
         r.policy = p \/ \E k \in Live(t) : Shortens(t[k], r)
  PROVE  OnlyJoins(t, Inserted(q, r), p)
<1> DEFINE s == Inserted(q, r)
           n == NewRow(q)
<1>1. /\ DOMAIN s = DOMAIN q \cup {n} /\ s[n] = r
      /\ \A i \in DOMAIN q : s[i] = q[i]
      /\ Live(s) = Live(q) \cup {n}
  BY InsertedRow
<1>2. Live(q) \subseteq DOMAIN q
  BY DEF Live
<1> HIDE DEF s, n
<1>3. OnlyJoins(t, s, p)
  BY <1>1, <1>2 DEF OnlyJoins
<1> QED BY <1>3 DEF s

LEMMA ClosedJoins ==
  ASSUME NEW P, NEW t, Table(t), Kept(t, P), NEW from \in Dates,
         NEW S, \A i \in S \cap Live(t) : t[i].to = NoDate
  PROVE  \A i \in Live(ClosedAt(t, S, from)) :
           i \in Live(t) /\ Shortens(t[i], ClosedAt(t, S, from)[i])
<1> DEFINE c == ClosedAt(t, S, from)
<1>1. DOMAIN c = DOMAIN t /\ Live(c) = Live(t)
  BY ClosedRows
<1>2. ASSUME NEW i \in Live(t) PROVE Shortens(t[i], c[i])
  <2>1. i \in DOMAIN t /\ t[i] \in Membership(P)
    BY DEF Live, Kept
  <2>2. t[i].to \in Nat \cup {NoDate}
    BY <2>1 DEF Membership, Dates
  <2>3. CASE i \in S
    BY <2>1, <2>3 DEF ClosedAt, Shortens, Membership
  <2>4. CASE i \notin S
    <3>1. c[i] = t[i]
      BY <2>1, <2>4 DEF ClosedAt
    <3> HIDE DEF c
    <3> QED BY <3>1, <2>2 DEF Shortens
  <2> QED BY <2>3, <2>4
<1> QED BY <1>1, <1>2

LEMMA AppendedJoins ==
  ASSUME NEW P, NEW t, Table(t), Kept(t, P), NEW p, NEW from \in Dates
  PROVE  OnlyJoins(t, Appended(t, p, from), p)
<1> DEFINE c == ClosedAt(t, Open(t), from)
           r == [policy |-> p, from |-> from, to |-> NoDate, by |-> NoRow, auto |-> FALSE]
<1>1. Table(c)
  BY ClosedRows
<1>2. \A i \in Live(c) : \E k \in Live(t) : Shortens(t[k], c[i])
  BY ClosedJoins DEF Open
<1>3. IsRow(r) /\ r.by = NoRow /\ r.policy = p
  BY EnrolledRow
<1>4. Appended(t, p, from) = Inserted(c, r)
  BY DEF Appended, Enrolled
<1> HIDE DEF c, r
<1> QED BY <1>1, <1>2, <1>3, <1>4, InsertedJoins

LEMMA RewrittenJoins ==
  ASSUME NEW P, NEW t, NEW today \in Int, Sound(t, today), Kept(t, P), NEW p, NEW from \in Dates
  PROVE  OnlyJoins(t, Rewritten(t, p, from), p)
<1> DEFINE n == NewRow(t)
           c == ClosedAt(t, Closing(t, from), from)
           r == [policy |-> p, from |-> from, to |-> NoDate, by |-> NoRow, auto |-> FALSE]
           moved  == Inserted(c, r)
           marked == Superseded(moved, Replaced(t, from), n)
           o == CHOOSE i \in Straddling(t, from) : TRUE
           copy == [t[o] EXCEPT !.to = from]
<1>1. Table(t) /\ Table(c) /\ n \in RowIds
  BY ClosedRows, NewRowIsNew DEF Sound
<1>2. \A i \in Live(c) : \E k \in Live(t) : Shortens(t[k], c[i])
  <2>1. \A i \in Closing(t, from) \cap Live(t) : t[i].to = NoDate
    BY DEF Closing, Open
  <2> QED BY <1>1, <2>1, ClosedJoins
<1>3. IsRow(r) /\ r.by = NoRow /\ r.policy = p
  BY EnrolledRow
<1>4. Enrolled(c, p, from, FALSE) = moved
  BY DEF Enrolled
<1>5. Rewritten(t, p, from) =
        IF Straddling(t, from) = Closing(t, from) THEN marked ELSE Inserted(marked, copy)
  BY DEF Rewritten, Enrolled
<1> HIDE DEF c, r
<1>6. OnlyJoins(t, moved, p) /\ Table(moved)
  BY <1>1, <1>2, <1>3, InsertedJoins, InsertedRow
<1>7. Cut(t, from, n, marked)
  BY <1>1, <1>4, MarkedIsCut DEF c
<1> HIDE DEF moved, n
<1>8. \A i \in Live(marked) : i \in Live(moved) /\ marked[i] = moved[i]
  <2>1. ASSUME NEW i \in Live(marked) PROVE i \in Live(moved) /\ marked[i] = moved[i]
    <3>1. i \in DOMAIN moved /\ IsRow(moved[i]) /\ marked[i].by = NoRow
      BY <1>6 DEF Live, Superseded, Table
    <3>2. i \notin Replaced(t, from)
      BY <3>1, <1>1, Marked DEF Superseded, RowIds
    <3>3. marked[i] = moved[i]
      BY <3>1, <3>2 DEF Superseded
    <3> QED BY <3>1, <3>3 DEF Live
  <2> QED BY <2>1
<1> HIDE DEF marked
<1>9. OnlyJoins(t, marked, p)
  BY <1>6, <1>8 DEF OnlyJoins
<1>10. CASE Straddling(t, from) = Closing(t, from)
  BY <1>5, <1>9, <1>10
<1>11. CASE Straddling(t, from) # Closing(t, from)
  <2>1. o \in Straddling(t, from)
    BY <1>11 DEF Closing
  <2>2. /\ o \in Live(t) /\ o \in DOMAIN t /\ t[o].from \in Nat
        /\ t[o].from < from /\ (t[o].to = NoDate \/ t[o].to > from)
    BY <2>1, LiveRows DEF Straddling, Later, Dates
  <2>3. t[o] \in Membership(P) /\ IsRow(t[o]) /\ t[o].by = NoRow
    BY <2>2, <1>1 DEF Kept, Table, Live
  <2>4. t[o].to \in Nat \cup {NoDate}
    BY <2>3 DEF Membership, Dates
  <2> HIDE DEF o
  <2>5. IsRow(copy) /\ copy.by = NoRow /\ copy.to = from /\ copy.policy = t[o].policy
    <3>1. IsRow(copy) /\ copy.by = NoRow /\ copy.to = from
      BY <2>3, Moved
    <3>2. copy.policy = t[o].policy
      BY <2>3 DEF Membership
    <3> QED BY <3>1, <3>2
  <2>6. Shortens(t[o], copy)
    BY <2>2, <2>4, <2>5 DEF Shortens, Dates, NoDate
  <2> HIDE DEF copy
  <2>7. Table(marked)
    BY <1>7 DEF Cut
  <2>8. /\ DOMAIN Inserted(marked, copy) = DOMAIN marked \cup {NewRow(marked)}
        /\ Inserted(marked, copy)[NewRow(marked)] = copy
        /\ \A i \in DOMAIN marked : Inserted(marked, copy)[i] = marked[i]
        /\ Live(Inserted(marked, copy)) = Live(marked) \cup {NewRow(marked)}
    BY <2>5, <2>7, InsertedRow
  <2>9. Live(marked) \subseteq DOMAIN marked
    BY DEF Live
  <2>10. OnlyJoins(t, Inserted(marked, copy), p)
    BY <1>9, <2>2, <2>6, <2>8, <2>9 DEF OnlyJoins
  <2> QED BY <1>5, <1>11, <2>10
<1> QED BY <1>10, <1>11

LEMMA AssignedJoins ==
  ASSUME NEW P, NEW t, NEW today \in Int, Sound(t, today), Kept(t, P), NEW p,
         NEW from \in Dates, NEW mode, OneOpenRow(Assigned(t, p, from, mode))
  PROVE  OnlyJoins(t, Assigned(t, p, from, mode), p)
<1> DEFINE q == Removed(t, Live(t))
           r == [policy |-> p, from |-> from, to |-> NoDate, by |-> NoRow, auto |-> FALSE]
<1>1. CASE Assigned(t, p, from, mode) = t
  <2>1. \A i \in Live(t) : t[i].to \in Nat \cup {NoDate}
    BY LiveRows
  <2>2. \A i \in Live(t) : Shortens(t[i], t[i])
    BY <2>1 DEF Shortens
  <2> QED BY <1>1, <2>2 DEF OnlyJoins
<1>2. CASE Assigned(t, p, from, mode) # t
  <2>1. Assigned(t, p, from, mode) = Enrolled(q, p, from, FALSE)
    BY <1>2 DEF Assigned
  <2>2. Live(q) = {}
    <3>1. OneOpenRow(Enrolled(Removed(t, Live(t)), p, from, FALSE))
      BY <2>1
    <3> QED BY <3>1, NothingRevives DEF Sound
  <2>3. Table(t) /\ Table(q)
    BY RemovedRows DEF Sound, Live
  <2>4. IsRow(r) /\ r.by = NoRow /\ r.policy = p
    BY EnrolledRow
  <2>5. Enrolled(q, p, from, FALSE) = Inserted(q, r)
    BY DEF Enrolled
  <2> HIDE DEF q, r
  <2> QED BY <2>1, <2>2, <2>3, <2>4, <2>5, InsertedJoins
<1> QED BY <1>1, <1>2

\* An account that moves to a policy in force outlives none that it did not.
LEMMA JoiningOutlivesNothing ==
  ASSUME Inv, Types, Types', NEW u \in Users, NEW t, rows' = [rows EXCEPT ![u] = t],
         NEW p \in DOMAIN policies', policies'[p].to = NoDate, OnlyJoins(rows[u], t, p),
         DOMAIN policies \subseteq DOMAIN policies',
         \A q \in DOMAIN policies : policies'[q].to = policies[q].to,
         NEW w \in Users, Outlived(w)'
  PROVE  Outlived(w)
<1>1. rows'[w] = IF w = u THEN t ELSE rows[w]
  BY DEF Inv
<1>2. PICK i \in Live(rows'[w]) : Outlives(rows'[w][i], policies'[rows'[w][i].policy])
  BY DEF Outlived
<1>3. /\ rows'[w][i] \in Membership(DOMAIN policies')
      /\ policies'[rows'[w][i].policy] \in Policy
  <2>1. Kept(rows'[w], DOMAIN policies') /\ IsCatalogue(policies') /\ i \in DOMAIN rows'[w]
    BY <1>2 DEF Types, Live
  <2>2. rows'[w][i] \in Membership(DOMAIN policies')
    BY <2>1 DEF Kept
  <2> QED BY <2>1, <2>2 DEF Membership, IsCatalogue
<1>4. ASSUME NEW k \in Live(rows[w])
      PROVE  /\ rows[w][k] \in Membership(DOMAIN policies)
             /\ rows[w][k] \in Membership(DOMAIN policies')
             /\ policies'[rows[w][k].policy].to = policies[rows[w][k].policy].to
  <2>1. rows[w][k] \in Membership(DOMAIN policies)
    BY DEF Types, Kept, Live
  <2> QED BY <2>1 DEF Membership
<1>5. CASE w # u
  <2>1. i \in Live(rows[w]) /\ rows'[w][i] = rows[w][i]
    BY <1>1, <1>2, <1>5
  <2> QED BY <1>2, <1>4, <2>1 DEF Outlived, Outlives
<1>6. CASE w = u
  <2>1. rows'[w] = t /\ i \in Live(t)
    BY <1>1, <1>2, <1>6
  <2>2. rows'[w][i].policy # p
    BY <1>2 DEF Outlives
  <2>3. PICK k \in Live(rows[w]) : Shortens(rows[w][k], rows'[w][i])
    BY <2>1, <2>2, <1>6 DEF OnlyJoins
  <2>4. Outlives(rows[w][k], policies'[rows'[w][i].policy])
    BY <1>2, <1>3, <1>4, <2>3, ShortRowsOutliveLess
  <2>5. rows'[w][i].policy = rows[w][k].policy
    BY <2>3 DEF Shortens
  <2> QED BY <1>4, <2>4, <2>5 DEF Outlived, Outlives
<1> QED BY <1>5, <1>6

LEMMA CatalogueOutlives ==
  ASSUME Inv, Types, NEW p \in PolicyIds,
         \/ \E offer \in Offers : CreatePolicy(p, offer)
         \/ \E stem \in Typed : RenamePolicy(p, stem)
         \/ \E date \in FirstDay..(LastDay + 1) : RetirePolicy(p, date)
         \/ ReopenPolicy(p) \/ SetDefault(p) \/ DeletePolicy(p),
         NEW w \in Users, Outlived(w)'
  PROVE  Outlived(w)
<1>1. rows' = rows
  BY DEF CreatePolicy, RenamePolicy, RetirePolicy, ReopenPolicy, SetDefault, DeletePolicy,
         EditCatalogue
<1>2. PICK i \in Live(rows[w]) : Outlives(rows[w][i], policies'[rows[w][i].policy])
  BY <1>1 DEF Outlived
<1> DEFINE q == rows[w][i].policy
<1>3. i \in DOMAIN rows[w] /\ q \in DOMAIN policies /\ rows[w][i] \in Membership(DOMAIN policies)
  <2>1. i \in DOMAIN rows[w]
    BY DEF Live
  <2>2. rows[w][i] \in Membership(DOMAIN policies)
    BY <2>1 DEF Types, Kept
  <2> QED BY <2>1, <2>2 DEF Membership
<1>4. policies'[q].to \in {policies[q].to, NoDate} \/ \E date \in Nat : RetirePolicy(p, date) /\ q = p
  <2>1. ASSUME NEW offer \in Offers, CreatePolicy(p, offer) PROVE policies'[q].to = policies[q].to
    BY <1>3, <2>1 DEF CreatePolicy, EditCatalogue, Added
  <2>2. ASSUME NEW stem \in Typed, RenamePolicy(p, stem) PROVE policies'[q].to = policies[q].to
    BY <1>3, <2>2 DEF RenamePolicy, EditCatalogue, Types, IsCatalogue, Policy
  <2>3. ASSUME NEW date \in FirstDay..(LastDay + 1), RetirePolicy(p, date)
        PROVE  date \in Nat /\ (q # p => policies'[q].to = policies[q].to)
    BY <1>3, <2>3, CatalogueAssumption DEF RetirePolicy, EditCatalogue
  <2>4. ASSUME ReopenPolicy(p) PROVE policies'[q].to \in {policies[q].to, NoDate}
    BY <1>3, <2>4 DEF ReopenPolicy, EditCatalogue, Types, IsCatalogue, Policy
  <2>5. ASSUME SetDefault(p) PROVE policies'[q].to = policies[q].to
    BY <2>5 DEF SetDefault, EditCatalogue
  <2>6. ASSUME DeletePolicy(p) PROVE policies'[q].to = policies[q].to
    BY <1>3, <2>6 DEF DeletePolicy, EditCatalogue
  <2> HIDE DEF q
  <2> QED BY <2>1, <2>2, <2>3, <2>4, <2>5, <2>6
<1>5. policies'[q].to # NoDate
  BY <1>2 DEF Outlives
<1>6. CASE policies'[q].to = policies[q].to
  BY <1>2, <1>6 DEF Outlived, Outlives
<1>7. ASSUME NEW date \in Nat, RetirePolicy(p, date), q = p PROVE FALSE
  <2>1. ~Blocked(p, date) /\ policies'[p].to = date
    BY <1>3, <1>7 DEF RetirePolicy, EditCatalogue, Types, IsCatalogue, Policy
  <2>2. rows[w][i].to # NoDate /\ ~(rows[w][i].to > date)
    BY <1>7, <2>1 DEF Blocked
  <2> QED BY <1>2, <1>7, <2>1, <2>2 DEF Outlives
<1> QED BY <1>4, <1>5, <1>6, <1>7

LEMMA TransferOutlives ==
  ASSUME Inv, Types, Types', NEW u \in Users, NEW p, NEW date \in Nat, NEW mode,
         Transfer(u, p, date, mode), NEW w \in Users, Outlived(w)'
  PROVE  Outlived(w)
<1> DEFINE t == rows[u]
           s == IF mode = "retroactive" THEN Rewritten(t, p, EarliestTransfer(u))
                ELSE Appended(t, p, date)
<1>1. /\ p \in DOMAIN policies /\ policies[p].to = NoDate /\ policies' = policies
      /\ rows' = [rows EXCEPT ![u] = s]
  BY DEF Transfer, EditMemberships, Retired
<1>2. /\ EarliestTransfer(u) \in Dates /\ date \in Dates /\ Sound(t, Today(u))
      /\ Today(u) \in Int /\ Table(t)
  BY Days DEF Dates, Sound
<1>3. Kept(t, DOMAIN policies)
  BY DEF Types
<1>4. OnlyJoins(t, s, p)
  BY <1>2, <1>3, RewrittenJoins, AppendedJoins
<1> HIDE DEF s
<1> QED BY <1>1, <1>4, JoiningOutlivesNothing

LEMMA ImportOutlives ==
  ASSUME Inv, Types, Types', NEW u \in Users, NEW row \in Imports,
         NEW chosen \in Typed \cup {NoName}, NEW mode,
         ImportEmployee(u, row, chosen, mode), NEW w \in Users, Outlived(w)'
  PROVE  Outlived(w)
<1> DEFINE joined == Joined(policies, row)
<1>1. row \in FileRows(Users) /\ row.hire \in Dates
  BY CatalogueAssumption DEF FileRows, Dates
<1>2. joined \in DOMAIN policies \cup {NoPolicy}
  BY JoinedIsThere, CatalogueIsListing DEF Types
<1>3. PICK p :
        /\ p \in DOMAIN policies' /\ policies'[p].to = NoDate
        /\ DOMAIN policies \subseteq DOMAIN policies'
        /\ \A q \in DOMAIN policies : policies'[q].to = policies[q].to
        /\ OneOpenRow(Assigned(rows[u], p, row.hire, mode))
        /\ rows' = [rows EXCEPT ![u] = Assigned(rows[u], p, row.hire, mode)]
  <2>1. CASE joined # NoPolicy
    <3>1. /\ policies' = Backdated(policies, joined, row.hire) /\ policies[joined].to = NoDate
          /\ OneOpenRow(Assigned(rows[u], joined, row.hire, mode))
          /\ rows' = [rows EXCEPT ![u] = Assigned(rows[u], joined, row.hire, mode)]
      BY <2>1 DEF ImportEmployee, EditMemberships, Retired
    <3> HIDE DEF joined
    <3>2. /\ DOMAIN policies' = DOMAIN policies
          /\ \A q \in DOMAIN policies : policies'[q].to = policies[q].to
      BY <3>1, <1>2, <2>1 DEF Backdated, IsCatalogue, Policy, Types
    <3> QED BY <1>2, <2>1, <3>1, <3>2
  <2>2. CASE joined = NoPolicy
    <3>1. PICK p \in PolicyIds \ DOMAIN policies :
            /\ policies' = Added(policies, p, Minted(policies, row, chosen))
            /\ OneOpenRow(Assigned(rows[u], p, row.hire, mode))
            /\ rows' = [rows EXCEPT ![u] = Assigned(rows[u], p, row.hire, mode)]
      BY <2>2 DEF ImportEmployee, EditMemberships
    <3>2. Minted(policies, row, chosen) \in Policy /\ Minted(policies, row, chosen).to = NoDate
      BY <1>1, MintedIsPolicy, CatalogueIsListing DEF Types, Stems
    <3>3. /\ DOMAIN policies' = DOMAIN policies \cup {p}
          /\ policies'[p] = Minted(policies, row, chosen)
          /\ \A q \in DOMAIN policies \ {p} : policies'[q] = policies[q]
      BY <3>1, <3>2, AddedIsCatalogue DEF Types
    <3> QED BY <3>1, <3>2, <3>3
  <2> QED BY <2>1, <2>2
<1>4. Sound(rows[u], Today(u)) /\ Today(u) \in Int /\ Kept(rows[u], DOMAIN policies)
  BY Days DEF Types
<1>5. OnlyJoins(rows[u], Assigned(rows[u], p, row.hire, mode), p)
  BY <1>1, <1>3, <1>4, AssignedJoins
<1> QED BY <1>3, <1>5, JoiningOutlivesNothing

LEMMA ProvisionOutlives ==
  ASSUME Inv, Types, Types', NEW u \in Users, NEW hire, Provision(u, hire),
         NEW w \in Users, Outlived(w)'
  PROVE  Outlived(w) \/ joining[w] \notin {NoPolicy, default}
<1>1. /\ joining[u] # NoPolicy /\ policies' = policies
      /\ u \in DOMAIN rows /\ DOMAIN rows[u] = {} /\ now \in Dates
  BY Days DEF Provision, Inv, Dates
<1>2. CASE joining[u] \notin DOMAIN policies
  <2>1. rows' = rows
    BY <1>2 DEF Provision
  <2> QED BY <1>1, <2>1 DEF Outlived
<1>3. CASE joining[u] \in DOMAIN policies /\ w # u
  <2>1. rows'[w] = rows[w]
    BY <1>3 DEF Provision, Inv
  <2> QED BY <1>1, <2>1 DEF Outlived
<1>4. CASE joining[u] \in DOMAIN policies /\ w = u
  <2> DEFINE p == joining[u]
             r == [policy |-> p, from |-> now, to |-> NoDate, by |-> NoRow, auto |-> TRUE]
  <2>1. rows'[w] = Inserted(rows[u], r)
    BY <1>1, <1>4 DEF Provision, Enrolled
  <2>2. PICK i \in Live(rows'[w]) : Outlives(rows'[w][i], policies[rows'[w][i].policy])
    BY <1>1 DEF Outlived
  <2>3. rows'[w][i] = r
    BY <1>1, <2>1, <2>2 DEF Inserted, Live
  <2>4. policies[p].to # NoDate
    BY <2>2, <2>3 DEF Outlives
  <2>5. p # default
    BY <2>4 DEF Types
  <2> QED BY <1>1, <1>4, <2>5
<1> QED BY <1>2, <1>3, <1>4

\* A cancellation touches no other account.
LEMMA CancelOutlives ==
  ASSUME Inv, Types, NEW u \in Users, CancelTransfer(u), NEW w \in Users, w # u, Outlived(w)'
  PROVE  Outlived(w)
<1>1. policies' = policies /\ \E t : rows' = [rows EXCEPT ![u] = t]
  BY DEF CancelTransfer, EditMemberships
<1>2. rows'[w] = rows[w]
  BY <1>1
<1> QED BY <1>1, <1>2 DEF Outlived

\* A membership comes to outlive its policy in two ways only: a cancelled
\* transfer reopens it after the policy was retired, or a provisioning joins a
\* default it has read before another took its place (updatePolicy,
\* planPolicyTransferTx, assignHistoricalMembershipTx, upsertUserTx).
THEOREM PoliciesAreOutlivedByReopening == Spec => OutlivedOnlyByReopening
<1>1. Init => Inv /\ Types
  BY InitialInv, InitialTypes
<1>2. Inv /\ Types /\ [Next]_vars => (Inv /\ Types)'
  BY InvIsInductive, TypesAreKept
<1>3. Inv /\ Types /\ [Next]_vars
        => [\A u \in Users :
              Outlived(u)' /\ ~Outlived(u) =>
                CancelTransfer(u) \/ joining[u] \notin {NoPolicy, default}]_vars
  <2> SUFFICES ASSUME Inv, Types, Next, NEW w \in Users, Outlived(w)', ~Outlived(w)
               PROVE  CancelTransfer(w) \/ joining[w] \notin {NoPolicy, default}
    OBVIOUS
  <2>1. Types'
    BY TypesAreKept
  <2>2. ASSUME rows' = rows, policies' = policies PROVE FALSE
    BY <2>2 DEF Outlived
  <2>3. ASSUME Tick PROVE FALSE
    BY <2>2, <2>3 DEF Tick
  <2>4. ASSUME NEW u \in Users, ReadDefault(u) PROVE FALSE
    BY <2>2, <2>4 DEF ReadDefault
  <2>5. ASSUME NEW u \in Users, NEW hire \in Hires, SetStartDate(u, hire) PROVE FALSE
    BY <2>2, <2>5 DEF SetStartDate
  <2>6. ASSUME NEW u \in Users, NEW p \in PolicyIds, NEW date \in 0..(LastDay + 2), NEW mode,
               Transfer(u, p, date, mode)
        PROVE  FALSE
    <3>1. date \in Nat
      BY CatalogueAssumption
    <3> QED BY <2>1, <2>6, <3>1, TransferOutlives
  <2>7. ASSUME NEW u \in Users, NEW row \in Imports, NEW chosen \in Typed \cup {NoName},
               NEW mode, ImportEmployee(u, row, chosen, mode)
        PROVE  FALSE
    BY <2>1, <2>7, ImportOutlives
  <2>8. ASSUME NEW u \in Users, NEW hire, Provision(u, hire)
        PROVE  joining[w] \notin {NoPolicy, default}
    BY <2>1, <2>8, ProvisionOutlives
  <2>9. ASSUME NEW u \in Users, CancelTransfer(u) PROVE CancelTransfer(w)
    BY <2>9, CancelOutlives
  <2>10. ASSUME NEW p \in PolicyIds,
                \/ \E offer \in Offers : CreatePolicy(p, offer)
                \/ \E stem \in Typed : RenamePolicy(p, stem)
                \/ \E date \in FirstDay..(LastDay + 1) : RetirePolicy(p, date)
                \/ ReopenPolicy(p) \/ SetDefault(p) \/ DeletePolicy(p)
         PROVE  FALSE
    BY <2>10, CatalogueOutlives
  <2> QED BY <2>3, <2>4, <2>5, <2>6, <2>7, <2>8, <2>9, <2>10 DEF Next
<1> QED BY <1>1, <1>2, <1>3, PTL DEF Spec, OutlivedOnlyByReopening

-----------------------------------------------------------------------------
(* The report of an import file and the run that carries it out: two walks   *)
(* over the same rows, compared stage by stage.                              *)

Listings ==
  UNION {[D -> Policy] : D \in {S \in SUBSET (Nat \ {NoPolicy}) : IsFiniteSet(S)}}

Walks == [policies : Listings, lands : Seq(Nat), fixed : SUBSET Nat]

LEMMA ListingsAre == \A c : c \in Listings <=> IsListing(c)
<1>1. ASSUME NEW c, c \in Listings PROVE IsListing(c)
  <2>1. PICK D \in {S \in SUBSET (Nat \ {NoPolicy}) : IsFiniteSet(S)} : c \in [D -> Policy]
    BY <1>1 DEF Listings
  <2>2. DOMAIN c = D
    BY <2>1
  <2> QED BY <2>1, <2>2 DEF IsListing
<1>2. ASSUME NEW c, IsListing(c) PROVE c \in Listings
  <2>1. DOMAIN c \in {S \in SUBSET (Nat \ {NoPolicy}) : IsFiniteSet(S)}
    BY <1>2 DEF IsListing
  <2>2. c \in [DOMAIN c -> Policy]
    BY <1>2 DEF IsListing
  <2> QED BY <2>1, <2>2 DEF Listings
<1> QED BY <1>1, <1>2

LEMMA NextIdIsNew ==
  ASSUME NEW catalogue, IsListing(catalogue)
  PROVE  NextId(catalogue) \in Nat \ {NoPolicy} /\ NextId(catalogue) \notin DOMAIN catalogue
<1> DEFINE S == DOMAIN catalogue \cup PolicyIds
<1>1. IsFiniteSet(S) /\ S # {} /\ S \subseteq Nat
  BY ResolutionAssumption, FS_Union DEF IsListing
<1>2. Max(S) \in S /\ \A p \in S : p <= Max(S)
  <2> HIDE DEF S
  <2> QED BY <1>1, MaxIn
<1>3. Max(S) \in Nat /\ Max(S) + 1 \notin S
  <2>1. Max(S) \in Nat
    BY <1>1, <1>2
  <2>2. ~(Max(S) + 1 <= Max(S))
    BY <2>1
  <2> QED BY <1>2, <2>1, <2>2
<1>4. NextId(catalogue) = Max(S) + 1
  BY DEF NextId
<1>5. Max(S) + 1 \in Nat \ {NoPolicy}
  BY <1>3 DEF NoPolicy
<1>6. Max(S) + 1 \notin DOMAIN catalogue
  BY <1>3
<1> QED BY <1>4, <1>5, <1>6

LEMMA AddedIsListing ==
  ASSUME NEW catalogue, IsListing(catalogue), NEW p \in Nat \ {NoPolicy}, NEW policy \in Policy
  PROVE  LET c == Added(catalogue, p, policy)
         IN  /\ IsListing(c) /\ DOMAIN c = DOMAIN catalogue \cup {p}
             /\ c[p] = policy
             /\ \A q \in DOMAIN catalogue \ {p} : c[q] = catalogue[q]
<1>1. IsFiniteSet(DOMAIN catalogue \cup {p})
  BY FS_AddElement DEF IsListing
<1> QED BY <1>1 DEF Added, IsListing

\* Where a row lands, in either walk.
Landing(catalogue, row) ==
  IF Joined(catalogue, row) # NoPolicy THEN Joined(catalogue, row) ELSE NextId(catalogue)

\* The catalogue with what the row may have to mint.
Grown(catalogue, row, chosen) ==
  IF Joined(catalogue, row) # NoPolicy THEN catalogue
  ELSE Added(catalogue, NextId(catalogue), Minted(catalogue, row, chosen))

LEMMA GrownIsListing ==
  ASSUME NEW catalogue, IsListing(catalogue), NEW row \in FileRows(Users),
         NEW chosen \in Stems \cup {NoName}
  PROVE  LET c == Grown(catalogue, row, chosen)
         IN  /\ IsListing(c) /\ DOMAIN c = DOMAIN catalogue \cup {Landing(catalogue, row)}
             /\ Landing(catalogue, row) \in Nat \ {NoPolicy}
             /\ \A q \in DOMAIN catalogue : c[q] = catalogue[q]
             /\ Joined(catalogue, row) = NoPolicy =>
                  /\ c[Landing(catalogue, row)] = Minted(catalogue, row, chosen)
                  /\ Landing(catalogue, row) \notin DOMAIN catalogue
<1>1. Joined(catalogue, row) \in DOMAIN catalogue \cup {NoPolicy}
  BY JoinedIsThere
<1>2. CASE Joined(catalogue, row) # NoPolicy
  BY <1>1, <1>2 DEF Grown, Landing, IsListing
<1>3. CASE Joined(catalogue, row) = NoPolicy
  <2> DEFINE p == NextId(catalogue)
             m == Minted(catalogue, row, chosen)
             c == Added(catalogue, p, m)
  <2>1. p \in Nat \ {NoPolicy} /\ p \notin DOMAIN catalogue /\ m \in Policy
    BY NextIdIsNew, MintedIsPolicy
  <2>2. Grown(catalogue, row, chosen) = c /\ Landing(catalogue, row) = p
    BY <1>3 DEF Grown, Landing
  <2> HIDE DEF m, p
  <2>3. /\ IsListing(c) /\ DOMAIN c = DOMAIN catalogue \cup {p}
        /\ c[p] = m
        /\ \A q \in DOMAIN catalogue \ {p} : c[q] = catalogue[q]
    BY <2>1, AddedIsListing
  <2> HIDE DEF c
  <2> QED BY <2>1, <2>2, <2>3 DEF m
<1> QED BY <1>2, <1>3

LEMMA LandedWalk ==
  ASSUME NEW walk \in Walks, NEW p
  PROVE  Landed(walk, p) = [policies |-> walk.policies, lands |-> Append(walk.lands, p),
                            fixed |-> walk.fixed]
<1> DEFINE l == Append(walk.lands, p)
<1>1. Landed(walk, p) = [walk EXCEPT !.lands = l]
  BY DEF Landed
<1> HIDE DEF l
<1>2. Landed(walk, p) = [policies |-> walk.policies, lands |-> l, fixed |-> walk.fixed]
  BY <1>1 DEF Walks
<1> QED BY <1>2 DEF l

\* What the report makes of a row.
LEMMA PlannedRow ==
  ASSUME NEW walk \in Walks, NEW row \in FileRows(Users)
  PROVE  LET w == Planned(walk, row)
             p == Landing(walk.policies, row)
         IN  /\ w \in Walks
             /\ w.policies = Grown(walk.policies, row, NoName)
             /\ w.lands = Append(walk.lands, p)
             /\ walk.fixed \subseteq w.fixed
             /\ row.name # NoName /\ w.policies[p].name = <<row.name, 1>> => p \in w.fixed
<1> DEFINE w == Planned(walk, row)
           p == Landing(walk.policies, row)
<1>1. IsListing(walk.policies) /\ walk.lands \in Seq(Nat) /\ walk.fixed \subseteq Nat
  BY ListingsAre DEF Walks
<1>2. /\ IsListing(Grown(walk.policies, row, NoName)) /\ p \in Nat
  BY <1>1, GrownIsListing
<1>3. CASE Joined(walk.policies, row) # NoPolicy
  <2>1. w = Fixed(Landed(walk, p), row, p) /\ Grown(walk.policies, row, NoName) = walk.policies
    BY <1>3 DEF Planned, Landing, Grown
  <2> HIDE DEF w, p
  <2>2. Landed(walk, p) = [policies |-> walk.policies, lands |-> Append(walk.lands, p), fixed |-> walk.fixed]
    BY LandedWalk
  <2>3. w = [policies |-> walk.policies, lands |-> Append(walk.lands, p),
             fixed |-> IF row.name # NoName /\ walk.policies[p].name = <<row.name, 1>>
                       THEN walk.fixed \cup {p} ELSE walk.fixed]
    <3> DEFINE l == Landed(walk, p)
    <3>1. w = IF row.name # NoName /\ l.policies[p].name = <<row.name, 1>>
              THEN [l EXCEPT !.fixed = @ \cup {p}] ELSE l
      BY <2>1 DEF Fixed
    <3> HIDE DEF l
    <3>2. l = [policies |-> walk.policies, lands |-> Append(walk.lands, p), fixed |-> walk.fixed]
      BY <2>2 DEF l
    <3> QED BY <3>1, <3>2
  <2>4. Append(walk.lands, p) \in Seq(Nat) /\ p \in Nat
    BY <1>1, <1>2 DEF p
  <2>5. w \in Walks
    BY <1>1, <2>3, <2>4, ListingsAre DEF Walks
  <2> QED BY <2>1, <2>3, <2>5 DEF w, p
<1>4. CASE Joined(walk.policies, row) = NoPolicy
  <2> DEFINE c == Grown(walk.policies, row, NoName)
  <2>1. /\ c = Added(walk.policies, NextId(walk.policies), Minted(walk.policies, row, NoName))
        /\ p = NextId(walk.policies)
    BY <1>4 DEF Landing, Grown
  <2>2. /\ row.name = NoName => w = Landed([walk EXCEPT !.policies = c], p)
        /\ row.name # NoName => w = [Landed([walk EXCEPT !.policies = c], p) EXCEPT !.fixed = @ \cup {p}]
    BY <1>4, <2>1 DEF Planned
  <2> HIDE DEF w, p, c
  <2>3. w = [policies |-> c, lands |-> Append(walk.lands, p),
             fixed |-> IF row.name # NoName THEN walk.fixed \cup {p} ELSE walk.fixed]
    BY <2>2 DEF Landed, Walks
  <2> QED BY <1>1, <1>2, <2>3, ListingsAre DEF Walks, w, p, c
<1> QED BY <1>3, <1>4

\* What the run makes of a row: where the policy is retired it does nothing.
LEMMA AppliedRow ==
  ASSUME NEW walk \in Walks, NEW row \in FileRows(Users), NEW chosen \in Stems \cup {NoName}
  PROVE  LET w == Applied(walk, row, chosen)
             c == Grown(walk.policies, row, chosen)
             p == Landing(walk.policies, row)
         IN  /\ w \in Walks
             /\ DOMAIN w.policies = DOMAIN c
             /\ \A q \in DOMAIN c : /\ w.policies[q].name = c[q].name
                                    /\ w.policies[q].terms = c[q].terms
                                    /\ w.policies[q].to = c[q].to
             /\ w.lands = Append(walk.lands, IF c[p].to # NoDate THEN NoPolicy ELSE p)
<1> DEFINE w == Applied(walk, row, chosen)
           c == Grown(walk.policies, row, chosen)
           p == Landing(walk.policies, row)
<1>1. IsListing(walk.policies) /\ walk.lands \in Seq(Nat) /\ walk.fixed \subseteq Nat
  BY ListingsAre DEF Walks
<1>2. /\ IsListing(c) /\ p \in Nat \ {NoPolicy} /\ p \in DOMAIN c
      /\ Joined(walk.policies, row) = NoPolicy => c[p] = Minted(walk.policies, row, chosen)
  <2>1. /\ IsListing(c) /\ DOMAIN c = DOMAIN walk.policies \cup {p}
        /\ p \in Nat \ {NoPolicy}
        /\ Joined(walk.policies, row) = NoPolicy => c[p] = Minted(walk.policies, row, chosen)
    BY <1>1, GrownIsListing
  <2> HIDE DEF c, p
  <2> QED BY <2>1
<1>3. CASE Joined(walk.policies, row) = NoPolicy
  <2>1. /\ c = Added(walk.policies, NextId(walk.policies), Minted(walk.policies, row, chosen))
        /\ p = NextId(walk.policies)
    BY <1>3 DEF Landing, Grown
  <2>2. w = Landed([walk EXCEPT !.policies = c], p)
    BY <1>3, <2>1 DEF Applied
  <2>3. c[p].to = NoDate
    BY <1>1, <1>2, <1>3, MintedIsPolicy
  <2> HIDE DEF w, p, c
  <2>4. w = [policies |-> c, lands |-> Append(walk.lands, p), fixed |-> walk.fixed]
    BY <2>2 DEF Landed, Walks
  <2> QED BY <1>1, <1>2, <2>3, <2>4, ListingsAre DEF Walks, w, p, c
<1>4. CASE Joined(walk.policies, row) # NoPolicy
  <2>1. c = walk.policies /\ p = Joined(walk.policies, row)
    BY <1>4 DEF Landing, Grown
  <2>2. w = IF c[p].to # NoDate THEN Landed(walk, NoPolicy)
            ELSE Landed([walk EXCEPT !.policies = Backdated(@, p, row.hire)], p)
    BY <1>4, <2>1 DEF Applied, Retired
  <2> HIDE DEF w, p, c
  <2>3. CASE c[p].to # NoDate
    <3>1. w = [policies |-> c, lands |-> Append(walk.lands, NoPolicy), fixed |-> walk.fixed]
      BY <2>1, <2>2, <2>3 DEF Landed, Walks
    <3>2. NoPolicy \in Nat
      BY DEF NoPolicy
    <3> QED BY <1>1, <1>2, <2>3, <3>1, <3>2, ListingsAre DEF Walks, w, p, c
  <2>4. CASE c[p].to = NoDate
    <3> DEFINE b == Backdated(c, p, row.hire)
    <3>1. row.hire \in Nat
      BY DEF FileRows
    <3>2. /\ IsListing(b) /\ DOMAIN b = DOMAIN c
          /\ \A q \in DOMAIN c : b[q].name = c[q].name /\ b[q].terms = c[q].terms /\ b[q].to = c[q].to
      BY <1>2, <3>1 DEF Backdated, IsListing, Policy
    <3>3. w = [policies |-> b, lands |-> Append(walk.lands, p), fixed |-> walk.fixed]
      BY <2>1, <2>2, <2>4 DEF Landed, Walks
    <3> HIDE DEF b
    <3> QED BY <1>1, <1>2, <2>4, <3>2, <3>3, ListingsAre DEF Walks, w, p, c
  <2> QED BY <2>3, <2>4
<1> QED BY <1>3, <1>4

\* firstFreePolicyName: the bare stem, unless it is taken.
LEMMA FirstFreeIsBare ==
  ASSUME NEW stem \in Stems, NEW taken, IsFiniteSet(taken)
  PROVE  /\ FirstFree(stem, taken) \in Names \ taken
         /\ FirstFree(stem, taken)[1] = stem
         /\ FirstFree(stem, taken) = <<stem, 1>> <=> <<stem, 1>> \notin taken
<1> DEFINE S == {n \in 1..(Cardinality(taken) + 1) : <<stem, n>> \notin taken}
<1>1. FirstFree(stem, taken) = <<stem, Min(S)>>
  BY DEF FirstFree
<1>2. FirstFree(stem, taken) \in Names \ taken
  BY FirstFreeIsName
<1>3. ASSUME <<stem, 1>> \notin taken PROVE Min(S) = 1
  <2>1. Cardinality(taken) \in Nat
    BY FS_CardinalityType
  <2>2. 1 \in S /\ S \subseteq Int /\ \A n \in S : 1 <= n
    BY <1>3, <2>1
  <2> HIDE DEF S
  <2> QED BY <2>2, MinIs
<1> HIDE DEF S
<1> QED BY <1>1, <1>2, <1>3

\* What a later stage of the report has kept of an earlier one.
Grows(w, v) ==
  /\ DOMAIN w.policies \subseteq DOMAIN v.policies
  /\ \A p \in DOMAIN w.policies : v.policies[p] = w.policies[p]
  /\ w.fixed \subseteq v.fixed
  /\ Len(w.lands) <= Len(v.lands)
  /\ \A i \in 1..Len(w.lands) : v.lands[i] = w.lands[i]

\* No other policy is called like p.
OwnName(w, p) ==
  /\ p \in DOMAIN w.policies
  /\ \A q \in DOMAIN w.policies \ {p} : w.policies[q].name # w.policies[p].name

StemOf(row, chosen) ==
  IF row.name # NoName THEN row.name ELSE IF chosen # NoName THEN chosen ELSE row.terms

LEMMA MintedName ==
  ASSUME NEW catalogue, IsListing(catalogue), NEW row \in FileRows(Users),
         NEW chosen \in Stems \cup {NoName}
  PROVE  LET m == Minted(catalogue, row, chosen)
             stem == StemOf(row, chosen)
         IN  /\ stem \in Stems /\ m.terms = row.terms /\ m.to = NoDate
             /\ m.name = FirstFree(stem, Taken(catalogue))
             /\ m.name \notin Taken(catalogue) /\ m.name[1] = stem
             /\ m.name = <<stem, 1>> <=> <<stem, 1>> \notin Taken(catalogue)
<1> DEFINE m == Minted(catalogue, row, chosen)
           stem == StemOf(row, chosen)
<1>1. row.name \in Stems \cup {NoName} /\ row.terms \in Stems
  BY DEF FileRows, Stems
<1>2. stem \in Stems
  BY <1>1 DEF StemOf
<1>3. m = [name |-> FirstFree(stem, Taken(catalogue)), terms |-> row.terms,
           from |-> row.hire, to |-> NoDate]
  BY DEF Minted, StemOf
<1> HIDE DEF m, stem
<1>4. IsFiniteSet(Taken(catalogue))
  BY TakenIsFinite
<1>5. /\ m.name = FirstFree(stem, Taken(catalogue))
      /\ m.name \notin Taken(catalogue) /\ m.name[1] = stem
      /\ m.name = <<stem, 1>> <=> <<stem, 1>> \notin Taken(catalogue)
  BY <1>2, <1>3, <1>4, FirstFreeIsBare
<1>6. m.terms = row.terms /\ m.to = NoDate
  BY <1>3
<1> QED BY <1>2, <1>5, <1>6 DEF m, stem

LEMMA PlannedGrows ==
  ASSUME NEW w \in Walks, NEW row \in FileRows(Users)
  PROVE  /\ Grows(w, Planned(w, row))
         /\ Len(Planned(w, row).lands) = Len(w.lands) + 1
         /\ \A p \in DOMAIN w.policies : OwnName(w, p) => OwnName(Planned(w, row), p)
         /\ Joined(w.policies, row) = NoPolicy =>
              OwnName(Planned(w, row), Landing(w.policies, row))
<1> DEFINE v == Planned(w, row)
           c == Grown(w.policies, row, NoName)
           p == Landing(w.policies, row)
           m == Minted(w.policies, row, NoName)
<1>1. IsListing(w.policies) /\ w.lands \in Seq(Nat)
  BY ListingsAre DEF Walks
<1>2. /\ v.policies = c /\ v.lands = Append(w.lands, p) /\ w.fixed \subseteq v.fixed
  BY PlannedRow
<1>3. /\ DOMAIN c = DOMAIN w.policies \cup {p}
      /\ \A q \in DOMAIN w.policies : c[q] = w.policies[q]
      /\ Joined(w.policies, row) = NoPolicy => c[p] = m /\ p \notin DOMAIN w.policies
  BY <1>1, GrownIsListing
<1>4. m.name \notin Taken(w.policies)
  BY <1>1, MintedName
<1>5. \A q \in DOMAIN w.policies : w.policies[q].name # m.name
  BY <1>4 DEF Taken
<1>6. Joined(w.policies, row) # NoPolicy => c = w.policies
  BY DEF Grown
<1> HIDE DEF v, c, p, m
<1>7. Grows(w, v) /\ Len(v.lands) = Len(w.lands) + 1
  BY <1>1, <1>2, <1>3 DEF Grows
<1>8. ASSUME NEW q \in DOMAIN w.policies, OwnName(w, q) PROVE OwnName(v, q)
  BY <1>2, <1>3, <1>5, <1>6, <1>8 DEF OwnName
<1>9. ASSUME Joined(w.policies, row) = NoPolicy PROVE OwnName(v, p)
  BY <1>2, <1>3, <1>5, <1>9 DEF OwnName
<1> QED BY <1>7, <1>8, <1>9 DEF v, p

LEMMA GrowthIsTransitive ==
  ASSUME NEW u, NEW v, NEW w, Grows(u, v), Grows(v, w),
         u.lands \in Seq(Nat), v.lands \in Seq(Nat), w.lands \in Seq(Nat)
  PROVE  Grows(u, w)
<1>1. Len(u.lands) \in Nat /\ Len(v.lands) \in Nat /\ Len(w.lands) \in Nat
  OBVIOUS
<1>2. \A i \in 1..Len(u.lands) : i \in 1..Len(v.lands)
  BY <1>1 DEF Grows
<1> QED BY <1>1, <1>2 DEF Grows

\* The walks h[i] of the report after the first i rows.
PlanStages(h, catalogue, file) ==
  /\ h \in [0..Len(file) -> Walks]
  /\ h[0] = Start(catalogue)
  /\ \A i \in 1..Len(file) : h[i] = Planned(h[i - 1], file[i])
  /\ h[Len(file)] = Plan(catalogue, file)

\* ... and of the run.
RunStages(h, catalogue, file, plan, chosen) ==
  /\ h \in [0..Len(file) -> Walks]
  /\ h[0] = Start(catalogue)
  /\ \A i \in 1..Len(file) : h[i] = Applied(h[i - 1], file[i], ChosenFor(plan, chosen, i))
  /\ h[Len(file)] = CarriedOut(catalogue, file, plan, chosen)

LEMMA StartIsWalk ==
  ASSUME NEW catalogue, IsListing(catalogue)
  PROVE  Start(catalogue) \in Walks
  BY ListingsAre DEF Start, Walks

LEMMA PlanByStages ==
  ASSUME NEW catalogue, IsListing(catalogue), NEW file \in Seq(FileRows(Users))
  PROVE  \E h : PlanStages(h, catalogue, file)
<1> DEFINE n == Len(file)
           e == Start(catalogue)
           G == [i \in 1..n |-> [w \in Walks |-> Planned(w, file[i])]]
           iter == CHOOSE iter : iter = [t \in SUBSET (1..n) |->
                     IF t = {} THEN e ELSE Planned(iter[t \ {Max(t)}], file[Max(t)])]
           h == [i \in 0..n |-> iter[1..i]]
<1>1. n \in Nat /\ DOMAIN file = 1..n /\ \A i \in 1..n : file[i] \in FileRows(Users)
  OBVIOUS
<1>2. Plan(catalogue, file) = iter[1..n]
  BY <1>1 DEF Plan, FoldLeft, MapThenFoldSet
<1>3. \A t \in SUBSET (1..n) : t # {} => Max(t) \in 1..n /\ t \ {Max(t)} \in SUBSET (1..n)
  BY <1>1, LastOfSome
<1>4. G \in [1..n -> [Walks -> Walks]] /\ e \in Walks
  BY <1>1, PlannedRow, StartIsWalk
<1>5. PICK f : FoldOf(f, Walks, e, n, G)
  <2> HIDE DEF G, n, e
  <2> QED BY <1>1, <1>4, FoldIsDefined
<1>6. f = [t \in SUBSET (1..n) |->
             IF t = {} THEN e ELSE Planned(f[t \ {Max(t)}], file[Max(t)])]
  BY <1>3, <1>5 DEF FoldOf
<1>7. iter = [t \in SUBSET (1..n) |->
                IF t = {} THEN e ELSE Planned(iter[t \ {Max(t)}], file[Max(t)])]
  BY <1>6
<1>8. iter[1..0] = e
  <2>1. 1..0 = {} /\ {} \in SUBSET (1..n)
    OBVIOUS
  <2> HIDE DEF iter
  <2> QED BY <1>7, <2>1
<1>9. ASSUME NEW i \in 1..n
      PROVE  iter[1..i] = Planned(iter[1..(i - 1)], file[i])
  <2> HIDE DEF iter, n
  <2>1. /\ Max(1..i) = i /\ (1..i) \ {i} = 1..(i - 1)
        /\ 1..i \in SUBSET (1..n) /\ 1..i # {}
    BY <1>1, Prefix
  <2>2. iter[1..i] = IF 1..i = {} THEN e
                     ELSE Planned(iter[(1..i) \ {Max(1..i)}], file[Max(1..i)])
    BY <1>7, <2>1
  <2> QED BY <2>1, <2>2
<1>10. /\ h[0] = e /\ h[n] = iter[1..n]
       /\ \A i \in 1..n : h[i] = Planned(h[i - 1], file[i])
  <2>1. \A i \in 1..n : i - 1 \in 0..n /\ i \in 0..n
    BY <1>1
  <2>2. 0 \in 0..n /\ n \in 0..n
    BY <1>1
  <2> HIDE DEF iter, n
  <2> QED BY <1>8, <1>9, <2>1, <2>2
<1>11. \A i \in 0..n : h[i] \in Walks
  <2>1. ASSUME NEW i \in 1..n, h[i - 1] \in Walks PROVE h[i] \in Walks
    <3> HIDE DEF h, n, iter
    <3> QED BY <1>1, <1>10, <2>1, PlannedRow
  <2> HIDE DEF h, n, iter
  <2> QED BY <1>1, <1>4, <1>10, <2>1, StagesKeep
<1>12. h \in [0..n -> Walks]
  BY <1>11
<1>13. PlanStages(h, catalogue, file)
  <2> HIDE DEF h, iter
  <2> QED BY <1>2, <1>10, <1>12 DEF PlanStages
<1> HIDE DEF h
<1> QED BY <1>13

LEMMA RunByStages ==
  ASSUME NEW catalogue, IsListing(catalogue), NEW file \in Seq(FileRows(Users)),
         NEW plan, NEW chosen,
         \A i \in 1..Len(file) : ChosenFor(plan, chosen, i) \in Stems \cup {NoName}
  PROVE  \E h : RunStages(h, catalogue, file, plan, chosen)
<1> DEFINE n == Len(file)
           e == Start(catalogue)
           Step(w, i) == Applied(w, file[i], ChosenFor(plan, chosen, i))
           G == [i \in 1..n |-> [w \in Walks |-> Step(w, i)]]
           iter == CHOOSE iter : iter = [t \in SUBSET (1..n) |->
                     IF t = {} THEN e ELSE Step(iter[t \ {Max(t)}], [i \in 1..n |-> i][Max(t)])]
           h == [i \in 0..n |-> iter[1..i]]
<1>1. n \in Nat /\ DOMAIN file = 1..n /\ \A i \in 1..n : file[i] \in FileRows(Users)
  OBVIOUS
<1>2. CarriedOut(catalogue, file, plan, chosen) = iter[1..n]
  BY <1>1 DEF CarriedOut, FoldLeftDomain, FoldLeft, MapThenFoldSet
<1>3. \A t \in SUBSET (1..n) : t # {} => Max(t) \in 1..n /\ t \ {Max(t)} \in SUBSET (1..n)
  BY <1>1, LastOfSome
<1>4. G \in [1..n -> [Walks -> Walks]] /\ e \in Walks
  BY <1>1, AppliedRow, StartIsWalk
<1>5. PICK f : FoldOf(f, Walks, e, n, G)
  <2> HIDE DEF G, n, e
  <2> QED BY <1>1, <1>4, FoldIsDefined
<1>6. f = [t \in SUBSET (1..n) |->
             IF t = {} THEN e ELSE Step(f[t \ {Max(t)}], [i \in 1..n |-> i][Max(t)])]
  <2> HIDE DEF Step
  <2> QED BY <1>3, <1>5 DEF FoldOf
<1>7. iter = [t \in SUBSET (1..n) |->
                IF t = {} THEN e ELSE Step(iter[t \ {Max(t)}], [i \in 1..n |-> i][Max(t)])]
  <2> HIDE DEF Step
  <2> QED BY <1>6
<1>8. iter[1..0] = e
  <2>1. 1..0 = {} /\ {} \in SUBSET (1..n)
    OBVIOUS
  <2> HIDE DEF iter
  <2> QED BY <1>7, <2>1
<1>9. ASSUME NEW i \in 1..n
      PROVE  iter[1..i] = Step(iter[1..(i - 1)], i)
  <2> HIDE DEF iter, n, Step
  <2>1. /\ Max(1..i) = i /\ (1..i) \ {i} = 1..(i - 1)
        /\ 1..i \in SUBSET (1..n) /\ 1..i # {}
    BY <1>1, Prefix
  <2>2. iter[1..i] = IF 1..i = {} THEN e
                     ELSE Step(iter[(1..i) \ {Max(1..i)}], [j \in 1..n |-> j][Max(1..i)])
    BY <1>7, <2>1
  <2> QED BY <2>1, <2>2
<1>10. /\ h[0] = e /\ h[n] = iter[1..n]
       /\ \A i \in 1..n : h[i] = Step(h[i - 1], i)
  <2>1. \A i \in 1..n : i - 1 \in 0..n /\ i \in 0..n
    BY <1>1
  <2>2. 0 \in 0..n /\ n \in 0..n
    BY <1>1
  <2> HIDE DEF iter, n, Step
  <2> QED BY <1>8, <1>9, <2>1, <2>2
<1>11. \A i \in 0..n : h[i] \in Walks
  <2>1. ASSUME NEW i \in 1..n, h[i - 1] \in Walks PROVE h[i] \in Walks
    <3> HIDE DEF h, n, iter
    <3> QED BY <1>1, <1>10, <2>1, AppliedRow
  <2> HIDE DEF h, n, iter
  <2> QED BY <1>1, <1>4, <1>10, <2>1, StagesKeep
<1>12. h \in [0..n -> Walks]
  BY <1>11
<1>13. RunStages(h, catalogue, file, plan, chosen)
  <2> HIDE DEF h, iter
  <2> QED BY <1>2, <1>10, <1>12 DEF RunStages
<1> HIDE DEF h
<1> QED BY <1>13

\* The walks of the report and of the run agree but for windows opened
\* backwards, refusals, and the names of groups.  Of the names they agree on
\* those with which a row still to come may ask for a policy, and on all of
\* them if the operator types none.
Coupled(w, v, stems, untouched) ==
  /\ DOMAIN v.policies = DOMAIN w.policies
  /\ \A p \in DOMAIN w.policies :
       /\ v.policies[p].terms = w.policies[p].terms
       /\ v.policies[p].to = w.policies[p].to
       /\ \A s \in stems : v.policies[p].name = <<s, 1>> <=> w.policies[p].name = <<s, 1>>
       /\ untouched => v.policies[p].name = w.policies[p].name
  /\ Len(v.lands) = Len(w.lands)
  /\ \A i \in 1..Len(w.lands) :
       /\ w.lands[i] \in DOMAIN w.policies
       /\ v.lands[i] = IF w.policies[w.lands[i]].to # NoDate THEN NoPolicy ELSE w.lands[i]

\* What the choice of a policy depends on.
LEMMA FirstOfAgrees ==
  ASSUME NEW c, NEW b, NEW S, \A p \in S : b[p].to = c[p].to
  PROVE  FirstOf(b, S) = FirstOf(c, S)
<1>1. \A p, q \in S : Precedes(b, p, q) <=> Precedes(c, p, q)
  BY DEF Precedes
<1>2. \A p \in S : (\A q \in S \ {p} : Precedes(b, p, q)) <=> (\A q \in S \ {p} : Precedes(c, p, q))
  BY <1>1
<1> QED BY <1>2 DEF FirstOf

LEMMA JoinedAgrees ==
  ASSUME NEW c, NEW b, NEW row, DOMAIN b = DOMAIN c,
         \A p \in DOMAIN c : /\ b[p].terms = c[p].terms /\ b[p].to = c[p].to
                             /\ row.name # NoName =>
                                  (b[p].name = <<row.name, 1>> <=> c[p].name = <<row.name, 1>>)
  PROVE  Joined(b, row) = Joined(c, row) /\ NextId(b) = NextId(c)
<1>1. Named(b, row) = Named(c, row)
  BY DEF Named
<1>2. InForce(b, row) = InForce(c, row)
  BY DEF InForce, WithTerms, Retired
<1>3. StillCovering(b, row) = StillCovering(c, row)
  BY DEF StillCovering, WithTerms, Retired
<1>4. /\ Named(c, row) \subseteq DOMAIN c /\ InForce(c, row) \subseteq DOMAIN c
      /\ StillCovering(c, row) \subseteq DOMAIN c
  BY DEF Named, InForce, StillCovering, WithTerms
<1>5. \A S \in SUBSET DOMAIN c : FirstOf(b, S) = FirstOf(c, S)
  BY FirstOfAgrees
<1>6. NextId(b) = NextId(c)
  BY DEF NextId
<1> QED BY <1>1, <1>2, <1>3, <1>4, <1>5, <1>6 DEF Joined

LEMMA CoupledJoins ==
  ASSUME NEW w, NEW v, NEW stems, NEW untouched, Coupled(w, v, stems, untouched),
         NEW row, row.name \in stems \cup {NoName}
  PROVE  /\ Joined(v.policies, row) = Joined(w.policies, row)
         /\ Landing(v.policies, row) = Landing(w.policies, row)
<1>1. \A p \in DOMAIN w.policies :
        /\ v.policies[p].terms = w.policies[p].terms
        /\ v.policies[p].to = w.policies[p].to
        /\ row.name # NoName => (v.policies[p].name = <<row.name, 1>> <=>
                                 w.policies[p].name = <<row.name, 1>>)
  BY DEF Coupled
<1>2. DOMAIN v.policies = DOMAIN w.policies
  BY DEF Coupled
<1>3. Joined(v.policies, row) = Joined(w.policies, row) /\ NextId(v.policies) = NextId(w.policies)
  BY <1>1, <1>2, JoinedAgrees
<1> QED BY <1>3 DEF Landing

\* A row that mints nothing under a name of the operator's takes the same step
\* in both walks; nor does a typed name matter, when neither it nor the name
\* that it replaces is one that a row still to come states.
LEMMA StepKeepsCoupled ==
  ASSUME NEW w \in Walks, NEW v \in Walks, NEW stems, NEW untouched,
         Coupled(w, v, stems, untouched),
         NEW row \in FileRows(Users), row.name \in stems \cup {NoName},
         NEW chosen \in Stems \cup {NoName}, NEW coming, coming \subseteq stems,
         coming \subseteq Stems, stems \subseteq Stems, untouched => chosen = NoName,
         Joined(w.policies, row) = NoPolicy /\ row.name = NoName /\ chosen # NoName =>
           /\ chosen \notin coming
           /\ \A s \in coming : Minted(w.policies, row, NoName).name # <<s, 1>>
  PROVE  Coupled(Planned(w, row), Applied(v, row, chosen), coming, untouched)
<1> DEFINE w2 == Planned(w, row)
           v2 == Applied(v, row, chosen)
           c  == Grown(w.policies, row, NoName)
           b  == Grown(v.policies, row, chosen)
           p  == Landing(w.policies, row)
           m  == Minted(w.policies, row, NoName)
           l  == Minted(v.policies, row, chosen)
<1>1. /\ Joined(v.policies, row) = Joined(w.policies, row)
      /\ Landing(v.policies, row) = p
  BY CoupledJoins
<1>2. /\ IsListing(w.policies) /\ IsListing(v.policies)
      /\ w.lands \in Seq(Nat) /\ v.lands \in Seq(Nat)
  BY ListingsAre DEF Walks
<1>3. w2.policies = c /\ w2.lands = Append(w.lands, p)
  BY PlannedRow
<1>4. /\ DOMAIN v2.policies = DOMAIN b
      /\ \A q \in DOMAIN b : /\ v2.policies[q].name = b[q].name
                             /\ v2.policies[q].terms = b[q].terms
                             /\ v2.policies[q].to = b[q].to
      /\ v2.lands = Append(v.lands, IF b[p].to # NoDate THEN NoPolicy ELSE p)
  BY <1>1, AppliedRow
<1>5. /\ DOMAIN c = DOMAIN w.policies \cup {p} /\ p \in Nat
      /\ \A q \in DOMAIN w.policies : c[q] = w.policies[q]
      /\ Joined(w.policies, row) = NoPolicy => c[p] = m /\ p \notin DOMAIN w.policies
  BY <1>2, GrownIsListing
<1>6. /\ DOMAIN b = DOMAIN v.policies \cup {p}
      /\ \A q \in DOMAIN v.policies : b[q] = v.policies[q]
      /\ Joined(w.policies, row) = NoPolicy => b[p] = l
  <2>1. LET d == Grown(v.policies, row, chosen)
            q == Landing(v.policies, row)
        IN  /\ DOMAIN d = DOMAIN v.policies \cup {q}
            /\ \A r \in DOMAIN v.policies : d[r] = v.policies[r]
            /\ Joined(v.policies, row) = NoPolicy => d[q] = l
    BY <1>2, GrownIsListing
  <2> HIDE DEF l, p
  <2> QED BY <1>1, <2>1
<1>7. /\ DOMAIN v.policies = DOMAIN w.policies
      /\ Len(v.lands) = Len(w.lands)
  BY DEF Coupled
<1>8. DOMAIN b = DOMAIN c
  BY <1>5, <1>6, <1>7
<1>9. Joined(w.policies, row) # NoPolicy => p \in DOMAIN w.policies
  BY <1>2, JoinedIsThere DEF Landing
<1>10. ASSUME Joined(w.policies, row) = NoPolicy
       PROVE  /\ l.terms = m.terms /\ l.to = m.to
              /\ \A s \in coming : l.name = <<s, 1>> <=> m.name = <<s, 1>>
              /\ untouched => l.name = m.name
  <2> DEFINE stem == StemOf(row, NoName)
             told == StemOf(row, chosen)
  <2>1. /\ m.terms = row.terms /\ m.to = NoDate
        /\ m.name = FirstFree(stem, Taken(w.policies)) /\ m.name[1] = stem
        /\ m.name = <<stem, 1>> <=> <<stem, 1>> \notin Taken(w.policies)
    BY <1>2, MintedName
  <2>2. /\ l.terms = row.terms /\ l.to = NoDate
        /\ l.name = FirstFree(told, Taken(v.policies)) /\ l.name[1] = told
        /\ l.name = <<told, 1>> <=> <<told, 1>> \notin Taken(v.policies)
    BY <1>2, MintedName
  <2>3. untouched => told = stem /\ Taken(v.policies) = Taken(w.policies)
    BY DEF Coupled, Taken, StemOf
  <2>4. \A s \in stems : <<s, 1>> \in Taken(v.policies) <=> <<s, 1>> \in Taken(w.policies)
    BY <1>7 DEF Coupled, Taken
  <2>5. ASSUME NEW s \in coming PROVE l.name = <<s, 1>> <=> m.name = <<s, 1>>
    <3>1. CASE row.name = NoName /\ chosen # NoName
      <4>1. told = chosen /\ chosen # s /\ m.name # <<s, 1>>
        BY <1>10, <3>1 DEF StemOf
      <4>2. <<s, 1>>[1] = s
        OBVIOUS
      <4> HIDE DEF l, m, told
      <4>3. l.name # <<s, 1>>
        BY <4>1, <4>2, <2>2
      <4> QED BY <4>1, <4>3
    <3>2. CASE ~(row.name = NoName /\ chosen # NoName)
      <4>1. told = stem
        BY <3>2 DEF StemOf
      <4>2. <<s, 1>>[1] = s
        OBVIOUS
      <4> HIDE DEF l, m, told, stem
      <4>3. CASE stem # s
        BY <4>1, <4>2, <4>3, <2>1, <2>2
      <4>4. CASE stem = s
        BY <4>1, <4>4, <2>1, <2>2, <2>4
      <4> QED BY <4>3, <4>4
    <3> QED BY <3>1, <3>2
  <2>6. untouched => l.name = m.name
    <3> HIDE DEF l, m, told, stem
    <3> QED BY <2>1, <2>2, <2>3
  <2> HIDE DEF l, m, told, stem
  <2> QED BY <2>1, <2>2, <2>5, <2>6
<1> HIDE DEF w2, v2, c, b, p, m, l
<1>11. ASSUME NEW q \in DOMAIN c
       PROVE  /\ b[q].terms = c[q].terms /\ b[q].to = c[q].to
              /\ \A s \in coming : b[q].name = <<s, 1>> <=> c[q].name = <<s, 1>>
              /\ untouched => b[q].name = c[q].name
  <2>1. CASE q \in DOMAIN w.policies
    BY <2>1, <1>5, <1>6, <1>7 DEF Coupled
  <2>2. CASE q \notin DOMAIN w.policies
    <3>1. q = p /\ Joined(w.policies, row) = NoPolicy
      BY <2>2, <1>5, <1>9
    <3>2. b[q] = l /\ c[q] = m
      BY <3>1, <1>5, <1>6
    <3> QED BY <3>1, <3>2, <1>10
  <2> QED BY <2>1, <2>2
<1>12. ASSUME NEW i \in 1..Len(w2.lands)
       PROVE  /\ w2.lands[i] \in DOMAIN c
              /\ v2.lands[i] = IF c[w2.lands[i]].to # NoDate THEN NoPolicy ELSE w2.lands[i]
  <2> DEFINE n == Len(w.lands)
             x == IF b[p].to # NoDate THEN NoPolicy ELSE p
  <2>1. n \in Nat /\ Len(v.lands) = n
    BY <1>2, <1>7
  <2>2. /\ w2.lands[n + 1] = p /\ \A j \in 1..n : w2.lands[j] = w.lands[j]
        /\ Len(w2.lands) = n + 1
    BY <1>2, <1>3
  <2>3. v2.lands[n + 1] = x /\ \A j \in 1..n : v2.lands[j] = v.lands[j]
    <3>1. v2.lands = Append(v.lands, x)
      BY <1>4
    <3> HIDE DEF x
    <3> QED BY <1>2, <1>7, <3>1
  <2>4. CASE i = n + 1
    BY <2>2, <2>3, <2>4, <1>5, <1>11
  <2>5. CASE i \in 1..n
    <3>1. /\ w.lands[i] \in DOMAIN w.policies
          /\ v.lands[i] = IF w.policies[w.lands[i]].to # NoDate THEN NoPolicy ELSE w.lands[i]
      BY <2>5 DEF Coupled
    <3> QED BY <3>1, <2>2, <2>3, <2>5, <1>5
  <2> QED BY <2>1, <2>2, <2>4, <2>5
<1>13. Len(v2.lands) = Len(w2.lands)
  BY <1>2, <1>3, <1>4, <1>7
<1>14. Coupled(w2, v2, coming, untouched)
  BY <1>3, <1>4, <1>8, <1>11, <1>12, <1>13 DEF Coupled
<1> QED BY <1>14 DEF w2, v2

LEMMA StagesGrow ==
  ASSUME NEW catalogue, NEW file \in Seq(FileRows(Users)), NEW h, PlanStages(h, catalogue, file),
         NEW i \in 0..Len(file)
  PROVE  \A k \in i..Len(file) :
           /\ Grows(h[i], h[k])
           /\ Len(h[k].lands) = Len(h[i].lands) + (k - i)
           /\ \A p \in DOMAIN h[i].policies : OwnName(h[i], p) => OwnName(h[k], p)
<1> DEFINE n == Len(file)
           Good(k) == /\ Grows(h[i], h[k])
                      /\ Len(h[k].lands) = Len(h[i].lands) + (k - i)
                      /\ \A p \in DOMAIN h[i].policies : OwnName(h[i], p) => OwnName(h[k], p)
           S == {m \in Nat : i + m <= n => Good(i + m)}
<1>1. /\ n \in Nat /\ i \in Nat /\ i <= n /\ \A k \in 1..n : file[k] \in FileRows(Users)
      /\ \A k \in 0..n : h[k] \in Walks /\ h[k].lands \in Seq(Nat) /\ Len(h[k].lands) \in Nat
      /\ \A k \in 1..n : h[k] = Planned(h[k - 1], file[k])
  <2>1. /\ \A k \in 0..n : h[k] \in Walks
        /\ \A k \in 1..n : h[k] = Planned(h[k - 1], file[k])
    BY DEF PlanStages
  <2>2. \A w \in Walks : w.lands \in Seq(Nat) /\ Len(w.lands) \in Nat
    BY DEF Walks
  <2>3. n \in Nat /\ i \in Nat /\ i <= n /\ \A k \in 1..n : file[k] \in FileRows(Users)
    OBVIOUS
  <2> QED BY <2>1, <2>2, <2>3
<1> HIDE DEF n
<1>2. 0 \in S
  <2>1. i + 0 = i /\ i - i = 0 /\ i \in 0..n
    BY <1>1
  <2>2. Len(h[i].lands) + 0 = Len(h[i].lands) /\ Len(h[i].lands) <= Len(h[i].lands)
    BY <1>1, <2>1
  <2>3. Grows(h[i], h[i])
    BY <2>2 DEF Grows
  <2> QED BY <2>1, <2>2, <2>3
<1>3. ASSUME NEW m \in Nat, m \in S PROVE m + 1 \in S
  <2> SUFFICES ASSUME i + (m + 1) <= n PROVE Good(i + (m + 1))
    <3> HIDE DEF Good
    <3> QED OBVIOUS
  <2> DEFINE k == i + m
  <2>1. /\ k \in 0..n /\ k + 1 \in 1..n /\ i + (m + 1) = k + 1 /\ (k + 1) - 1 = k /\ k <= n
        /\ k + 1 \in 0..n /\ i \in 0..n /\ k - i = m /\ (k + 1) - i = m + 1 /\ i <= k
    BY <1>1
  <2>2. Good(k)
    <3>1. k <= n
      BY <2>1
    <3> QED BY <1>3, <3>1
  <2> HIDE DEF k
  <2>3. h[k + 1] = Planned(h[k], file[k + 1]) /\ h[k] \in Walks /\ file[k + 1] \in FileRows(Users)
    BY <1>1, <2>1
  <2>4. /\ Grows(h[k], h[k + 1])
        /\ Len(h[k + 1].lands) = Len(h[k].lands) + 1
        /\ \A p \in DOMAIN h[k].policies : OwnName(h[k], p) => OwnName(h[k + 1], p)
    BY <2>3, PlannedGrows
  <2>5. Grows(h[i], h[k + 1])
    BY <1>1, <2>1, <2>2, <2>4, GrowthIsTransitive
  <2>6. Len(h[k + 1].lands) = Len(h[i].lands) + ((k + 1) - i)
    <3>1. Len(h[k].lands) = Len(h[i].lands) + (k - i) /\ Len(h[i].lands) \in Nat
      BY <1>1, <2>1, <2>2
    <3>2. Len(h[k + 1].lands) = Len(h[i].lands) + (k - i) + 1
      BY <2>4, <3>1
    <3> DEFINE a == Len(h[i].lands)
               b == Len(h[k + 1].lands)
    <3>3. b = a + m + 1 /\ a \in Nat /\ (k + 1) - i = m + 1
      BY <2>1, <3>1, <3>2
    <3> HIDE DEF a, b
    <3>4. b = a + ((k + 1) - i)
      BY <3>3
    <3> QED BY <3>4 DEF a, b
  <2>7. \A p \in DOMAIN h[i].policies : OwnName(h[i], p) => OwnName(h[k + 1], p)
    BY <2>2, <2>4 DEF OwnName
  <2> QED BY <2>1, <2>5, <2>6, <2>7
<1>4. Nat \subseteq S
  <2> HIDE DEF S
  <2> QED BY <1>2, <1>3, Induction
<1>5. ASSUME NEW k \in i..n PROVE Good(k)
  <2>1. k - i \in Nat /\ i + (k - i) = k /\ k <= n
    BY <1>1
  <2>2. k - i \in S
    BY <1>4, <2>1
  <2> HIDE DEF Good
  <2> QED BY <2>1, <2>2
<1> QED BY <1>5 DEF n

\* A group whose name the operator may type over has not been asked for by the
\* name that the report gave it.
LEMMA RenameableIsUnstated ==
  ASSUME NEW catalogue, NEW file \in Seq(FileRows(Users)), NEW h, PlanStages(h, catalogue, file),
         NEW i \in 1..Len(file), Joined(h[i - 1].policies, file[i]) = NoPolicy,
         Landing(h[i - 1].policies, file[i]) \notin h[Len(file)].fixed,
         NEW j \in (i + 1)..Len(file), file[j].name # NoName
  PROVE  Minted(h[i - 1].policies, file[i], NoName).name # <<file[j].name, 1>>
<1> DEFINE n == Len(file)
           p == Landing(h[i - 1].policies, file[i])
           m == Minted(h[i - 1].policies, file[i], NoName)
           c == h[j - 1].policies
<1>1. SUFFICES ASSUME m.name = <<file[j].name, 1>> PROVE p \in h[n].fixed
  OBVIOUS
<1>2. /\ n \in Nat /\ i - 1 \in 0..n /\ i \in 0..n /\ j - 1 \in i..n /\ j - 1 \in 0..n
      /\ j \in 1..n /\ j \in 0..n /\ n \in j..n
      /\ file[i] \in FileRows(Users) /\ file[j] \in FileRows(Users)
  OBVIOUS
<1>3. /\ h[i - 1] \in Walks /\ h[j - 1] \in Walks
      /\ h[i] = Planned(h[i - 1], file[i]) /\ h[j] = Planned(h[j - 1], file[j])
  BY <1>2 DEF PlanStages
<1>4. /\ IsListing(h[i - 1].policies) /\ IsListing(c)
  BY <1>3, ListingsAre DEF Walks
<1>5. p \in DOMAIN h[i].policies /\ h[i].policies[p] = m
  <2>1. h[i].policies = Grown(h[i - 1].policies, file[i], NoName)
    BY <1>2, <1>3, PlannedRow
  <2> DEFINE b == h[i - 1].policies
             row == file[i]
             g == Grown(b, row, NoName)
  <2>2. IsListing(b) /\ row \in FileRows(Users) /\ NoName \in Stems \cup {NoName}
    BY <1>2, <1>4
  <2>3. Joined(b, row) = NoPolicy /\ p = Landing(b, row) /\ m = Minted(b, row, NoName)
    OBVIOUS
  <2> HIDE DEF b, row, p, m
  <2>4. DOMAIN g = DOMAIN b \cup {Landing(b, row)} /\ g[Landing(b, row)] = Minted(b, row, NoName)
    BY <2>2, <2>3, GrownIsListing
  <2> QED BY <2>1, <2>3, <2>4 DEF b, row
<1>6. OwnName(h[i], p)
  BY <1>2, <1>3, PlannedGrows
<1>7. Grows(h[i], h[j - 1]) /\ OwnName(h[j - 1], p)
  <2> HIDE DEF p, m
  <2>1. \A k \in i..n : /\ Grows(h[i], h[k])
                        /\ \A q \in DOMAIN h[i].policies : OwnName(h[i], q) => OwnName(h[k], q)
    BY <1>2, StagesGrow
  <2> QED BY <1>2, <1>5, <1>6, <2>1
<1> HIDE DEF p, m
<1>8. p \in DOMAIN c /\ c[p].name = <<file[j].name, 1>>
  BY <1>1, <1>5, <1>7 DEF Grows
<1>9. Named(c, file[j]) = {p}
  BY <1>7, <1>8 DEF Named, OwnName
<1>10. Landing(c, file[j]) = p
  <2>1. FirstOf(c, {p}) = p
    <3>1. {p} \subseteq DOMAIN c /\ {p} # {}
      BY <1>8
    <3>2. FirstOf(c, {p}) \in {p}
      BY <1>4, <3>1, FirstOfIsThere
    <3> QED BY <3>2
  <2>2. p # NoPolicy
    BY <1>4, <1>8 DEF IsListing
  <2> QED BY <1>9, <2>1, <2>2 DEF Landing, Joined
<1>11. p \in h[j].fixed
  <2> DEFINE w == h[j - 1]
             row == file[j]
  <2>2. /\ w \in Walks /\ row \in FileRows(Users) /\ row.name # NoName
        /\ Landing(w.policies, row) = p /\ h[j] = Planned(w, row)
        /\ w.policies[p].name = <<row.name, 1>> /\ p \in DOMAIN w.policies
        /\ IsListing(w.policies)
    BY <1>2, <1>3, <1>4, <1>8, <1>10
  <2> HIDE DEF w, row
  <2>3. Grown(w.policies, row, NoName)[p] = w.policies[p]
    <3> DEFINE b == w.policies
    <3>1. IsListing(b) /\ NoName \in Stems \cup {NoName} /\ p \in DOMAIN b
      BY <2>2
    <3> HIDE DEF b
    <3>2. \A q \in DOMAIN b : Grown(b, row, NoName)[q] = b[q]
      BY <2>2, <3>1, GrownIsListing
    <3> QED BY <3>1, <3>2 DEF b
  <2>4. Planned(w, row).policies[p].name = <<row.name, 1>>
    BY <2>2, <2>3, PlannedRow
  <2> QED BY <2>2, <2>4, PlannedRow
<1>12. Grows(h[j], h[n])
  BY <1>2, StagesGrow
<1> QED BY <1>11, <1>12 DEF Grows

\* The names that the rows after the first i of them state.
Coming(file, i) == {file[j].name : j \in (i + 1)..Len(file)} \ {NoName}

LEMMA WalksStayCoupled ==
  ASSUME NEW catalogue, IsListing(catalogue), NEW file \in Seq(FileRows(Users)),
         NEW h, PlanStages(h, catalogue, file),
         NEW chosen \in [Renameable(catalogue, h[Len(file)]) -> Unstated(file) \cup {NoName}],
         NEW g, RunStages(g, catalogue, file, h[Len(file)], chosen)
  PROVE  Coupled(h[Len(file)], g[Len(file)], {}, \A p \in DOMAIN chosen : chosen[p] = NoName)
<1> DEFINE n == Len(file)
           plan == h[n]
           untouched == \A p \in DOMAIN chosen : chosen[p] = NoName
           S == {i \in Nat : i <= n => Coupled(h[i], g[i], Coming(file, i), untouched)}
<1>1. /\ n \in Nat /\ \A i \in 1..n : file[i] \in FileRows(Users)
      /\ \A i \in 0..n : h[i] \in Walks /\ g[i] \in Walks
  BY DEF PlanStages, RunStages
<1>2. \A i \in 1..n : h[i] = Planned(h[i - 1], file[i])
  BY DEF PlanStages
<1>3. \A i \in 1..n : g[i] = Applied(g[i - 1], file[i], ChosenFor(plan, chosen, i))
  BY DEF RunStages
<1>4. h[0] = Start(catalogue) /\ g[0] = Start(catalogue)
  BY DEF PlanStages, RunStages
<1>5. \A i \in 0..n : Coming(file, i) \subseteq Stems
  <2>1. ASSUME NEW i \in 0..n, NEW j \in (i + 1)..n PROVE file[j].name \in Stems \cup {NoName}
    <3>1. j \in 1..n
      BY <1>1
    <3> QED BY <1>1, <3>1 DEF FileRows
  <2> QED BY <2>1 DEF Coming
<1>6. \A i \in 1..n : ChosenFor(plan, chosen, i) \in Unstated(file) \cup {NoName}
  BY DEF ChosenFor
<1>7. Unstated(file) \subseteq Stems
  BY DEF Unstated
<1>8. \A i \in 1..n : plan.lands[i] = Landing(h[i - 1].policies, file[i])
  <2> SUFFICES ASSUME NEW i \in 1..n PROVE plan.lands[i] = Landing(h[i - 1].policies, file[i])
    OBVIOUS
  <2>1. /\ i \in 0..n /\ i - 1 \in 0..n /\ 0 \in 0..n /\ n \in i..n /\ i \in 0..n /\ i - 1 \in 0..(n - 1)
        /\ (i - 1) - 0 = i - 1
    BY <1>1
  <2>2. Len(h[0].lands) = 0
    BY <1>4 DEF Start
  <2>3. Len(h[i - 1].lands) = i - 1
    <3>1. \A k \in 0..n : Len(h[k].lands) = Len(h[0].lands) + (k - 0)
      <4>1. 0 \in 0..Len(file)
        BY <2>1 DEF n
      <4>2. \A i0 \in 0..Len(file) : \A k \in i0..Len(file) :
              Len(h[k].lands) = Len(h[i0].lands) + (k - i0)
        BY StagesGrow
      <4> QED BY <4>1, <4>2 DEF n
    <3> QED BY <1>1, <2>1, <2>2, <3>1
  <2>4. Grows(h[i], plan)
    BY <2>1, StagesGrow
  <2>5. h[i].lands = Append(h[i - 1].lands, Landing(h[i - 1].policies, file[i]))
    BY <1>1, <1>2, <2>1, PlannedRow
  <2>6. h[i - 1].lands \in Seq(Nat)
    BY <1>1, <2>1 DEF Walks
  <2> DEFINE p == Landing(h[i - 1].policies, file[i])
  <2>7. Len(h[i].lands) = i /\ h[i].lands[i] = p
    <3> HIDE DEF p
    <3>1. h[i].lands = Append(h[i - 1].lands, p)
      BY <2>5 DEF p
    <3> QED BY <2>3, <2>6, <3>1
  <2>8. i \in 1..Len(h[i].lands)
    BY <2>7
  <2> QED BY <2>4, <2>7, <2>8 DEF Grows
<1> HIDE DEF n
<1>9. 0 \in S
  <2>1. Coupled(Start(catalogue), Start(catalogue), Coming(file, 0), untouched)
    BY DEF Coupled, Start
  <2> QED BY <1>4, <2>1
<1>10. ASSUME NEW k \in Nat, k \in S PROVE k + 1 \in S
  <2> SUFFICES ASSUME k + 1 <= n PROVE Coupled(h[k + 1], g[k + 1], Coming(file, k + 1), untouched)
    <3> HIDE DEF untouched
    <3> QED OBVIOUS
  <2> DEFINE i == k + 1
             name == ChosenFor(plan, chosen, i)
  <2>1. /\ i \in 1..n /\ i - 1 = k /\ k \in 0..n /\ k <= n /\ i \in 0..n
    BY <1>1
  <2>2. Coupled(h[k], g[k], Coming(file, k), untouched)
    BY <1>10, <2>1
  <2> HIDE DEF i
  <2>3. /\ h[i] = Planned(h[k], file[i]) /\ g[i] = Applied(g[k], file[i], name)
        /\ h[k] \in Walks /\ g[k] \in Walks /\ file[i] \in FileRows(Users)
        /\ name \in Stems \cup {NoName} /\ Coming(file, i) \subseteq Stems /\ Coming(file, k) \subseteq Stems
    BY <1>1, <1>2, <1>3, <1>5, <1>6, <1>7, <2>1
  <2>4. file[i].name \in Coming(file, k) \cup {NoName} /\ Coming(file, i) \subseteq Coming(file, k)
    <3>1. i \in (k + 1)..n /\ (i + 1)..n \subseteq (k + 1)..n
      BY <2>1, <1>1
    <3> QED BY <3>1 DEF Coming, n
  <2>5. untouched => name = NoName
    BY DEF ChosenFor
  <2>6. ASSUME Joined(h[k].policies, file[i]) = NoPolicy, file[i].name = NoName, name # NoName
        PROVE  /\ name \notin Coming(file, i)
               /\ \A s \in Coming(file, i) : Minted(h[k].policies, file[i], NoName).name # <<s, 1>>
    <3>1. plan.lands[i] \in Renameable(catalogue, plan) /\ name = chosen[plan.lands[i]]
      BY <2>6 DEF ChosenFor, n
    <3>2. Landing(h[k].policies, file[i]) \notin plan.fixed
      BY <3>1, <2>1, <1>8 DEF Renameable
    <3>3. name \in Unstated(file)
      BY <3>1, <2>6 DEF n
    <3>4. name \notin Coming(file, i)
      <4>1. \A j \in (i + 1)..n : j \in DOMAIN file
        BY <1>1, <2>1 DEF n
      <4> QED BY <3>3, <4>1 DEF Unstated, Coming, n
    <3>5. ASSUME NEW s \in Coming(file, i)
          PROVE  Minted(h[k].policies, file[i], NoName).name # <<s, 1>>
      <4>1. PICK j \in (i + 1)..n : s = file[j].name /\ file[j].name # NoName
        BY <3>5 DEF Coming, n
      <4> QED BY <4>1, <2>1, <2>6, <3>2, RenameableIsUnstated DEF n
    <3> QED BY <3>4, <3>5
  <2> HIDE DEF name, untouched
  <2> DEFINE w == h[k]
             v == g[k]
             row == file[i]
             stems == Coming(file, k)
             coming == Coming(file, i)
  <2>7. /\ w \in Walks /\ v \in Walks /\ row \in FileRows(Users) /\ name \in Stems \cup {NoName}
        /\ coming \subseteq stems /\ coming \subseteq Stems /\ stems \subseteq Stems
        /\ row.name \in stems \cup {NoName} /\ h[i] = Planned(w, row) /\ g[i] = Applied(v, row, name)
    BY <2>3, <2>4
  <2>8. Coupled(w, v, stems, untouched)
    BY <2>2
  <2>9. Joined(w.policies, row) = NoPolicy /\ row.name = NoName /\ name # NoName =>
           name \notin coming /\ \A s \in coming : Minted(w.policies, row, NoName).name # <<s, 1>>
    BY <2>6
  <2> HIDE DEF w, v, row, stems, coming
  <2>10. Coupled(Planned(w, row), Applied(v, row, name), coming, untouched)
    BY <2>5, <2>7, <2>8, <2>9, StepKeepsCoupled
  <2>11. Coupled(h[i], g[i], coming, untouched)
    BY <2>7, <2>10
  <2> QED BY <2>11 DEF i, coming
<1>11. n \in S
  <2> HIDE DEF S
  <2> QED BY <1>1, <1>9, <1>10, Induction
<1>12. Coming(file, n) = {}
  BY <1>1 DEF Coming, n
<1>13. n <= n
  BY <1>1
<1> QED BY <1>11, <1>12, <1>13 DEF n

LEMMA ListingIsCarriedOut ==
  ASSUME NEW catalogue, IsListing(catalogue), NEW file \in Seq(FileRows(Users)),
         NEW chosen \in [Renameable(catalogue, Plan(catalogue, file)) -> Unstated(file) \cup {NoName}]
  PROVE  AsPlanned(catalogue, file, chosen)
<1> DEFINE n == Len(file)
           plan == Plan(catalogue, file)
           done == CarriedOut(catalogue, file, plan, chosen)
           untouched == \A p \in DOMAIN chosen : chosen[p] = NoName
<1>1. PICK h : PlanStages(h, catalogue, file)
  BY PlanByStages
<1>2. h[n] = plan /\ h[0] = Start(catalogue) /\ n \in Nat /\ DOMAIN file = 1..n
  BY <1>1 DEF PlanStages
<1>3. \A i \in 1..n : ChosenFor(plan, chosen, i) \in Stems \cup {NoName}
  <2>1. Unstated(file) \subseteq Stems
    BY DEF Unstated
  <2> HIDE DEF plan
  <2> QED BY <2>1 DEF ChosenFor, plan
<1>4. PICK g : RunStages(g, catalogue, file, plan, chosen)
  BY <1>3, RunByStages
<1>5. g[n] = done
  BY <1>4 DEF RunStages
<1> HIDE DEF plan, done
<1>6. Coupled(plan, done, {}, untouched)
  BY <1>1, <1>2, <1>4, <1>5, WalksStayCoupled DEF plan
<1>7. Len(plan.lands) = n
  <2>1. Len(h[0].lands) = 0
    BY <1>2 DEF Start
  <2>2. 0 \in 0..n /\ n \in 0..n /\ n - 0 = n /\ 0 + n = n
    BY <1>2
  <2>3. \A k \in 0..n : Len(h[k].lands) = Len(h[0].lands) + (k - 0)
    BY <1>1, <2>2, StagesGrow
  <2> QED BY <1>2, <2>1, <2>2, <2>3
<1>8. ASSUME NEW i \in DOMAIN file
      PROVE  IF Retired(plan.policies, plan.lands[i]) THEN done.lands[i] = NoPolicy
             ELSE /\ done.lands[i] = plan.lands[i]
                  /\ done.policies[done.lands[i]].terms = plan.policies[plan.lands[i]].terms
                  /\ untouched => done.policies[done.lands[i]].name = plan.policies[plan.lands[i]].name
  <2>1. i \in 1..Len(plan.lands)
    BY <1>2, <1>7
  <2> HIDE DEF untouched
  <2> QED BY <1>6, <2>1 DEF Coupled, Retired
<1> QED BY <1>8 DEF AsPlanned, plan, done

\* What the report says of an import file comes true when the run follows at
\* once, for files of any length: the run walks over its rows with a catalogue
\* that differs from the report's in nothing that decides where a row lands
\* (groupPolicies and resolvePolicy, applyUserData).
THEOREM ReportsComeTrue == Spec => []PlanIsCarriedOut
<1>1. TypeOK => PlanIsCarriedOut
  <2> SUFFICES ASSUME TypeOK, NEW file \in Files, NEW chosen \in NamesTyped(file)
               PROVE  AsPlanned(policies, file, chosen)
    BY DEF PlanIsCarriedOut
  <2>1. IsListing(policies)
    BY CatalogueIsListing DEF TypeOK, IsCatalogue
  <2>2. file \in Seq(FileRows(Users))
    BY CatalogueAssumption
  <2> QED BY <2>1, <2>2, ListingIsCarriedOut DEF NamesTyped
<1> QED BY <1>1, TypeCorrect, PTL
=============================================================================
