---------------------------- MODULE LiveFeedProofs ----------------------------
(***************************************************************************)
(* That a tab with nothing to wait for shows the table, for any number of  *)
(* notifications, any size of a page and any number of faults.             *)
(*                                                                         *)
(* The argument: either the tab is yet to be told of something, or every   *)
(* answer under way that no other crossed agrees with the table as far as  *)
(* it has been read, and so does the store once none is under way.         *)
(***************************************************************************)
EXTENDS LiveFeed, OrderLemmas

-----------------------------------------------------------------------------
(* The inductive invariant *)

\* The requests whose answer is the newest page
Snapshots == Kinds \ {"more"}

Stores ==
  [status : {"loading", "succeeded", "failed"}, list : Lists,
   cursor : Rows \cup {NoRow}, unread : 0..Cardinality(Rows), alone : BOOLEAN]

\* The next page, if there is one, starts below the last row of this one.
Ends(list, next) ==
  next # NoRow => next \in On(list) /\ \A i \in On(list) : next <= i

Asked(k) ==
  LET q == requests[k]
  IN  /\ q.at = "sent" => k \in {"mark", "mark all"}
      /\ q.at # "reading" => q.page = <<>> /\ q.count = NoCount
      /\ q.page # <<>> => Ends(q.page.list, q.page.next)

\* A further page is asked for where the list ends, if it is still that list.
Continues ==
  LET q == requests["more"]
  IN  q.at # "none" =>
        /\ q.target # NoRow
        /\ q.current => store.cursor = q.target
        /\ q.page # <<>> => \A i \in On(q.page.list) : i < q.target

Alone ==
  \A k \in Snapshots :
    requests[k].at # "none" /\ requests[k].alone
      => \A x \in Snapshots \ {k} : requests[x].at = "none"

Orderly ==
  /\ \A k \in Kinds : Asked(k)
  /\ Continues /\ Alone
  /\ Ends(store.list, store.cursor)

\* Is the tab yet to hear of something?
Told ==
  \/ listener.signals > 0
  \/ ~listener.up /\ listener.hasConnected
  \/ ~stream.open \/ stream.frame \/ stream.missed

\* What has been read for an answer that no other crosses
Answers ==
  \A k \in Snapshots :
    requests[k].alone =>
      /\ requests[k].page # <<>> => requests[k].page = PageAt(NoRow)
      /\ requests[k].count # NoCount => requests[k].count = Cardinality(Unread)

\* What the store shows when no answer is under way
Shown ==
  store.status = "succeeded" /\ store.alone /\ (\A k \in Snapshots : requests[k].at = "none")
    => Fresh

Inv ==
  /\ TypeOK /\ Orderly
  /\ listener.up => listener.hasConnected
  /\ ~Told => Answers /\ Shown

-----------------------------------------------------------------------------
(* Pages *)

LEMMA Counts ==
  ASSUME TypeOK
  PROVE  Cardinality(Unread) \in 0..Cardinality(Rows)
<1>1. Unread \subseteq Rows /\ IsFiniteSet(Rows)
  BY FeedAssumption DEF Unread
<1>2. /\ Cardinality(Unread) \in Nat /\ Cardinality(Rows) \in Nat
      /\ Cardinality(Unread) <= Cardinality(Rows)
  BY <1>1, FS_Subset, FS_CardinalityType
<1> QED BY <1>2

\* A page is empty only where there are no older rows, for a page has room.
LEMMA PageAtIsPage ==
  ASSUME TypeOK, NEW cursor \in Rows \cup {NoRow}
  PROVE  LET p == PageAt(cursor)
         IN  /\ p \in Pages /\ Ends(p.list, p.next)
             /\ cursor # NoRow => \A i \in On(p.list) : i < cursor
<1> DEFINE older == {i \in Served : cursor = NoRow \/ i < cursor}
           newer(i) == {j \in older : j > i}
           page  == {i \in older : Cardinality(newer(i)) < PageSize}
           list  == [i \in Rows |-> IF i \in page THEN rows[i] ELSE "absent"]
           next  == IF page = older THEN NoRow ELSE Min(page)
<1>1. PageAt(cursor) = [list |-> list, next |-> next]
  BY DEF PageAt
<1>2. /\ older \subseteq Rows /\ page \subseteq older
      /\ \A i \in older : rows[i] \in {"unread", "read"}
  BY DEF Served
<1>3. list \in Lists /\ On(list) = page
  BY <1>2 DEF Lists, On
<1>4. page # older => page # {}
  <2>1. SUFFICES ASSUME older # {} PROVE page # {}
    OBVIOUS
  <2>2. IsFiniteSet(older) /\ older \subseteq Nat
    BY <1>2, FeedAssumption, FS_Subset
  <2>3. PICK n \in older : \A m \in older : m <= n
    <3> HIDE DEF older
    <3> QED BY <2>1, <2>2, GreatestNumber
  <2>4. newer(n) = {}
    <3>1. \A m \in older : ~(m > n)
      <4> HIDE DEF older
      <4> QED BY <2>2, <2>3
    <3> QED BY <3>1
  <2>5. Cardinality(newer(n)) = 0
    BY <2>4, FS_EmptySet
  <2> HIDE DEF newer, older
  <2>6. Cardinality(newer(n)) < PageSize
    BY <2>5, FeedAssumption
  <2> QED BY <2>3, <2>6
<1>5. next # NoRow => next \in page /\ \A i \in page : next <= i
  <2>1. SUFFICES ASSUME page # older PROVE Min(page) \in page /\ \A i \in page : Min(page) <= i
    OBVIOUS
  <2>2. page \subseteq Nat /\ page # {}
    BY <1>2, <1>4, <2>1, FeedAssumption
  <2> HIDE DEF page
  <2>3. \E n \in page : \A m \in page : n <= m
    BY <2>2, LeastNumber
  <2> QED BY <2>3 DEF Min
<1>6. cursor # NoRow => \A i \in page : i < cursor
  OBVIOUS
<1>7. next \in Rows \cup {NoRow}
  BY <1>2, <1>5
<1> HIDE DEF list, next, page
<1>8. [list |-> list, next |-> next] \in Pages
  BY <1>3, <1>7 DEF Pages
<1> QED BY <1>1, <1>3, <1>5, <1>6, <1>8 DEF Ends

\* What the page does not replace starts below it.
LEMMA TailIsBelow ==
  ASSUME NEW s \in Stores, NEW page \in Pages, Ends(s.list, s.cursor)
  PROVE  /\ Tail(s, page) \subseteq On(s.list)
         /\ On(page.list) \subseteq Rows
         /\ Tail(s, page) # {} => On(page.list) # {}
         /\ \A i \in Tail(s, page), j \in On(page.list) : i < j
<1>1. On(page.list) \subseteq Nat /\ On(s.list) \subseteq Nat /\ On(page.list) \subseteq Rows
  BY FeedAssumption DEF On
<1>2. CASE On(page.list) = {}
  BY <1>1, <1>2 DEF Tail
<1>3. CASE On(page.list) # {}
  <2>1. \E n \in On(page.list) : \A m \in On(page.list) : n <= m
    BY <1>1, <1>3, LeastNumber
  <2>2. Min(On(page.list)) \in On(page.list) /\ \A m \in On(page.list) : Min(On(page.list)) <= m
    BY <2>1 DEF Min
  <2>3. Tail(s, page) = {i \in On(s.list) : i < Min(On(page.list))}
    BY <1>3 DEF Tail
  <2>4. \A i \in Tail(s, page), j \in On(page.list) : i < j
    BY <1>1, <2>2, <2>3
  <2> QED BY <1>1, <1>3, <2>3, <2>4
<1> QED BY <1>2, <1>3

LEMMA MergedIsStore ==
  ASSUME NEW s \in Stores, Ends(s.list, s.cursor),
         NEW q, q.page \in Pages, Ends(q.page.list, q.page.next),
         q.count \in 0..Cardinality(Rows), q.alone \in BOOLEAN
  PROVE  LET m == Merged(s, q)
         IN  /\ m \in Stores /\ Ends(m.list, m.cursor)
             /\ m.status = "succeeded" /\ m.unread = q.count /\ m.alone = q.alone
             /\ On(m.list) = Tail(s, q.page) \cup On(q.page.list)
             /\ \A i \in On(q.page.list) : m.list[i] = q.page.list[i]
             /\ m.cursor = IF Tail(s, q.page) = {} THEN q.page.next ELSE s.cursor
<1> DEFINE tail == Tail(s, q.page)
           m == Merged(s, q)
<1>1. /\ tail \subseteq On(s.list) /\ On(q.page.list) \subseteq Rows
      /\ tail # {} => On(q.page.list) # {}
      /\ \A i \in tail, j \in On(q.page.list) : i < j
  BY TailIsBelow
<1>2. /\ s.list \in Lists /\ s.cursor \in Rows \cup {NoRow}
      /\ q.page.list \in Lists /\ q.page.next \in Rows \cup {NoRow}
  BY DEF Stores, Pages
<1> HIDE DEF tail
<1>3. /\ m.status = "succeeded" /\ m.unread = q.count /\ m.alone = q.alone
      /\ m.list = [i \in Rows |-> IF i \in tail THEN s.list[i] ELSE q.page.list[i]]
      /\ m.cursor = IF tail = {} THEN q.page.next ELSE s.cursor
      /\ m = [status |-> m.status, list |-> m.list, cursor |-> m.cursor,
              unread |-> m.unread, alone |-> m.alone]
  BY DEF Merged, tail
<1> HIDE DEF m
<1>4. m.list \in Lists
  BY <1>2, <1>3 DEF Lists
<1>5. m \in Stores
  BY <1>2, <1>3, <1>4 DEF Stores
<1>6. On(m.list) = tail \cup On(q.page.list)
  BY <1>1, <1>3 DEF On
<1>7. \A i \in On(q.page.list) : m.list[i] = q.page.list[i]
  <2>1. \A i \in On(q.page.list) : i \in Nat
    BY <1>1, FeedAssumption
  <2>2. \A i \in On(q.page.list) : i \notin tail
    BY <1>1, <2>1
  <2> QED BY <1>1, <1>3, <2>2
<1>8. Ends(m.list, m.cursor)
  <2>1. CASE tail = {}
    BY <2>1, <1>3, <1>6 DEF Ends
  <2>2. CASE tail # {}
    <3>1. PICK i \in tail : TRUE
      BY <2>2
    <3>2. SUFFICES ASSUME s.cursor # NoRow
                   PROVE  s.cursor \in tail /\ \A j \in tail \cup On(q.page.list) : s.cursor <= j
      BY <2>2, <1>3, <1>6 DEF Ends
    <3>3. s.cursor \in On(s.list) /\ \A j \in On(s.list) : s.cursor <= j
      BY <3>2 DEF Ends
    <3>4. On(s.list) \subseteq Nat /\ On(q.page.list) \subseteq Nat
      BY FeedAssumption DEF On
    <3>5. \A j \in On(q.page.list) : s.cursor < j
      BY <1>1, <3>1, <3>3, <3>4
    <3>6. s.cursor \in tail
      <4>1. On(q.page.list) # {}
        BY <1>1, <2>2
      <4>2. \E n \in On(q.page.list) : \A k \in On(q.page.list) : n <= k
        BY <3>4, <4>1, LeastNumber
      <4>3. Min(On(q.page.list)) \in On(q.page.list)
        BY <4>2 DEF Min
      <4> QED BY <4>1, <4>3, <3>3, <3>5 DEF Tail, tail
    <3> QED BY <1>1, <3>3, <3>4, <3>5, <3>6
  <2> QED BY <2>1, <2>2
<1> QED BY <1>3, <1>5, <1>6, <1>7, <1>8 DEF tail, m

\* The stamp marks rows read that are on the list already.
LEMMA StampedIsStore ==
  ASSUME NEW s \in Stores, NEW q
  PROVE  LET m == Stamped(s, q)
         IN  /\ m \in Stores /\ On(m.list) = On(s.list)
             /\ m.status = s.status /\ m.unread = s.unread /\ m.alone = s.alone
             /\ m.cursor = s.cursor
             /\ \A i \in On(q.page.list) : m.list[i] = s.list[i]
<1> DEFINE marked == [i \in Rows |-> IF q.page.list[i] = "absent" /\ s.list[i] = "unread"
                                     THEN "read" ELSE s.list[i]]
           m == Stamped(s, q)
<1>1. s.list \in Lists
  BY DEF Stores
<1>2. marked \in Lists /\ On(marked) = On(s.list)
  BY <1>1 DEF Lists, On
<1>3. \A i \in On(q.page.list) : marked[i] = s.list[i]
  BY DEF On
<1>4. m = s \/ m = [s EXCEPT !.list = marked]
  BY DEF Stamped
<1> HIDE DEF marked, m
<1>5. [s EXCEPT !.list = marked] \in Stores
  BY <1>2 DEF Stores
<1>6. /\ [s EXCEPT !.list = marked].list = marked
      /\ [s EXCEPT !.list = marked].status = s.status
      /\ [s EXCEPT !.list = marked].unread = s.unread
      /\ [s EXCEPT !.list = marked].alone = s.alone
      /\ [s EXCEPT !.list = marked].cursor = s.cursor
  BY DEF Stores
<1>7. CASE m = s
  BY <1>7 DEF m
<1>8. CASE m = [s EXCEPT !.list = marked]
  BY <1>2, <1>3, <1>5, <1>6, <1>8 DEF m
<1> QED BY <1>4, <1>7, <1>8

-----------------------------------------------------------------------------
(* The list on the screen *)

\* Does the store show the newest page and the unread count of the table?
Shows(s) ==
  LET top == PageAt(NoRow)
  IN  /\ s.status = "succeeded"
      /\ s.unread = Cardinality(Unread)
      /\ \A i \in On(top.list) : s.list[i] = top.list[i]
      /\ \A i \in On(s.list) : i \in On(top.list) \/ \E j \in On(top.list) : i < j

LEMMA FreshShows == Fresh <=> Shows(store)
  BY DEF Fresh, Shows

LEMMA AnswerShows ==
  ASSUME TypeOK, NEW s \in Stores, Ends(s.list, s.cursor),
         NEW q, q.page = PageAt(NoRow), q.count = Cardinality(Unread), q.alone \in BOOLEAN
  PROVE  Shows(Merged(s, q)) /\ Shows(Stamped(Merged(s, q), q))
<1> DEFINE m == Merged(s, q)
           n == Stamped(m, q)
<1>1. q.page \in Pages /\ Ends(q.page.list, q.page.next)
  BY PageAtIsPage
<1>2. q.count \in 0..Cardinality(Rows)
  BY Counts
<1>3. /\ m \in Stores /\ m.status = "succeeded" /\ m.unread = q.count
      /\ On(m.list) = Tail(s, q.page) \cup On(q.page.list)
      /\ \A i \in On(q.page.list) : m.list[i] = q.page.list[i]
  BY <1>1, <1>2, MergedIsStore
<1>4. /\ Tail(s, q.page) # {} => On(q.page.list) # {}
      /\ \A i \in Tail(s, q.page), j \in On(q.page.list) : i < j
  BY <1>1, TailIsBelow
<1> HIDE DEF m
<1>5. /\ On(n.list) = On(m.list) /\ n.status = m.status /\ n.unread = m.unread
      /\ \A i \in On(q.page.list) : n.list[i] = m.list[i]
  BY <1>3, StampedIsStore
<1> HIDE DEF n
<1>6. Shows(m)
  BY <1>3, <1>4 DEF Shows
<1>7. Shows(n)
  BY <1>3, <1>4, <1>5 DEF Shows
<1> QED BY <1>6, <1>7 DEF m, n

\* What is appended below the list does not show.
LEMMA MoreShows ==
  ASSUME NEW s \in Stores, Ends(s.list, s.cursor), s.cursor # NoRow, Shows(s),
         NEW page \in Pages, \A i \in On(page.list) : i < s.cursor,
         NEW m, m.status = s.status, m.unread = s.unread,
         On(m.list) = On(s.list) \cup On(page.list),
         \A i \in On(s.list) : m.list[i] = s.list[i]
  PROVE  Shows(m)
<1> DEFINE top == PageAt(NoRow)
<1>1. /\ On(s.list) \subseteq Nat /\ On(page.list) \subseteq Nat /\ On(top.list) \subseteq Nat
      /\ On(top.list) \subseteq Rows
  BY FeedAssumption DEF On
<1>2. s.cursor \in On(s.list)
  BY DEF Ends
<1> HIDE DEF top
<1>3. /\ s.status = "succeeded" /\ s.unread = Cardinality(Unread)
      /\ \A i \in On(top.list) : s.list[i] = top.list[i]
      /\ \A i \in On(s.list) : i \in On(top.list) \/ \E j \in On(top.list) : i < j
  BY DEF Shows, top
<1>4. \A i \in On(top.list) : i \in On(s.list)
  BY <1>1, <1>3 DEF On
<1>5. PICK j \in On(top.list) : s.cursor <= j
  BY <1>1, <1>2, <1>3
<1>6. \A i \in On(page.list) : i < j
  BY <1>1, <1>2, <1>5
<1>7. \A i \in On(m.list) : i \in On(top.list) \/ \E k \in On(top.list) : i < k
  BY <1>3, <1>6
<1>8. \A i \in On(top.list) : m.list[i] = top.list[i]
  BY <1>3, <1>4
<1> QED BY <1>3, <1>7, <1>8 DEF Shows, top

-----------------------------------------------------------------------------
(* Requests *)

LEMMA Sent ==
  ASSUME TypeOK, NEW k \in Kinds, NEW target \in Rows \cup {NoRow}, NEW at \in {"sent", "reading"},
         Send(k, target, at)
  PROVE  /\ requests' \in [Kinds -> Requests]
         /\ requests'[k].at = at /\ requests'[k].target = target
         /\ requests'[k].page = <<>> /\ requests'[k].count = NoCount
         /\ requests'[k].alone => k = "more" \/ Beside(k) = {}
         /\ \A x \in Kinds \ {k} :
              /\ requests'[x].at = requests[x].at /\ requests'[x].target = requests[x].target
              /\ requests'[x].page = requests[x].page /\ requests'[x].count = requests[x].count
              /\ requests'[x].current = requests[x].current
              /\ requests'[x].alone => requests[x].alone /\ (x \notin Beside(k) \/ k = "more")
<1> DEFINE by == k = "more" \/ Beside(k) = {}
           kept(x) == requests[x].alone /\ (x \notin Beside(k) \/ k = "more")
<1>1. DOMAIN requests' = Kinds /\ requests' = [x \in Kinds |-> requests'[x]]
  BY DEF Send
<1>2. requests'[k] = [at |-> at, target |-> target, page |-> <<>>, count |-> NoCount,
                      current |-> TRUE, alone |-> by]
  BY DEF Send, Unsent
<1>3. by \in BOOLEAN
  OBVIOUS
<1> HIDE DEF by
<1>4. /\ requests'[k] \in Requests
      /\ requests'[k].at = at /\ requests'[k].target = target
      /\ requests'[k].page = <<>> /\ requests'[k].count = NoCount
      /\ requests'[k].alone = by
  BY <1>2, <1>3 DEF Requests
<1>5. requests'[k].alone => k = "more" \/ Beside(k) = {}
  BY <1>4 DEF by
<1>6. ASSUME NEW x \in Kinds \ {k}
      PROVE  /\ requests'[x] \in Requests
             /\ requests'[x].at = requests[x].at /\ requests'[x].target = requests[x].target
             /\ requests'[x].page = requests[x].page /\ requests'[x].count = requests[x].count
             /\ requests'[x].current = requests[x].current
             /\ requests'[x].alone = kept(x)
  <2>1. requests[x] \in Requests
    BY DEF TypeOK
  <2>2. requests'[x] = [requests[x] EXCEPT !.alone = kept(x)]
    BY DEF Send
  <2>3. kept(x) \in BOOLEAN
    BY <2>1 DEF Requests
  <2> HIDE DEF kept
  <2> QED BY <2>1, <2>2, <2>3 DEF Requests
<1>7. \A x \in Kinds \ {k} :
        requests'[x].alone => requests[x].alone /\ (x \notin Beside(k) \/ k = "more")
  BY <1>6
<1> QED BY <1>1, <1>4, <1>5, <1>6, <1>7

LEMMA UnsentIsRequest ==
  /\ Unsent \in Requests
  /\ Unsent.at = "none" /\ Unsent.page = <<>> /\ Unsent.count = NoCount
BY DEF Unsent, Requests

\* The table as it is read
LEMMA SameTable ==
  ASSUME rows' = rows
  PROVE  /\ PageAt(NoRow)' = PageAt(NoRow) /\ Unread' = Unread
         /\ \A s : Shows(s)' <=> Shows(s)
<1>1. Served' = Served /\ Unread' = Unread
  BY DEF Served, Unread
<1>2. PageAt(NoRow)' = PageAt(NoRow)
  BY <1>1 DEF PageAt
<1> QED BY <1>1, <1>2 DEF Shows

\* Whatever the server, the listener and the stream do, requests and store
\* stay in order.
LEMMA TabStays ==
  ASSUME Inv, TypeOK', requests' = requests, store' = store,
         (listener.up => listener.hasConnected)',
         Told' \/ (rows' = rows /\ ~Told)
  PROVE  Inv'
<1>1. Orderly'
  BY DEF Inv, Orderly, Asked, Continues, Alone
<1>2. ASSUME ~Told' PROVE (Answers /\ Shown)'
  <2>1. rows' = rows /\ Answers /\ Shown
    BY <1>2 DEF Inv
  <2>2. PageAt(NoRow)' = PageAt(NoRow) /\ Unread' = Unread /\ (Shows(store)' <=> Shows(store))
    <3>1. Shows(store)' <=> Shows(store)
      BY <2>1, SameTable DEF Shows
    <3> QED BY <2>1, <3>1, SameTable
  <2>3. Fresh' <=> Fresh
    BY <2>2 DEF Fresh, Shows
  <2> QED BY <2>1, <2>2, <2>3 DEF Answers, Shown
<1> QED BY <1>1, <1>2 DEF Inv

-----------------------------------------------------------------------------
(* The table, the listener and the stream *)

LEMMA ChangedKeeps ==
  ASSUME Inv, NEW i \in Rows, NEW state \in RowStates, Changed(i, state)
  PROVE  Inv'
<1>1. /\ rows \in [Rows -> RowStates]
      /\ listener \in [up : BOOLEAN, booting : BOOLEAN, hasConnected : BOOLEAN, signals : Nat]
      /\ stream \in [open : BOOLEAN, frame : BOOLEAN, missed : BOOLEAN]
      /\ listener.up => listener.hasConnected
  BY DEF Inv, TypeOK
<1>2. /\ rows' = [rows EXCEPT ![i] = state] /\ listener' = Announced(listener)
      /\ stream' = [stream EXCEPT !.missed = @ \/ (stream.open /\ ~listener.hasConnected)]
      /\ requests' = requests /\ store' = store /\ clicks' = clicks /\ faults' = faults
  BY DEF Changed
<1>3. /\ listener' \in [up : BOOLEAN, booting : BOOLEAN, hasConnected : BOOLEAN, signals : Nat]
      /\ listener'.up = listener.up /\ listener'.hasConnected = listener.hasConnected
      /\ listener.up => listener'.signals > 0
  BY <1>1, <1>2 DEF Announced
<1>4. /\ stream' \in [open : BOOLEAN, frame : BOOLEAN, missed : BOOLEAN]
      /\ stream'.open = stream.open
      /\ stream.open /\ ~listener.hasConnected => stream'.missed
  BY <1>1, <1>2
<1>5. TypeOK'
  BY <1>1, <1>2, <1>3, <1>4 DEF Inv, TypeOK
<1>6. Told'
  BY <1>1, <1>3, <1>4 DEF Told
<1> QED BY <1>1, <1>2, <1>3, <1>5, <1>6, TabStays

LEMMA ServerKeeps ==
  ASSUME Inv, Deliver \/ Connect \/ StartDeaf \/ LoseListener
  PROVE  Inv'
<1>1. /\ listener \in [up : BOOLEAN, booting : BOOLEAN, hasConnected : BOOLEAN, signals : Nat]
      /\ stream \in [open : BOOLEAN, frame : BOOLEAN, missed : BOOLEAN]
      /\ listener.up => listener.hasConnected
      /\ faults \in 0..MaxFaults /\ MaxFaults \in Nat
  BY FeedAssumption DEF Inv, TypeOK
<1>2. rows' = rows /\ requests' = requests /\ store' = store /\ clicks' = clicks
  BY DEF Deliver, Connect, StartDeaf, LoseListener
<1>3. /\ Framed(stream) \in [open : BOOLEAN, frame : BOOLEAN, missed : BOOLEAN]
      /\ Framed(stream).open = stream.open /\ Framed(stream).frame = stream.open
  BY <1>1 DEF Framed
<1>4. /\ listener' \in [up : BOOLEAN, booting : BOOLEAN, hasConnected : BOOLEAN, signals : Nat]
      /\ stream' \in [open : BOOLEAN, frame : BOOLEAN, missed : BOOLEAN]
      /\ faults' \in 0..MaxFaults
      /\ listener'.up => listener'.hasConnected
      /\ Told' \/ ~Told
  <2>1. CASE Deliver
    <3>1. /\ listener' = [listener EXCEPT !.signals = @ - 1] /\ listener.signals > 0
          /\ stream' = Framed(stream) /\ faults' = faults
      BY <2>1 DEF Deliver
    <3>2. Told'
      BY <1>3, <3>1 DEF Told
    <3> QED BY <1>1, <1>3, <3>1, <3>2
  <2>2. CASE Connect
    <3>1. /\ listener' = [listener EXCEPT !.up = TRUE, !.hasConnected = TRUE, !.booting = FALSE]
          /\ ~listener.up
          /\ stream' = IF listener.hasConnected THEN Framed(stream) ELSE stream
          /\ faults' = faults
      BY <2>2 DEF Connect, Reconnected
    <3>2. listener'.signals = listener.signals /\ listener'.up /\ listener'.hasConnected
      BY <1>1, <3>1
    <3>3. Told' \/ ~Told
      <4>1. CASE listener.hasConnected
        BY <4>1, <1>3, <3>1 DEF Told
      <4>2. CASE ~listener.hasConnected
        BY <4>2, <3>1, <3>2 DEF Told
      <4> QED BY <4>1, <4>2
    <3> QED BY <1>1, <1>3, <3>1, <3>2, <3>3
  <2>3. CASE StartDeaf
    <3>1. /\ listener' = [listener EXCEPT !.booting = FALSE]
          /\ stream' = stream /\ faults' = faults
      BY <2>3 DEF StartDeaf
    <3>2. /\ listener'.up = listener.up /\ listener'.hasConnected = listener.hasConnected
          /\ listener'.signals = listener.signals
      BY <1>1, <3>1
    <3>3. Told' <=> Told
      BY <3>1, <3>2 DEF Told
    <3> QED BY <1>1, <3>1, <3>2, <3>3
  <2>4. CASE LoseListener
    <3>1. /\ listener' = [listener EXCEPT !.up = FALSE, !.signals = 0] /\ listener.up
          /\ stream' = stream /\ faults < MaxFaults /\ faults' = faults + 1
      BY <2>4 DEF LoseListener, Fault
    <3>2. /\ listener' \in [up : BOOLEAN, booting : BOOLEAN, hasConnected : BOOLEAN, signals : Nat]
          /\ ~listener'.up /\ listener'.hasConnected
      BY <1>1, <3>1
    <3>3. Told'
      BY <3>2 DEF Told
    <3>4. faults' \in 0..MaxFaults
      BY <1>1, <3>1
    <3> QED BY <1>1, <3>1, <3>2, <3>3, <3>4
  <2> QED BY <2>1, <2>2, <2>3, <2>4
<1>5. TypeOK'
  BY <1>2, <1>4 DEF Inv, TypeOK
<1> QED BY <1>2, <1>4, <1>5, TabStays

LEMMA StreamKeeps ==
  ASSUME Inv, OpenStream \/ LoseStream \/ ExpireStream
  PROVE  Inv'
<1>1. faults \in 0..MaxFaults /\ MaxFaults \in Nat
  BY FeedAssumption DEF Inv, TypeOK
<1>2. /\ rows' = rows /\ listener' = listener /\ requests' = requests /\ store' = store
      /\ clicks' = clicks /\ faults' \in 0..MaxFaults
  BY <1>1 DEF OpenStream, LoseStream, ExpireStream, Fault
<1>3. /\ stream' \in [open : BOOLEAN, frame : BOOLEAN, missed : BOOLEAN]
      /\ ~stream'.open \/ stream'.frame
  <2>1. \/ stream' = [open |-> TRUE, frame |-> TRUE, missed |-> FALSE]
        \/ stream' = [open |-> FALSE, frame |-> FALSE, missed |-> FALSE]
    BY DEF OpenStream, LoseStream, ExpireStream, NoStream
  <2>2. stream' \in [open : BOOLEAN, frame : BOOLEAN, missed : BOOLEAN]
    <3>1. [open |-> TRUE, frame |-> TRUE, missed |-> FALSE]
            \in [open : BOOLEAN, frame : BOOLEAN, missed : BOOLEAN]
      OBVIOUS
    <3>2. [open |-> FALSE, frame |-> FALSE, missed |-> FALSE]
            \in [open : BOOLEAN, frame : BOOLEAN, missed : BOOLEAN]
      OBVIOUS
    <3> QED BY <2>1, <3>1, <3>2
  <2>3. stream'.open = FALSE \/ stream'.frame = TRUE
    BY <2>1
  <2> QED BY <2>2, <2>3
<1>4. TypeOK' /\ Told'
  BY <1>2, <1>3 DEF Inv, TypeOK, Told
<1>5. (listener.up => listener.hasConnected)'
  BY <1>2 DEF Inv
<1> QED BY <1>2, <1>4, <1>5, TabStays

\* A store whose request has failed
LEMMA FailedIsStore ==
  ASSUME Inv, NEW kinds
  PROVE  LET s == Failed(store, kinds)
         IN  /\ s \in Stores
             /\ s.list = store.list /\ s.cursor = store.cursor
             /\ s = store \/ s.status = "failed"
  BY DEF Inv, TypeOK, Stores, Failed

LEMMA RestartKeeps ==
  ASSUME Inv, Restart
  PROVE  Inv'
<1>1. /\ rows' = rows /\ clicks' = clicks /\ faults < MaxFaults /\ faults' = faults + 1
      /\ listener' = [up |-> FALSE, booting |-> TRUE, hasConnected |-> FALSE, signals |-> 0]
      /\ stream' = NoStream /\ requests' = [k \in Kinds |-> Unsent]
      /\ store' = Failed(store, Kinds)
  BY DEF Restart, Fault
<1>2. /\ listener' \in [up : BOOLEAN, booting : BOOLEAN, hasConnected : BOOLEAN, signals : Nat]
      /\ stream' \in [open : BOOLEAN, frame : BOOLEAN, missed : BOOLEAN]
      /\ ~listener'.up /\ ~stream'.open
      /\ requests' \in [Kinds -> Requests] /\ \A k \in Kinds : requests'[k] = Unsent
  BY <1>1, UnsentIsRequest DEF NoStream
<1>3. /\ store' \in Stores /\ store'.list = store.list /\ store'.cursor = store.cursor
  BY <1>1, FailedIsStore
<1>4. faults' \in 0..MaxFaults
  BY <1>1, FeedAssumption DEF Inv, TypeOK
<1>5. TypeOK'
  BY <1>1, <1>2, <1>3, <1>4 DEF Inv, TypeOK, Stores
<1>6. Orderly'
  <2>1. \A k \in Kinds : requests'[k].at = "none" /\ requests'[k].page = <<>>
                         /\ requests'[k].count = NoCount
    BY <1>2 DEF Unsent
  <2>2. \A k \in Kinds : Asked(k)'
    BY <2>1 DEF Asked
  <2>3. Continues' /\ Alone'
    BY <2>1 DEF Continues, Alone, Kinds, Snapshots
  <2> QED BY <2>2, <2>3, <1>3 DEF Inv, Orderly
<1>7. Told'
  BY <1>2 DEF Told
<1> QED BY <1>2, <1>5, <1>6, <1>7 DEF Inv

-----------------------------------------------------------------------------
(* The tab sends *)

LEMMA SentIsOrderly ==
  ASSUME Inv, NEW k \in Kinds, NEW target \in Rows \cup {NoRow}, NEW at \in {"sent", "reading"},
         Send(k, target, at), at = "sent" => k \in {"mark", "mark all"},
         k = "more" => target # NoRow /\ target = store.cursor,
         store'.list = store.list, store'.cursor = store.cursor
  PROVE  Orderly'
<1> TypeOK
  BY DEF Inv
<1>1. \A x \in Kinds \ {k} :
        /\ requests'[x].at = requests[x].at /\ requests'[x].target = requests[x].target
        /\ requests'[x].page = requests[x].page /\ requests'[x].count = requests[x].count
        /\ requests'[x].current = requests[x].current
        /\ requests'[x].alone => requests[x].alone /\ (x \notin Beside(k) \/ k = "more")
  BY Sent
<1>2. /\ requests'[k].at = at /\ requests'[k].target = target
      /\ requests'[k].page = <<>> /\ requests'[k].count = NoCount
      /\ requests'[k].alone => k = "more" \/ Beside(k) = {}
  BY Sent
<1>3. /\ (\A x \in Kinds : Asked(x)) /\ Continues /\ Alone /\ Ends(store.list, store.cursor)
  BY DEF Inv, Orderly
<1>4. ASSUME NEW x \in Kinds PROVE Asked(x)'
  <2>1. CASE x = k
    BY <1>2, <2>1 DEF Asked
  <2>2. CASE x # k
    BY <1>1, <1>3, <2>2 DEF Asked
  <2> QED BY <2>1, <2>2
<1>5. Continues'
  <2>1. CASE k = "more"
    BY <1>2, <2>1 DEF Continues
  <2>2. CASE k # "more"
    BY <1>1, <1>3, <2>2 DEF Continues, Kinds
  <2> QED BY <2>1, <2>2
<1>6. Alone'
  <2>1. SUFFICES ASSUME NEW x \in Snapshots, requests'[x].at # "none", requests'[x].alone,
                        NEW y \in Snapshots \ {x}
                 PROVE  requests'[y].at = "none"
    BY DEF Alone
  <2>2. \A z \in Snapshots \ {k} : z \in Kinds \ {k} /\ (z \in Beside(k) <=> requests[z].at # "none")
    BY DEF Snapshots, Beside
  <2>3. CASE k = "more"
    BY <2>1, <2>2, <2>3, <1>1, <1>3 DEF Alone, Snapshots
  <2>4. CASE k # "more" /\ x = k
    BY <2>1, <2>2, <2>4, <1>1, <1>2
  <2>5. CASE k # "more" /\ x # k
    BY <2>1, <2>2, <2>5, <1>1
  <2> QED BY <2>3, <2>4, <2>5
<1> QED BY <1>3, <1>4, <1>5, <1>6 DEF Orderly

\* Whoever asks for the newest page has nothing yet, nor have others that it
\* does not cross.
LEMMA SentAnswers ==
  ASSUME Inv, NEW k \in Snapshots, NEW target \in Rows \cup {NoRow}, NEW at \in {"sent", "reading"},
         Send(k, target, at)
  PROVE  Answers' /\ Shown'
<1>1. k \in Kinds /\ k # "more"
  BY DEF Snapshots
<1> TypeOK
  BY DEF Inv
<1>2. \A x \in Kinds \ {k} :
        /\ requests'[x].page = requests[x].page /\ requests'[x].count = requests[x].count
        /\ requests'[x].alone => requests[x].alone /\ (x \notin Beside(k) \/ k = "more")
  BY <1>1, Sent
<1>3. requests'[k].at # "none" /\ requests'[k].page = <<>> /\ requests'[k].count = NoCount
  BY <1>1, Sent
<1>4. ASSUME NEW x \in Snapshots, requests'[x].alone
      PROVE  requests'[x].page = <<>> /\ requests'[x].count = NoCount
  <2>1. CASE x = k
    BY <1>3, <2>1
  <2>2. CASE x # k
    <3>1. x \in Kinds \ {k, "more"}
      BY <2>2 DEF Snapshots
    <3>2. requests[x].at = "none"
      BY <1>1, <1>2, <1>4, <3>1 DEF Beside
    <3>3. requests[x].page = <<>> /\ requests[x].count = NoCount
      BY <3>1, <3>2 DEF Inv, Orderly, Asked
    <3> QED BY <1>2, <3>1, <3>3
  <2> QED BY <2>1, <2>2
<1>5. Answers'
  BY <1>4 DEF Answers
<1>6. Shown'
  BY <1>3 DEF Shown
<1> QED BY <1>5, <1>6

LEMMA HandleFrameKeeps ==
  ASSUME Inv, HandleFrame
  PROVE  Inv'
<1>1. /\ stream' = [stream EXCEPT !.frame = FALSE, !.missed = FALSE]
      /\ Send("head", NoRow, "reading")
      /\ store' = [store EXCEPT !.status = IF @ = "succeeded" THEN @ ELSE "loading"]
      /\ rows' = rows /\ listener' = listener /\ clicks' = clicks /\ faults' = faults
  BY DEF HandleFrame
<1>2. "head" \in Kinds /\ "head" \in Snapshots
  BY DEF Kinds, Snapshots
<1>3. requests' \in [Kinds -> Requests]
  BY <1>1, <1>2, Sent DEF Inv
<1>4. store \in Stores /\ stream \in [open : BOOLEAN, frame : BOOLEAN, missed : BOOLEAN]
  BY DEF Inv, TypeOK, Stores
<1>5. /\ store' \in Stores /\ store'.list = store.list /\ store'.cursor = store.cursor
      /\ stream' \in [open : BOOLEAN, frame : BOOLEAN, missed : BOOLEAN]
  BY <1>1, <1>4 DEF Stores
<1>6. TypeOK'
  BY <1>1, <1>3, <1>5 DEF Inv, TypeOK, Stores
<1>7. Orderly'
  BY <1>1, <1>2, <1>5, SentIsOrderly
<1>8. Answers' /\ Shown'
  BY <1>1, <1>2, SentAnswers
<1> QED BY <1>1, <1>6, <1>7, <1>8 DEF Inv

LEMMA CountedOn ==
  ASSUME NEW bound \in Nat, NEW n \in 0..bound, n < bound
  PROVE  n + 1 \in 0..bound
OBVIOUS

LEMMA ClickKeeps ==
  ASSUME Inv, NEW k \in {"mark", "mark all"}, NEW target \in Rows \cup {NoRow}, Click(k, target)
  PROVE  Inv'
<1>1. /\ Send(k, target, "sent") /\ clicks < MaxClicks /\ clicks' = clicks + 1
      /\ rows' = rows /\ listener' = listener /\ stream' = stream /\ store' = store
      /\ faults' = faults
  BY DEF Click
<1>2. k \in Kinds /\ k \in Snapshots
  BY DEF Kinds, Snapshots
<1>3. requests' \in [Kinds -> Requests]
  BY <1>1, <1>2, Sent DEF Inv
<1>4. clicks' \in 0..MaxClicks
  <2>1. clicks \in 0..MaxClicks /\ MaxClicks \in Nat
    BY FeedAssumption DEF Inv, TypeOK
  <2>2. clicks < MaxClicks /\ clicks' = clicks + 1
    BY <1>1
  <2> QED BY <2>1, <2>2, CountedOn
<1>5. TypeOK'
  BY <1>1, <1>3, <1>4 DEF Inv, TypeOK
<1>6. Orderly'
  BY <1>1, <1>2, SentIsOrderly
<1>7. Answers' /\ Shown'
  BY <1>1, <1>2, SentAnswers
<1> QED BY <1>1, <1>5, <1>6, <1>7 DEF Inv

LEMMA AskMoreKeeps ==
  ASSUME Inv, AskMore
  PROVE  Inv'
<1>1. /\ Send("more", store.cursor, "reading") /\ store.cursor # NoRow
      /\ rows' = rows /\ listener' = listener /\ stream' = stream /\ store' = store
      /\ clicks' = clicks /\ faults' = faults
  BY DEF AskMore
<1>2. "more" \in Kinds /\ store.cursor \in Rows \cup {NoRow}
  BY DEF Kinds, Inv, TypeOK
<1>3. /\ requests' \in [Kinds -> Requests]
      /\ \A x \in Snapshots :
           /\ requests'[x].at = requests[x].at /\ requests'[x].page = requests[x].page
           /\ requests'[x].count = requests[x].count
           /\ requests'[x].alone => requests[x].alone
  BY <1>1, <1>2, Sent DEF Inv, Snapshots
<1>4. TypeOK'
  BY <1>1, <1>3 DEF Inv, TypeOK
<1>5. Orderly'
  BY <1>1, <1>2, SentIsOrderly
<1>6. Told' <=> Told
  BY <1>1 DEF Told
<1>7. ASSUME Answers, Shown PROVE Answers' /\ Shown'
  <2>1. PageAt(NoRow)' = PageAt(NoRow) /\ Unread' = Unread
    BY <1>1, SameTable
  <2>2. Fresh' <=> Fresh
    BY <1>1, <2>1 DEF Fresh
  <2> QED BY <1>1, <1>3, <1>7, <2>1, <2>2 DEF Answers, Shown
<1> QED BY <1>1, <1>4, <1>5, <1>6, <1>7 DEF Inv

-----------------------------------------------------------------------------
(* The server answers *)

LEMMA ArriveKeeps ==
  ASSUME Inv, NEW k \in Kinds, Arrive(k)
  PROVE  Inv'
<1>1. /\ requests[k].at = "sent"
      /\ rows' = [i \in Rows |-> IF i \in Marked(k) THEN "read" ELSE rows[i]]
      /\ requests' = [requests EXCEPT ![k].at = "reading", ![k].target = NoRow]
      /\ listener' = listener /\ stream' = stream /\ store' = store
      /\ clicks' = clicks /\ faults' = faults
  BY DEF Arrive
<1>2. /\ requests \in [Kinds -> Requests] /\ rows \in [Rows -> RowStates]
      /\ \A x \in Kinds : Asked(x)
      /\ Continues /\ Alone /\ Ends(store.list, store.cursor)
  BY DEF Inv, TypeOK, Orderly
<1>3. k \in {"mark", "mark all"} /\ k \in Snapshots
      /\ requests[k].page = <<>> /\ requests[k].count = NoCount
  BY <1>1, <1>2 DEF Asked, Snapshots
<1>4. /\ requests' \in [Kinds -> Requests]
      /\ requests'[k].at = "reading"
      /\ requests'[k].page = <<>> /\ requests'[k].count = NoCount
      /\ requests'[k].alone = requests[k].alone
      /\ \A x \in Kinds \ {k} : requests'[x] = requests[x]
  <2>1. requests[k] \in Requests
    BY <1>2
  <2>2. requests'[k] = [requests[k] EXCEPT !.at = "reading", !.target = NoRow]
    BY <1>1, <1>2
  <2>3. /\ requests'[k] \in Requests
        /\ requests'[k].at = "reading"
        /\ requests'[k].page = <<>> /\ requests'[k].count = NoCount
        /\ requests'[k].alone = requests[k].alone
    BY <2>1, <2>2, <1>3 DEF Requests
  <2>4. DOMAIN requests' = Kinds /\ \A x \in Kinds \ {k} : requests'[x] = requests[x]
    BY <1>1, <1>2
  <2>5. requests' = [x \in Kinds |-> requests'[x]]
    BY <1>1, <1>2
  <2> HIDE <1>1
  <2> QED BY <2>3, <2>4, <2>5, <1>2
<1>5. rows' \in [Rows -> RowStates]
  BY <1>1, <1>2 DEF RowStates
<1>6. TypeOK'
  BY <1>1, <1>4, <1>5 DEF Inv, TypeOK
<1>7. Orderly'
  <2>1. ASSUME NEW x \in Kinds PROVE Asked(x)'
    BY <1>2, <1>3, <1>4 DEF Asked
  <2>2. Continues'
    BY <1>1, <1>2, <1>3, <1>4 DEF Continues, Kinds
  <2>3. Alone'
    BY <1>1, <1>2, <1>3, <1>4 DEF Alone, Snapshots
  <2> QED BY <1>1, <1>2, <2>1, <2>2, <2>3 DEF Orderly
<1>8. Answers'
  <2>1. ASSUME NEW x \in Snapshots, requests'[x].alone
        PROVE  requests'[x].page = <<>> /\ requests'[x].count = NoCount
    <3>1. CASE x = k
      BY <1>4, <3>1
    <3>2. CASE x # k
      <4>1. x \in Kinds \ {k} /\ requests'[x] = requests[x]
        BY <1>4, <3>2 DEF Snapshots
      <4>2. requests[x].at = "none"
        BY <1>1, <1>2, <1>3, <2>1, <3>2, <4>1 DEF Alone
      <4> QED BY <1>2, <4>1, <4>2 DEF Asked
    <3> QED BY <3>1, <3>2
  <2> QED BY <2>1 DEF Answers
<1>9. Shown'
  BY <1>3, <1>4 DEF Shown
<1> QED BY <1>1, <1>6, <1>7, <1>8, <1>9 DEF Inv

PageParts == Pages \cup {<<>>}

CountParts == {NoCount} \cup 0..Cardinality(Rows)

Filled(q, page, count) == [q EXCEPT !.page = page, !.count = count]

LEMMA FilledIsRequest ==
  ASSUME NEW q \in Requests, NEW page \in PageParts, NEW count \in CountParts
  PROVE  /\ Filled(q, page, count) \in Requests
         /\ Filled(q, page, count).at = q.at /\ Filled(q, page, count).target = q.target
         /\ Filled(q, page, count).current <=> q.current
         /\ Filled(q, page, count).alone <=> q.alone
         /\ Filled(q, page, count).page = page /\ Filled(q, page, count).count = count
BY DEF Filled, Requests, PageParts, CountParts

\* What a query leaves in a request that it answers
LEMMA Queried ==
  ASSUME Inv, NEW k \in Kinds, requests[k].at = "reading",
         NEW page \in Pages \cup {<<>>}, NEW count \in {NoCount} \cup 0..Cardinality(Rows),
         requests' = [requests EXCEPT ![k].page = page, ![k].count = count],
         page # <<>> => Ends(page.list, page.next),
         k = "more" /\ page # <<>> => \A i \in On(page.list) : i < requests[k].target,
         k # "more" /\ page # requests[k].page => page = PageAt(NoRow),
         k # "more" /\ count # requests[k].count => count = Cardinality(Unread),
         UNCHANGED <<rows, listener, stream, store, clicks, faults>>
  PROVE  Inv'
<1>1. /\ requests \in [Kinds -> Requests]
      /\ \A x \in Kinds : Asked(x)
      /\ Continues /\ Alone /\ Ends(store.list, store.cursor)
  BY DEF Inv, TypeOK, Orderly
<1>2. /\ requests'[k] \in Requests
      /\ requests'[k].at = requests[k].at /\ requests'[k].target = requests[k].target
      /\ requests'[k].current <=> requests[k].current
      /\ requests'[k].alone <=> requests[k].alone
      /\ requests'[k].page = page /\ requests'[k].count = count
  <2>1. requests[k] \in Requests
    BY <1>1
  <2>2. requests'[k] = Filled(requests[k], page, count)
    BY <1>1 DEF Filled
  <2>3. page \in PageParts /\ count \in CountParts
    BY DEF PageParts, CountParts
  <2> QED BY ONLY <2>1, <2>2, <2>3, FilledIsRequest
<1>3. /\ DOMAIN requests' = Kinds /\ requests' = [x \in Kinds |-> requests'[x]]
      /\ \A x \in Kinds \ {k} : requests'[x] = requests[x]
  BY <1>1
<1>4. requests' \in [Kinds -> Requests]
  BY <1>1, <1>2, <1>3
<1>5. TypeOK'
  BY <1>4 DEF Inv, TypeOK
<1>6. Orderly'
  <2>1. ASSUME NEW x \in Kinds PROVE Asked(x)'
    BY <1>1, <1>2, <1>3 DEF Asked
  <2>2. Continues'
    <3>1. CASE k = "more"
      BY <1>1, <1>2, <3>1 DEF Continues
    <3>2. CASE k # "more"
      BY <1>1, <1>3, <3>2 DEF Continues, Kinds
    <3> QED BY <3>1, <3>2
  <2>3. \A x \in Snapshots : requests'[x].at = requests[x].at /\ (requests'[x].alone <=> requests[x].alone)
    BY <1>2, <1>3 DEF Snapshots
  <2>4. Alone'
    BY <1>1, <2>3 DEF Alone
  <2> QED BY <1>1, <2>1, <2>2, <2>4 DEF Orderly
<1>7. Told' <=> Told
  BY DEF Told
<1>8. ASSUME Answers, Shown PROVE Answers' /\ Shown'
  <2>1. PageAt(NoRow)' = PageAt(NoRow) /\ Unread' = Unread
    BY SameTable
  <2>2. Fresh' <=> Fresh
    BY <2>1 DEF Fresh
  <2>3. Answers'
    <3>1. SUFFICES ASSUME NEW x \in Snapshots, requests'[x].alone
                   PROVE  /\ requests'[x].page # <<>> => requests'[x].page = PageAt(NoRow)
                          /\ requests'[x].count # NoCount => requests'[x].count = Cardinality(Unread)
      BY <2>1 DEF Answers
    <3>2. CASE x = k
      BY <1>2, <1>8, <3>1, <3>2 DEF Answers, Snapshots
    <3>3. CASE x # k
      BY <1>3, <1>8, <3>1, <3>3 DEF Answers, Snapshots
    <3> QED BY <3>2, <3>3
  <2>4. \A x \in Snapshots : requests'[x].at = requests[x].at
    BY <1>2, <1>3 DEF Snapshots
  <2>5. Shown'
    BY <1>8, <2>2, <2>4 DEF Shown
  <2> QED BY <2>3, <2>5
<1> QED BY <1>5, <1>6, <1>7, <1>8 DEF Inv

LEMMA ReadPageKeeps ==
  ASSUME Inv, NEW k \in Kinds, ReadPage(k)
  PROVE  Inv'
<1> DEFINE page == PageAt(Cursor(k))
           count == requests[k].count
<1>1. /\ requests[k].at = "reading"
      /\ requests' = [requests EXCEPT ![k].page = page]
      /\ UNCHANGED <<rows, listener, stream, store, clicks, faults>>
  BY DEF ReadPage
<1>2. requests \in [Kinds -> Requests] /\ requests[k] \in Requests
  BY DEF Inv, TypeOK
<1>3. Cursor(k) \in Rows \cup {NoRow} /\ count \in {NoCount} \cup 0..Cardinality(Rows)
  BY <1>2 DEF Cursor, Requests
<1>4. /\ page \in Pages /\ Ends(page.list, page.next)
      /\ Cursor(k) # NoRow => \A i \in On(page.list) : i < Cursor(k)
  BY <1>3, PageAtIsPage DEF Inv
<1>5. k # "more" => page = PageAt(NoRow)
  BY DEF Cursor
<1>6. k = "more" => Cursor(k) = requests[k].target /\ requests[k].target # NoRow
  BY <1>1 DEF Cursor, Inv, Orderly, Continues
<1> HIDE DEF page
<1>7. requests' = [requests EXCEPT ![k].page = page, ![k].count = count]
  BY <1>1, <1>2 DEF Requests
<1> HIDE DEF count
<1>8. count = requests[k].count
  BY DEF count
<1>9. page \in Pages \cup {<<>>} /\ (page # <<>> => Ends(page.list, page.next))
  BY <1>4
<1>10. k = "more" /\ page # <<>> => \A i \in On(page.list) : i < requests[k].target
  BY <1>4, <1>6
<1>11. k # "more" /\ page # requests[k].page => page = PageAt(NoRow)
  BY <1>5
<1>12. k # "more" /\ count # requests[k].count => count = Cardinality(Unread)
  BY <1>8
<1> QED BY <1>1, <1>3, <1>7, <1>9, <1>10, <1>11, <1>12, Queried

LEMMA ReadCountKeeps ==
  ASSUME Inv, NEW k \in Kinds, ReadCount(k)
  PROVE  Inv'
<1> DEFINE page == requests[k].page
           count == Cardinality(Unread)
<1>1. /\ requests[k].at = "reading" /\ k # "more"
      /\ requests' = [requests EXCEPT ![k].count = count]
      /\ UNCHANGED <<rows, listener, stream, store, clicks, faults>>
  BY DEF ReadCount
<1>2. requests \in [Kinds -> Requests] /\ requests[k] \in Requests
  BY DEF Inv, TypeOK
<1>3. page \in Pages \cup {<<>>} /\ count \in 0..Cardinality(Rows)
  BY <1>2, Counts DEF Requests, Inv
<1>4. page # <<>> => Ends(page.list, page.next)
  BY DEF Inv, Orderly, Asked
<1> HIDE DEF count
<1>5. requests' = [requests EXCEPT ![k].page = page, ![k].count = count]
  BY <1>1, <1>2 DEF Requests
<1> HIDE DEF page
<1>6. page = requests[k].page /\ count = Cardinality(Unread)
  BY DEF page, count
<1> QED BY <1>1, <1>3, <1>4, <1>5, <1>6, Queried

-----------------------------------------------------------------------------
(* The tab receives *)

LEMMA ReceivedRequests ==
  ASSUME TypeOK, NEW k \in Snapshots, Receive(k)
  PROVE  /\ requests' \in [Kinds -> Requests]
         /\ requests'[k] = Unsent
         /\ \A x \in Kinds \ {k} :
              /\ requests'[x].at = requests[x].at /\ requests'[x].target = requests[x].target
              /\ requests'[x].page = requests[x].page /\ requests'[x].count = requests[x].count
              /\ requests'[x].current => requests[x].current
              /\ requests'[x].alone => requests[x].alone
         /\ requests'["more"].at # "none" /\ requests'["more"].current
              => k # "mark all" /\ ~Regenerated(store, requests[k])
<1> DEFINE more == requests["more"]
           current == more.current /\ ~(/\ more.at # "none"
                                        /\ k = "mark all" \/ Regenerated(store, requests[k]))
<1>1. requests' = [requests EXCEPT ![k] = Unsent, !["more"].current = current]
  BY DEF Receive
<1>2. /\ requests \in [Kinds -> Requests] /\ k \in Kinds /\ "more" \in Kinds /\ k # "more"
  BY DEF TypeOK, Kinds, Snapshots
<1>3. more \in Requests
  BY <1>2
<1>4. current \in BOOLEAN
  BY <1>3 DEF Requests
<1>5. /\ requests'["more"] = [more EXCEPT !.current = current]
      /\ requests'[k] = Unsent
      /\ \A x \in Kinds \ {k, "more"} : requests'[x] = requests[x]
      /\ requests' = [x \in Kinds |-> requests'[x]]
  <2> HIDE DEF current
  <2> QED BY <1>1, <1>2
<1>6. /\ requests'["more"] \in Requests
      /\ requests'["more"].at = more.at /\ requests'["more"].target = more.target
      /\ requests'["more"].page = more.page /\ requests'["more"].count = more.count
      /\ requests'["more"].current = current
      /\ requests'["more"].alone = more.alone
  <2> HIDE DEF current, more
  <2> QED BY <1>3, <1>4, <1>5 DEF Requests
<1>7. requests' \in [Kinds -> Requests]
  <2>1. ASSUME NEW x \in Kinds PROVE requests'[x] \in Requests
    BY <1>2, <1>5, <1>6, UnsentIsRequest
  <2> QED BY <1>5, <2>1
<1>8. ASSUME NEW x \in Kinds \ {k}
      PROVE  /\ requests'[x].at = requests[x].at /\ requests'[x].target = requests[x].target
             /\ requests'[x].page = requests[x].page /\ requests'[x].count = requests[x].count
             /\ requests'[x].current => requests[x].current
             /\ requests'[x].alone => requests[x].alone
  <2>1. CASE x = "more"
    BY <1>6, <2>1
  <2>2. CASE x # "more"
    BY <1>5, <2>2
  <2> QED BY <2>1, <2>2
<1>9. requests'["more"].at # "none" /\ requests'["more"].current
        => k # "mark all" /\ ~Regenerated(store, requests[k])
  BY <1>6
<1> QED BY <1>5, <1>7, <1>8, <1>9

\* A page that regenerates nothing leaves the end of the list where it was.
LEMMA StaysTheEnd ==
  ASSUME NEW s, s.cursor # NoRow, NEW q, ~Regenerated(s, q)
  PROVE  Merged(s, q).cursor = s.cursor
<1>1. Merged(s, q).cursor = IF Tail(s, q.page) = {} THEN q.page.next ELSE s.cursor
  BY DEF Merged
<1> QED BY <1>1 DEF Regenerated

LEMMA StoreIsTyped ==
  ASSUME NEW s \in Stores, Ends(s.list, s.cursor)
  PROVE  s.cursor # NoRow => \A i \in Rows : s.list[i] # "absent" => s.cursor <= i
BY DEF Ends, On

LEMMA ReceiveKeeps ==
  ASSUME Inv, NEW k \in Kinds, Receive(k)
  PROVE  Inv'
<1> DEFINE q == requests[k]
           m == Merged(store, q)
<1>1. /\ q.page # <<>> /\ q.count # NoCount /\ k # "more"
      /\ store' = IF k = "mark all" THEN Stamped(m, q) ELSE m
      /\ rows' = rows /\ listener' = listener /\ stream' = stream
      /\ clicks' = clicks /\ faults' = faults
  BY DEF Receive
<1>2. /\ TypeOK /\ requests \in [Kinds -> Requests] /\ store \in Stores
      /\ \A x \in Kinds : Asked(x)
      /\ Continues /\ Alone /\ Ends(store.list, store.cursor)
  BY DEF Inv, TypeOK, Orderly, Stores
<1>3. k \in Snapshots
  BY <1>1 DEF Snapshots
<1>4. /\ q.page \in Pages /\ q.count \in 0..Cardinality(Rows) /\ q.alone \in BOOLEAN
      /\ Ends(q.page.list, q.page.next)
  <2>1. q \in Requests
    BY <1>2
  <2>2. /\ q.page \in Pages \cup {<<>>} /\ q.count \in {NoCount} \cup 0..Cardinality(Rows)
        /\ q.alone \in BOOLEAN
    <3> HIDE DEF q
    <3> QED BY <2>1 DEF Requests
  <2>3. Asked(k)
    BY <1>2
  <2>4. Ends(q.page.list, q.page.next)
    BY <1>1, <2>3 DEF Asked
  <2> HIDE DEF q
  <2> QED BY <1>1, <2>2, <2>4
<1>5. /\ requests' \in [Kinds -> Requests]
      /\ requests'[k] = Unsent
      /\ \A x \in Kinds \ {k} :
           /\ requests'[x].at = requests[x].at /\ requests'[x].target = requests[x].target
           /\ requests'[x].page = requests[x].page /\ requests'[x].count = requests[x].count
           /\ requests'[x].current => requests[x].current
           /\ requests'[x].alone => requests[x].alone
      /\ requests'["more"].at # "none" /\ requests'["more"].current
           => k # "mark all" /\ ~Regenerated(store, q)
  BY <1>2, <1>3, ReceivedRequests
<1>6. /\ requests'[k].at = "none" /\ requests'[k].page = <<>> /\ requests'[k].count = NoCount
  <2>1. requests'[k] = Unsent
    BY <1>5
  <2> QED BY <2>1, UnsentIsRequest
<1> HIDE DEF q
<1>7. /\ m \in Stores /\ Ends(m.list, m.cursor) /\ m.status = "succeeded" /\ m.alone = q.alone
  BY <1>2, <1>4, MergedIsStore
<1> HIDE DEF m
<1>8. /\ store' \in Stores /\ Ends(store'.list, store'.cursor)
      /\ store'.status = "succeeded" /\ (store'.alone <=> q.alone)
      /\ store'.cursor = m.cursor
  <2>1. CASE k = "mark all"
    <3>1. store' = Stamped(m, q)
      BY <1>1, <2>1
    <3>2. /\ Stamped(m, q) \in Stores /\ On(Stamped(m, q).list) = On(m.list)
          /\ Stamped(m, q).status = m.status /\ Stamped(m, q).alone = m.alone
          /\ Stamped(m, q).cursor = m.cursor
      BY <1>7, StampedIsStore
    <3> QED BY <1>7, <3>1, <3>2 DEF Ends
  <2>2. CASE k # "mark all"
    <3>1. store' = m
      BY <1>1, <2>2
    <3> QED BY <1>7, <3>1
  <2> QED BY <2>1, <2>2
<1>9. TypeOK'
  <2>1. store'.cursor # NoRow => \A i \in Rows : store'.list[i] # "absent" => store'.cursor <= i
    BY <1>8, StoreIsTyped
  <2> QED BY <1>1, <1>2, <1>5, <1>8, <2>1 DEF TypeOK, Stores
<1>10. Orderly'
  <2>1. ASSUME NEW x \in Kinds PROVE Asked(x)'
    <3>1. CASE x = k
      BY <1>6, <3>1 DEF Asked
    <3>2. CASE x # k
      BY <1>2, <1>5, <3>2 DEF Asked
    <3> QED BY <3>1, <3>2
  <2>2. Continues'
    <3>1. "more" \in Kinds \ {k}
      BY <1>1 DEF Kinds
    <3>2. /\ requests'["more"].at = requests["more"].at
          /\ requests'["more"].target = requests["more"].target
          /\ requests'["more"].page = requests["more"].page
          /\ requests'["more"].current => requests["more"].current
      BY <1>5, <3>1
    <3>3. SUFFICES ASSUME requests'["more"].at # "none", requests'["more"].current
                   PROVE  store'.cursor = requests["more"].target
      BY <1>2, <3>2 DEF Continues
    <3>4. store.cursor = requests["more"].target /\ store.cursor # NoRow
      BY <1>2, <3>2, <3>3 DEF Continues
    <3>5. ~Regenerated(store, q)
      BY <1>5, <3>3
    <3>6. m.cursor = store.cursor
      BY <3>4, <3>5, StaysTheEnd DEF m
    <3> QED BY <1>8, <3>4, <3>6
  <2>3. Alone'
    <3>1. \A x \in Snapshots \ {k} : /\ requests'[x].at = requests[x].at
                                     /\ requests'[x].alone => requests[x].alone
      BY <1>5 DEF Snapshots
    <3> QED BY <1>2, <1>6, <3>1 DEF Alone
  <2> QED BY <1>8, <2>1, <2>2, <2>3 DEF Orderly
<1>11. Told' <=> Told
  BY <1>1 DEF Told
<1>12. ASSUME Answers PROVE Answers' /\ Shown'
  <2>1. /\ PageAt(NoRow)' = PageAt(NoRow) /\ Unread' = Unread
        /\ \A s : Shows(s)' <=> Shows(s)
    BY <1>1, SameTable
  <2>2. Answers'
    <3>1. ASSUME NEW x \in Snapshots, requests'[x].alone
          PROVE  /\ requests'[x].page # <<>> => requests'[x].page = PageAt(NoRow)
                 /\ requests'[x].count # NoCount => requests'[x].count = Cardinality(Unread)
      <4>1. CASE x = k
        BY <1>6, <4>1
      <4>2. CASE x # k
        <5>1. /\ requests'[x].page = requests[x].page /\ requests'[x].count = requests[x].count
              /\ requests[x].alone
          BY <1>5, <3>1, <4>2 DEF Snapshots
        <5> QED BY <1>12, <5>1 DEF Answers
      <4> QED BY <4>1, <4>2
    <3> QED BY <2>1, <3>1 DEF Answers
  <2>3. ASSUME store'.alone PROVE Fresh'
    <3>1. q.alone
      BY <1>8, <2>3
    <3>2. q.page = PageAt(NoRow) /\ q.count = Cardinality(Unread)
      BY <1>1, <1>3, <1>12, <3>1 DEF Answers, q
    <3>3. Shows(m) /\ Shows(Stamped(m, q))
      BY <1>2, <1>4, <3>2, AnswerShows DEF m
    <3>4. Shows(store)'
      BY <1>1, <2>1, <3>3
    <3> QED BY <3>4 DEF Fresh, Shows
  <2> QED BY <2>2, <2>3 DEF Shown
<1> QED BY <1>1, <1>9, <1>10, <1>11, <1>12 DEF Inv

LEMMA ReceiveMoreKeeps ==
  ASSUME Inv, ReceiveMore
  PROVE  Inv'
<1> DEFINE q == requests["more"]
           added == On(q.page.list) \ On(store.list)
           list == [i \in Rows |-> IF i \in added THEN q.page.list[i] ELSE store.list[i]]
           cursor == IF added = {} THEN NoRow ELSE q.page.next
           longer == [store EXCEPT !.list = list, !.cursor = cursor]
<1>1. /\ q.page # <<>>
      /\ store' = IF ~q.current THEN store ELSE longer
      /\ requests' = [requests EXCEPT !["more"] = Unsent]
      /\ rows' = rows /\ listener' = listener /\ stream' = stream
      /\ clicks' = clicks /\ faults' = faults
  BY DEF ReceiveMore
<1>2. /\ TypeOK /\ requests \in [Kinds -> Requests] /\ store \in Stores
      /\ \A x \in Kinds : Asked(x)
      /\ Continues /\ Alone /\ Ends(store.list, store.cursor)
  BY DEF Inv, TypeOK, Orderly, Stores
<1>3. "more" \in Kinds /\ \A x \in Snapshots : x \in Kinds /\ x # "more"
  BY DEF Kinds, Snapshots
<1>4. q.page \in Pages /\ Ends(q.page.list, q.page.next) /\ q.at # "none"
  <2>1. q \in Requests /\ Asked("more")
    BY <1>2, <1>3
  <2>2. q.page \in Pages \cup {<<>>}
    <3> HIDE DEF q
    <3> QED BY <2>1 DEF Requests
  <2>3. Ends(q.page.list, q.page.next) /\ q.at = "reading"
    BY <1>1, <2>1 DEF Asked
  <2> HIDE DEF q
  <2> QED BY <1>1, <2>2, <2>3
<1>5. /\ \A i \in On(q.page.list) : i < q.target
      /\ q.target # NoRow
      /\ q.current => store.cursor = q.target
  BY <1>1, <1>2, <1>4 DEF Continues
<1>6. /\ requests' \in [Kinds -> Requests]
      /\ requests'["more"] = Unsent
      /\ \A x \in Snapshots : requests'[x] = requests[x]
  BY <1>1, <1>2, <1>3, UnsentIsRequest
<1>7. requests'["more"].at = "none" /\ requests'["more"].page = <<>> /\ requests'["more"].count = NoCount
  <2>1. requests'["more"] = Unsent
    BY <1>6
  <2> QED BY <2>1, UnsentIsRequest
<1> HIDE DEF q
<1>8. /\ On(q.page.list) \subseteq Rows /\ On(store.list) \subseteq Rows
      /\ On(q.page.list) \subseteq Nat /\ On(store.list) \subseteq Nat
      /\ store.list \in Lists /\ q.page.list \in Lists /\ q.page.next \in Rows \cup {NoRow}
  BY <1>2, <1>4, FeedAssumption DEF On, Stores, Pages
<1>9. ASSUME q.current
      PROVE  /\ longer \in Stores /\ Ends(longer.list, longer.cursor)
             /\ longer.status = store.status /\ longer.unread = store.unread
             /\ longer.alone = store.alone
             /\ On(longer.list) = On(store.list) \cup On(q.page.list)
             /\ \A i \in On(store.list) : longer.list[i] = store.list[i]
  <2>1. store.cursor \in On(store.list) /\ \A i \in On(store.list) : store.cursor <= i
    BY <1>2, <1>5, <1>9 DEF Ends
  <2>2. \A i \in On(q.page.list), j \in On(store.list) : i < j
    BY <1>5, <1>8, <1>9, <2>1
  <2>3. added = On(q.page.list)
    <3>1. \A i \in On(q.page.list) : i \notin On(store.list)
      BY <1>8, <2>2
    <3> QED BY <3>1
  <2>4. list \in Lists /\ cursor \in Rows \cup {NoRow}
    BY <1>8, <2>3 DEF Lists
  <2>5. On(list) = On(store.list) \cup On(q.page.list)
    BY <1>8, <2>3 DEF On
  <2>6. \A i \in On(store.list) : list[i] = store.list[i]
    BY <1>8
  <2>7. Ends(list, cursor)
    <3>1. SUFFICES ASSUME cursor # NoRow
                   PROVE  cursor \in On(list) /\ \A i \in On(list) : cursor <= i
      BY DEF Ends
    <3>2. cursor = q.page.next
      BY <3>1
    <3>3. q.page.next \in On(q.page.list) /\ \A i \in On(q.page.list) : q.page.next <= i
      BY <1>4, <3>1, <3>2 DEF Ends
    <3>4. \A i \in On(store.list) : q.page.next <= i
      BY <1>8, <2>2, <3>3
    <3> HIDE DEF list, cursor
    <3> QED BY <2>5, <3>2, <3>3, <3>4
  <2> HIDE DEF list, cursor
  <2>8. longer \in Stores /\ longer.list = list /\ longer.cursor = cursor
    BY <1>2, <2>4 DEF Stores
  <2>9. /\ longer.status = store.status /\ longer.unread = store.unread
        /\ longer.alone = store.alone
    OBVIOUS
  <2> HIDE DEF longer
  <2> QED BY <2>5, <2>6, <2>7, <2>8, <2>9
<1> HIDE DEF longer
<1>10. /\ store' \in Stores /\ Ends(store'.list, store'.cursor)
       /\ store'.status = store.status /\ (store'.alone <=> store.alone)
       /\ Shows(store) => Shows(store')
  <2>1. CASE ~q.current
    BY <1>1, <1>2, <2>1
  <2>2. CASE q.current
    <3>1. store' = longer
      BY <1>1, <2>2
    <3>2. store.cursor # NoRow /\ \A i \in On(q.page.list) : i < store.cursor
      BY <1>5, <2>2
    <3>3. ASSUME Shows(store) PROVE Shows(longer)
      BY <1>2, <1>4, <1>9, <2>2, <3>2, <3>3, MoreShows
    <3> QED BY <1>9, <2>2, <3>1, <3>3
  <2> QED BY <2>1, <2>2
<1>11. TypeOK'
  <2>1. store'.cursor # NoRow => \A i \in Rows : store'.list[i] # "absent" => store'.cursor <= i
    BY <1>10, StoreIsTyped
  <2> QED BY <1>1, <1>2, <1>6, <1>10, <2>1 DEF TypeOK, Stores
<1>12. Orderly'
  <2>1. ASSUME NEW x \in Kinds PROVE Asked(x)'
    BY <1>2, <1>6, <1>7 DEF Asked, Snapshots
  <2>2. Continues'
    BY <1>7 DEF Continues
  <2>3. Alone'
    BY <1>2, <1>6 DEF Alone
  <2> QED BY <1>10, <2>1, <2>2, <2>3 DEF Orderly
<1>13. Told' <=> Told
  BY <1>1 DEF Told
<1>14. ASSUME Answers, Shown PROVE Answers' /\ Shown'
  <2>1. /\ PageAt(NoRow)' = PageAt(NoRow) /\ Unread' = Unread
        /\ \A s : Shows(s)' <=> Shows(s)
    BY <1>1, SameTable
  <2>2. Answers'
    BY <1>6, <1>14, <2>1 DEF Answers
  <2>3. SUFFICES ASSUME store'.status = "succeeded", store'.alone,
                        \A x \in Snapshots : requests'[x].at = "none"
                 PROVE  Fresh'
    BY <2>2 DEF Shown
  <2>4. Fresh
    BY <1>6, <1>10, <1>14, <2>3 DEF Shown
  <2>5. Shows(store)'
    BY <1>10, <2>1, <2>4, FreshShows
  <2> QED BY <2>5 DEF Fresh, Shows
<1> QED BY <1>1, <1>11, <1>12, <1>13, <1>14 DEF Inv

LEMMA FailKeeps ==
  ASSUME Inv, NEW k \in Kinds, Fail(k)
  PROVE  Inv'
<1>1. /\ requests[k].at # "none"
      /\ requests' = [requests EXCEPT ![k] = Unsent]
      /\ store' = Failed(store, {k})
      /\ faults < MaxFaults /\ faults' = faults + 1
      /\ rows' = rows /\ listener' = listener /\ stream' = stream /\ clicks' = clicks
  BY DEF Fail, Fault
<1>2. /\ requests \in [Kinds -> Requests] /\ store \in Stores
      /\ \A x \in Kinds : Asked(x)
      /\ Continues /\ Alone /\ Ends(store.list, store.cursor)
  BY DEF Inv, TypeOK, Orderly, Stores
<1>3. /\ store' \in Stores /\ store'.list = store.list /\ store'.cursor = store.cursor
      /\ IF k = "more" THEN store' = store ELSE store'.status = "failed"
  BY <1>1, <1>2 DEF Failed, Stores
<1>4. /\ requests' \in [Kinds -> Requests]
      /\ requests'[k] = Unsent
      /\ \A x \in Kinds \ {k} : requests'[x] = requests[x]
  BY <1>1, <1>2, UnsentIsRequest
<1>5. requests'[k].at = "none" /\ requests'[k].page = <<>> /\ requests'[k].count = NoCount
  <2>1. requests'[k] = Unsent
    BY <1>4
  <2> QED BY <2>1, UnsentIsRequest
<1>6. faults' \in 0..MaxFaults
  <2>1. faults \in 0..MaxFaults /\ MaxFaults \in Nat
    BY FeedAssumption DEF Inv, TypeOK
  <2>2. faults < MaxFaults /\ faults' = faults + 1
    BY <1>1
  <2> QED BY <2>1, <2>2, CountedOn
<1>7. TypeOK'
  BY <1>1, <1>3, <1>4, <1>6 DEF Inv, TypeOK, Stores
<1>8. Orderly'
  <2>1. ASSUME NEW x \in Kinds PROVE Asked(x)'
    BY <1>2, <1>4, <1>5 DEF Asked
  <2>2. Continues'
    <3>1. CASE k = "more"
      BY <1>5, <3>1 DEF Continues
    <3>2. CASE k # "more"
      BY <1>2, <1>3, <1>4, <3>2 DEF Continues, Kinds
    <3> QED BY <3>1, <3>2
  <2>3. Alone'
    BY <1>2, <1>4, <1>5 DEF Alone, Snapshots
  <2> QED BY <1>2, <1>3, <2>1, <2>2, <2>3 DEF Orderly
<1>9. Told' <=> Told
  BY <1>1 DEF Told
<1>10. ASSUME Answers, Shown PROVE Answers' /\ Shown'
  <2>1. PageAt(NoRow)' = PageAt(NoRow) /\ Unread' = Unread
    BY <1>1, SameTable
  <2>2. Answers'
    BY <1>4, <1>5, <1>10, <2>1 DEF Answers, Snapshots
  <2>3. Shown'
    <3>1. CASE k # "more"
      BY <1>3, <3>1 DEF Shown
    <3>2. CASE k = "more"
      <4>1. store' = store /\ \A x \in Snapshots : requests'[x] = requests[x]
        BY <1>3, <1>4, <3>2 DEF Snapshots
      <4>2. Fresh' <=> Fresh
        BY <2>1, <4>1 DEF Fresh
      <4> QED BY <1>10, <4>1, <4>2 DEF Shown
    <3> QED BY <3>1, <3>2
  <2> QED BY <2>2, <2>3
<1> QED BY <1>1, <1>7, <1>8, <1>9, <1>10 DEF Inv

-----------------------------------------------------------------------------
(* The theorems *)

LEMMA InitialInv ==
  ASSUME Init
  PROVE  Inv
<1>1. /\ rows = [i \in Rows |-> "none"]
      /\ listener = [up |-> TRUE, booting |-> FALSE, hasConnected |-> TRUE, signals |-> 0]
      /\ stream = [open |-> FALSE, frame |-> FALSE, missed |-> FALSE]
      /\ requests = [[k \in Kinds |-> Unsent] EXCEPT !["head"].at = "reading"]
      /\ clicks = 0 /\ faults = 0
  BY DEF Init, NoStream
<1>2. store = [status |-> "loading", list |-> [i \in Rows |-> "absent"], cursor |-> NoRow,
               unread |-> 0, alone |-> TRUE]
  BY DEF Init
<1>3. Cardinality(Rows) \in Nat /\ MaxClicks \in Nat /\ MaxFaults \in Nat
  BY FeedAssumption, FS_CardinalityType
<1>4. /\ requests["head"] \in Requests
      /\ requests["head"].at = "reading"
      /\ requests["head"].page = <<>> /\ requests["head"].count = NoCount
      /\ \A k \in Kinds \ {"head"} : requests[k] = Unsent
      /\ requests = [k \in Kinds |-> requests[k]]
  BY <1>1 DEF Kinds, Requests, Unsent
<1>5. requests \in [Kinds -> Requests]
  BY <1>4, UnsentIsRequest
<1>6. /\ [i \in Rows |-> "absent"] \in Lists /\ 0 \in 0..Cardinality(Rows)
      /\ clicks \in 0..MaxClicks /\ faults \in 0..MaxFaults
  BY <1>1, <1>3 DEF Lists
<1>7. store \in Stores /\ store.cursor = NoRow
  BY <1>2, <1>6 DEF Stores
<1>8. /\ rows \in [Rows -> RowStates]
      /\ listener \in [up : BOOLEAN, booting : BOOLEAN, hasConnected : BOOLEAN, signals : Nat]
      /\ stream \in [open : BOOLEAN, frame : BOOLEAN, missed : BOOLEAN]
      /\ listener.hasConnected /\ ~stream.open
  BY <1>1 DEF RowStates
<1>9. TypeOK
  BY <1>5, <1>6, <1>7, <1>8 DEF TypeOK, Stores
<1>10. Orderly
  <2>1. \A k \in Kinds \ {"head"} :
          requests[k].at = "none" /\ requests[k].page = <<>> /\ requests[k].count = NoCount
    BY <1>4, UnsentIsRequest
  <2>2. ASSUME NEW k \in Kinds PROVE Asked(k)
    BY <1>4, <2>1 DEF Asked
  <2>3. Continues /\ Alone
    BY <2>1 DEF Continues, Alone, Kinds, Snapshots
  <2> QED BY <1>7, <2>2, <2>3 DEF Orderly, Ends
<1>11. Told
  BY <1>8 DEF Told
<1> QED BY <1>8, <1>9, <1>10, <1>11 DEF Inv

LEMMA InvIsInductive ==
  ASSUME Inv, [Next]_vars
  PROVE  Inv'
<1>1. ASSUME NEW i \in Rows, Record(i) PROVE Inv'
  BY <1>1, ChangedKeeps DEF Record, RowStates
<1>2. ASSUME NEW i \in Rows, Resolve(i) PROVE Inv'
  BY <1>2, ChangedKeeps DEF Resolve, RowStates
<1>3. ASSUME NEW i \in Rows, MarkRead(i) PROVE Inv'
  <2>1. Click("mark", i)
    BY <1>3 DEF MarkRead
  <2> QED BY <2>1, ClickKeeps
<1>4. CASE MarkAllRead
  <2>1. Click("mark all", NoRow)
    BY <1>4 DEF MarkAllRead
  <2> QED BY <2>1, ClickKeeps
<1>5. CASE Deliver \/ Connect \/ StartDeaf \/ LoseListener
  BY <1>5, ServerKeeps
<1>6. CASE OpenStream \/ LoseStream \/ ExpireStream
  BY <1>6, StreamKeeps
<1>7. ASSUME NEW k \in Kinds, Answer(k) PROVE Inv'
  BY <1>7, ArriveKeeps, ReadPageKeeps, ReadCountKeeps DEF Answer
<1>8. ASSUME NEW k \in Kinds, Receive(k) PROVE Inv'
  BY <1>8, ReceiveKeeps
<1>9. ASSUME NEW k \in Kinds, Fail(k) PROVE Inv'
  BY <1>9, FailKeeps
<1>10. CASE UNCHANGED vars
  <2>1. /\ rows' = rows /\ listener' = listener /\ stream' = stream /\ requests' = requests
        /\ store' = store /\ clicks' = clicks /\ faults' = faults
    BY <1>10 DEF vars
  <2>2. TypeOK' /\ (Told' <=> Told)
    BY <2>1 DEF Inv, TypeOK, Told
  <2>3. (listener.up => listener.hasConnected)'
    BY <2>1 DEF Inv
  <2> QED BY <2>1, <2>2, <2>3, TabStays
<1> QED BY <1>1, <1>2, <1>3, <1>4, <1>5, <1>6, <1>7, <1>8, <1>9, <1>10,
           AskMoreKeeps, HandleFrameKeeps, ReceiveMoreKeeps, RestartKeeps DEF Next

\* Whatever is lost, delayed or crossed, what the tab has loaded stays in order:
\* the cursor of mergeSnapshot and notificationsMoreReceived is never above a row
\* that is loaded already, so no row is loaded twice.
THEOREM TypeCorrect == Spec => []TypeOK
<1>1. Init => Inv
  BY InitialInv
<1>2. Inv /\ [Next]_vars => Inv'
  BY InvIsInductive
<1>3. Inv => TypeOK
  BY DEF Inv
<1> QED BY <1>1, <1>2, <1>3, PTL DEF Spec

\* However the LISTEN connection and the stream are lost and remade, and in
\* whatever order answers cross commits: when no signal, frame or answer is on
\* its way (recordMany's announcement, the listener's reconnection, streamFor's
\* greeting), a tab whose last answer crossed no other shows the newest page and
\* the unread count of the table.
THEOREM QuietTabsAreFresh == Spec => []QuietIsFresh
<1>1. Init => Inv
  BY InitialInv
<1>2. Inv /\ [Next]_vars => Inv'
  BY InvIsInductive
<1>3. Inv => QuietIsFresh
  BY DEF Inv, QuietIsFresh, Quiet, Told, Shown, Snapshots
<1> QED BY <1>1, <1>2, <1>3, PTL DEF Spec

=============================================================================
