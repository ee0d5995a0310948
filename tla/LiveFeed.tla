------------------------------ MODULE LiveFeed ------------------------------
(***************************************************************************)
(* One user's notification feed in one browser tab: the rows their cause's *)
(* transaction commits, the PostgreSQL signal it sends with them, the      *)
(* server's one LISTEN connection, the event stream that tells the tab to  *)
(* refetch, and the tab's store, with the answers to its requests on their *)
(* way in any order.                                                       *)
(*                                                                         *)
(* The signal carries nothing: every frame only says "refetch", and every  *)
(* answer is a page of the table with the table's unread count.            *)
(***************************************************************************)
EXTENDS Integers, FiniteSets, FiniteSetsExt

CONSTANTS
  Rows,        \* Notifications to this user, numbered by occurredAt
  PageSize,    \* FEED_PAGE_SIZE
  Progress,    \* Those of type approval_progressed, which may be withdrawn
  MaxOthers,   \* Bound: requests besides refetches that are under way at once
  MaxClicks,   \* Bound: how often the user marks something read
  MaxFaults    \* Bound: connections lost, requests failed, restarts

ASSUME FeedAssumption ==
  /\ Rows \subseteq Nat \ {0} /\ IsFiniteSet(Rows)
  /\ PageSize \in Nat \ {0} /\ Progress \subseteq Rows
  /\ MaxOthers \in Nat /\ MaxClicks \in Nat /\ MaxFaults \in Nat

VARIABLES
  rows,      \* the table
  listener,  \* the LISTEN connection of the server, and what waits on it
  stream,    \* the event stream, and a frame on its way
  requests,  \* the tab's requests under way, one of each kind
  store,     \* the notifications slice of the tab's store
  clicks,    \* so far
  faults     \* so far

vars == <<rows, listener, stream, requests, store, clicks, faults>>

-----------------------------------------------------------------------------
(* Values *)

NoRow == 0

\* A withdrawn row is a resolved approval_progressed one: still in the table,
\* no longer served.
RowStates == {"none", "unread", "read", "withdrawn"}

\* What is on the screen of each row.
Lists == [Rows -> {"absent", "unread", "read"}]

Pages == [list : Lists, next : Rows \cup {NoRow}]

NoCount == -1

Kinds == {"head", "more", "mark", "mark all"}

\* A request travels to the server (there a mark updates the table), where page
\* and counts are read by separate queries, and its answer travels back.
Requests ==
  [ at      : {"none", "sent", "reading"},
    target  : Rows \cup {NoRow},              \* the row to mark, or the cursor
    page    : Pages \cup {<<>>},
    count   : {NoCount} \cup 0..Cardinality(Rows),
    current : BOOLEAN,    \* asked in the store's generation
    alone   : BOOLEAN ]   \* no other snapshot was asked for meanwhile

Unsent == [at |-> "none", target |-> NoRow, page |-> <<>>, count |-> NoCount,
           current |-> TRUE, alone |-> TRUE]

\* The next page to load is below all that is loaded: none is loaded twice.
TypeOK ==
  /\ rows \in [Rows -> RowStates]
  /\ listener \in [up : BOOLEAN, booting : BOOLEAN, hasConnected : BOOLEAN, signals : Nat]
  /\ stream \in [open : BOOLEAN, frame : BOOLEAN, missed : BOOLEAN]
  /\ requests \in [Kinds -> Requests]
  /\ store \in [status : {"loading", "succeeded", "failed"}, list : Lists,
                cursor : Rows \cup {NoRow}, unread : 0..Cardinality(Rows),
                alone : BOOLEAN]
  /\ store.cursor # NoRow => \A i \in Rows : store.list[i] # "absent" => store.cursor <= i
  /\ clicks \in 0..MaxClicks /\ faults \in 0..MaxFaults

On(list) == {i \in Rows : list[i] # "absent"}

-----------------------------------------------------------------------------
(* The table and its signal *)

\* recordMany and resolveOpenRows announce on the transaction that writes: the
\* signal is sent by its commit, to whoever listens then.
Announced(l) == IF l.up THEN [l EXCEPT !.signals = @ + 1] ELSE l

Changed(i, state) ==
  /\ rows' = [rows EXCEPT ![i] = state]
  /\ listener' = Announced(listener)
  \* Nobody will tell a stream that opened before the first LISTEN.
  /\ stream' = [stream EXCEPT !.missed = @ \/ (stream.open /\ ~listener.hasConnected)]
  /\ UNCHANGED <<requests, store, clicks, faults>>

\* occurredAt is read before the commit, so rows may commit out of its order.
Record(i) == rows[i] = "none" /\ Changed(i, "unread")

Resolve(i) == i \in Progress /\ rows[i] \in {"unread", "read"} /\ Changed(i, "withdrawn")

Served == {i \in Rows : rows[i] \in {"unread", "read"}}

Unread == {i \in Rows : rows[i] = "unread"}

\* getNotifications: the newest rows older than the cursor.
PageAt(cursor) ==
  LET older == {i \in Served : cursor = NoRow \/ i < cursor}
      page  == {i \in older : Cardinality({j \in older : j > i}) < PageSize}
  IN  [list |-> [i \in Rows |-> IF i \in page THEN rows[i] ELSE "absent"],
       next |-> IF page = older THEN NoRow ELSE Min(page)]

-----------------------------------------------------------------------------
(* The listener and the stream *)

\* Every frame says the same: two on their way are one that takes longer.
Framed(s) == [s EXCEPT !.frame = s.open]

Deliver ==
  /\ listener.signals > 0
  /\ listener' = [listener EXCEPT !.signals = @ - 1]
  /\ stream' = Framed(stream)
  /\ UNCHANGED <<rows, requests, store, clicks, faults>>

Fault == faults < MaxFaults /\ faults' = faults + 1

\* Mutant: a reconnection is like a first connection.
ReconnectedQuietly(s) == s

\* What a connection that is made tells the open stream.
Reconnected(s) == IF listener.hasConnected THEN Framed(s) ELSE s

\* connect
Connect ==
  /\ ~listener.up
  /\ listener' = [listener EXCEPT !.up = TRUE, !.hasConnected = TRUE, !.booting = FALSE]
  /\ stream' = Reconnected(stream)
  /\ UNCHANGED <<rows, requests, store, clicks, faults>>

\* The first attempt after a restart fails, and the server starts without its listener.
StartDeaf ==
  /\ listener.booting
  /\ listener' = [listener EXCEPT !.booting = FALSE]
  /\ UNCHANGED <<rows, stream, requests, store, clicks, faults>>

\* What was on its way on the connection is lost with it.
LoseListener ==
  /\ listener.up
  /\ Fault
  /\ listener' = [listener EXCEPT !.up = FALSE, !.signals = 0]
  /\ UNCHANGED <<rows, stream, requests, store, clicks>>

\* streamFor greets whoever connects; the browser reopens whatever closes.
OpenStream ==
  /\ ~stream.open /\ ~listener.booting
  /\ stream' = [open |-> TRUE, frame |-> TRUE, missed |-> FALSE]
  /\ UNCHANGED <<rows, listener, requests, store, clicks, faults>>

NoStream == [open |-> FALSE, frame |-> FALSE, missed |-> FALSE]

\* The browser or the network drops the stream, and what was on its way.
LoseStream ==
  /\ stream.open
  /\ Fault
  /\ stream' = NoStream
  /\ UNCHANGED <<rows, listener, requests, store, clicks>>

\* STREAM_MAX_LIFETIME_MS: however quiet it is, a stream ends and is reopened.
\* Its quarter of an hour is longer than a refetch takes.
ExpireStream ==
  /\ stream.open /\ ~stream.frame /\ requests["head"].at = "none"
  /\ stream' = NoStream
  /\ UNCHANGED <<rows, listener, requests, store, clicks, faults>>

\* The browser drops whatever was under way.
Failed(s, kinds) ==
  IF \E k \in kinds : requests[k].at # "none" /\ k # "more"
  THEN [s EXCEPT !.status = "failed"] ELSE s

Restart ==
  /\ Fault
  /\ listener' = [up |-> FALSE, booting |-> TRUE, hasConnected |-> FALSE, signals |-> 0]
  /\ stream' = NoStream
  /\ requests' = [k \in Kinds |-> Unsent]
  /\ store' = Failed(store, Kinds)
  /\ UNCHANGED <<rows, clicks>>

-----------------------------------------------------------------------------
(* The tab sends *)

\* What asks for the newest page, at the same time as k.
Beside(k) == {x \in Kinds \ {k, "more"} : requests[x].at # "none"}

Send(k, target, at) ==
  requests' = [x \in Kinds |->
    IF x = k THEN [Unsent EXCEPT !.at = at, !.target = target,
                                 !.alone = k = "more" \/ Beside(k) = {}]
    ELSE [requests[x] EXCEPT !.alone = @ /\ (x \notin Beside(k) \/ k = "more")]]

\* Any frame, the greeting included, is a reason to refetch; a newer refetch
\* supersedes the one under way.
HandleFrame ==
  /\ stream.frame
  /\ stream' = [stream EXCEPT !.frame = FALSE, !.missed = FALSE]
  /\ Send("head", NoRow, "reading")
  /\ store' = [store EXCEPT !.status = IF @ = "succeeded" THEN @ ELSE "loading"]
  /\ UNCHANGED <<rows, listener, clicks, faults>>

RoomForAnother ==
  ~listener.booting /\ Cardinality({k \in Kinds \ {"head"} : requests[k].at # "none"}) < MaxOthers

\* notificationsMoreRequestedEpic
AskMore ==
  /\ store.cursor # NoRow /\ requests["more"].at = "none" /\ RoomForAnother
  /\ Send("more", store.cursor, "reading")
  /\ UNCHANGED <<rows, listener, stream, store, clicks, faults>>

Click(k, target) ==
  /\ clicks < MaxClicks /\ requests[k].at = "none" /\ RoomForAnother
  /\ Send(k, target, "sent")
  /\ clicks' = clicks + 1
  /\ UNCHANGED <<rows, listener, stream, store, faults>>

\* markReadRequested, markAllReadRequested
MarkRead(i)  == store.list[i] = "unread" /\ Click("mark", i)
MarkAllRead  == store.unread > 0 /\ Click("mark all", NoRow)

-----------------------------------------------------------------------------
(* The server answers *)

Marked(k) == IF k = "mark" THEN {requests[k].target} \cap Unread ELSE Unread

\* markRead and markAllRead commit their update, which nobody is told of.
Arrive(k) ==
  /\ requests[k].at = "sent"
  /\ rows' = [i \in Rows |-> IF i \in Marked(k) THEN "read" ELSE rows[i]]
  /\ requests' = [requests EXCEPT ![k].at = "reading", ![k].target = NoRow]
  /\ UNCHANGED <<listener, stream, store, clicks, faults>>

Cursor(k) == IF k = "more" THEN requests[k].target ELSE NoRow

\* Two queries, each with a snapshot of its own.
ReadPage(k) ==
  LET q == requests[k]
  IN  /\ q.at = "reading" /\ q.page = <<>>
      /\ requests' = [requests EXCEPT ![k].page = PageAt(Cursor(k))]
      /\ UNCHANGED <<rows, listener, stream, store, clicks, faults>>

ReadCount(k) ==
  LET q == requests[k]
  IN  /\ q.at = "reading" /\ q.count = NoCount /\ k # "more"
      /\ requests' = [requests EXCEPT ![k].count = Cardinality(Unread)]
      /\ UNCHANGED <<rows, listener, stream, store, clicks, faults>>

-----------------------------------------------------------------------------
(* The tab receives *)

\* Mutant: whatever the page does not show is older than it.
TailByAbsence(s, page) == On(s.list) \ On(page.list)

\* What is loaded below the page.
Tail(s, page) ==
  IF On(page.list) = {} THEN {} ELSE {i \in On(s.list) : i < Min(On(page.list))}

\* Mutant: the next older page is always the one below this page.
MergedFromThere(s, q) ==
  LET tail == Tail(s, q.page)
  IN  [ status |-> "succeeded",
        list   |-> [i \in Rows |-> IF i \in tail THEN s.list[i] ELSE q.page.list[i]],
        cursor |-> q.page.next,
        unread |-> q.count,
        alone  |-> q.alone ]

\* mergeSnapshot: the page replaces the head of the list, the tail is kept.
Merged(s, q) ==
  LET tail == Tail(s, q.page)
  IN  [ status |-> "succeeded",
        list   |-> [i \in Rows |-> IF i \in tail THEN s.list[i] ELSE q.page.list[i]],
        cursor |-> IF tail = {} THEN q.page.next ELSE s.cursor,
        unread |-> q.count,
        alone  |-> q.alone ]

\* A page still to come was asked for in a list that is no more.
Regenerated(s, q) ==
  IF On(q.page.list) = {} THEN On(s.list) # {} \/ s.cursor # NoRow
  ELSE Tail(s, q.page) = {} /\ s.cursor # q.page.next

\* markAllReadSucceeded stamps the kept tail too, with a time it finds in the
\* page.
Stamped(s, q) ==
  IF \E i \in Rows : q.page.list[i] = "read"
  THEN [s EXCEPT !.list = [i \in Rows |->
          IF q.page.list[i] = "absent" /\ @[i] = "unread" THEN "read" ELSE @[i]]]
  ELSE s

\* notificationsReceived, markAllReadSucceeded
Receive(k) ==
  LET q == requests[k]
      merged == Merged(store, q)
  IN  /\ k # "more"
      /\ q.page # <<>> /\ q.count # NoCount
      /\ store' = IF k = "mark all" THEN Stamped(merged, q) ELSE merged
      /\ requests' = [requests EXCEPT
                        ![k] = Unsent,
                        !["more"].current =
                           @ /\ ~(/\ requests["more"].at # "none"
                                  /\ k = "mark all" \/ Regenerated(store, q))]
      /\ UNCHANGED <<rows, listener, stream, clicks, faults>>

\* notificationsMoreReceived: the rows not yet on the list join its end.
ReceiveMore ==
  LET q == requests["more"]
      added == On(q.page.list) \ On(store.list)
  IN  /\ q.page # <<>>
      /\ store' = IF ~q.current THEN store
                  ELSE [store EXCEPT
                          !.list = [i \in Rows |-> IF i \in added THEN q.page.list[i] ELSE @[i]],
                          !.cursor = IF added = {} THEN NoRow ELSE q.page.next]
      /\ requests' = [requests EXCEPT !["more"] = Unsent]
      /\ UNCHANGED <<rows, listener, stream, clicks, faults>>

\* notificationsRequestFailed, notificationsMoreFailed
Fail(k) ==
  /\ requests[k].at # "none"
  /\ Fault
  /\ requests' = [requests EXCEPT ![k] = Unsent]
  /\ store' = Failed(store, {k})
  /\ UNCHANGED <<rows, listener, stream, clicks>>

-----------------------------------------------------------------------------
(* The specification *)

\* The bell asks for the feed when the user signs in, without waiting for its
\* stream.
Init ==
  /\ rows = [i \in Rows |-> "none"]
  /\ listener = [up |-> TRUE, booting |-> FALSE, hasConnected |-> TRUE, signals |-> 0]
  /\ stream = NoStream
  /\ requests = [[k \in Kinds |-> Unsent] EXCEPT !["head"].at = "reading"]
  /\ store = [status |-> "loading", list |-> [i \in Rows |-> "absent"], cursor |-> NoRow,
              unread |-> 0, alone |-> TRUE]
  /\ clicks = 0
  /\ faults = 0

Answer(k) == Arrive(k) \/ ReadPage(k) \/ ReadCount(k)

Next ==
  \/ \E i \in Rows : Record(i) \/ Resolve(i) \/ MarkRead(i)
  \/ MarkAllRead \/ AskMore
  \/ Deliver \/ Connect \/ StartDeaf \/ LoseListener
  \/ OpenStream \/ LoseStream \/ ExpireStream \/ HandleFrame
  \/ \E k \in Kinds : Answer(k) \/ Receive(k) \/ Fail(k)
  \/ ReceiveMore
  \/ Restart

Spec == Init /\ [][Next]_vars

\* The listener reconnects after a while, a stream expires and the browser
\* reopens it, frames are handled and what is asked is answered.
FairSpec ==
  /\ Spec
  /\ WF_vars(Connect) /\ WF_vars(Deliver)
  /\ WF_vars(OpenStream) /\ WF_vars(ExpireStream) /\ WF_vars(HandleFrame)
  /\ \A k \in Kinds : WF_vars(Answer(k) \/ Receive(k))
  /\ WF_vars(ReceiveMore)

-----------------------------------------------------------------------------
(* Properties *)

\* The first page of the list and the badge say what the table says.
Fresh ==
  LET top == PageAt(NoRow)
  IN  /\ store.status = "succeeded"
      /\ store.unread = Cardinality(Unread)
      /\ \A i \in On(top.list) : store.list[i] = top.list[i]
      /\ \A i \in On(store.list) : i \in On(top.list) \/ \E j \in On(top.list) : i < j

Quiet ==
  /\ listener.up /\ listener.signals = 0
  /\ stream.open /\ ~stream.frame
  /\ \A k \in Kinds : requests[k].at = "none"

\* Nothing to wait for means nothing was missed, whatever connection was lost
\* at whatever moment and however the answers crossed with the commits: a tab
\* whose last answer arrived shows the table.  (Two ways to miss something are
\* known: of two answers under way at once the older may arrive last, and nobody
\* tells of a change made before the server has listened for the first time.)
QuietIsFresh ==
  Quiet /\ store.status = "succeeded" /\ store.alone /\ ~stream.missed => Fresh

\* "A dropped event costs a delayed refresh, not a lost notification": once the
\* faults are over, and with no exception at all, the tab comes to show the
\* newest page of the table and the right badge, and stays so.
EventuallyFresh == <>[]Fresh
=============================================================================
