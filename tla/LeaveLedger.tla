----------------------------- MODULE LeaveLedger -------------------------------
(***************************************************************************)
(* What the books of one employee promise, whatever the requests go        *)
(* through on the way: a request claims hours of balances when it is       *)
(* filed; its claims are then either all given back, and the request is    *)
(* over, or taken one after the other for good; and the two columns of     *)
(* every balance are at any time the totals of what is claimed and what    *)
(* is taken.  LeaveRequests implements this specification.                 *)
(***************************************************************************)
EXTENDS Naturals, FiniteSets

CONSTANTS
    RequestIds,
    Accounts,      \* the balances: one per leave type and year
    Hours          \* the hours that can be claimed

VARIABLES
    phase,         \* phase[r]: "new", "open" or "done"
    reserved,      \* reserved[r]: claims, as <<account, hour>>, still on hold
    used,          \* used[r]: claims turned into leave taken
    onHold,        \* the column of each account
    spent

vars == <<phase, reserved, used, onHold, spent>>

Claims == Accounts \X Hours

\* The hours of account a that request r has among these claims.
HoursOn(claims, r, a) == {<<r, c[2]>> : c \in {d \in claims[r] : d[1] = a}}

\* How many claims of all requests fall on account a.
Total(claims, a) == Cardinality(UNION {HoursOn(claims, r, a) : r \in RequestIds})

Init ==
    /\ phase = [r \in RequestIds |-> "new"]
    /\ reserved = [r \in RequestIds |-> {}]
    /\ used = [r \in RequestIds |-> {}]
    /\ onHold = [a \in Accounts |-> 0]
    /\ spent = [a \in Accounts |-> 0]

File(r) ==
    /\ phase[r] = "new" /\ phase'[r] = "open"
    /\ reserved'[r] \subseteq Claims
    /\ used'[r] = {}

\* Claims are taken, none is added and none is given back.
Take(r) ==
    /\ phase[r] = "open" /\ phase'[r] = "open"
    /\ used[r] \subseteq used'[r]
    /\ reserved'[r] = reserved[r] \ used'[r]
    /\ used'[r] \subseteq used[r] \cup reserved[r]

\* All claims are given back: nothing may have been taken.
GiveBack(r) ==
    /\ phase[r] = "open" /\ phase'[r] = "done"
    /\ used[r] = {} /\ used'[r] = {}
    /\ reserved'[r] = {}

Rest(r) ==
    /\ phase'[r] = phase[r]
    /\ reserved'[r] = reserved[r]
    /\ used'[r] = used[r]

\* One transaction may move several requests: a replacement is swapped in, and
\* the passing of time takes hours of many.
Next ==
    /\ \A r \in RequestIds : Rest(r) \/ File(r) \/ Take(r) \/ GiveBack(r)
    /\ onHold' = [a \in Accounts |-> Total(reserved', a)]
    /\ spent' = [a \in Accounts |-> Total(used', a)]

Spec == Init /\ [][Next]_vars

================================================================================
