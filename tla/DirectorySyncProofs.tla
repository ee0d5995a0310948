------------------------- MODULE DirectorySyncProofs -------------------------
(***************************************************************************)
(* What DirectorySync keeps for any number of accounts, passes and         *)
(* sign-ins.                                                               *)
(*                                                                         *)
(* A row that a transaction has written is nobody else's until it commits  *)
(* (OneWriter), so what the transaction wrote still fits the row it will   *)
(* replace (Fits).  That a pass retires only those who were away rests on  *)
(* its snapshot: whoever is not in it has been away since, or is marked as *)
(* too new for it (Snapshots), and whoever is in it is not retired by the  *)
(* pass that read it (Misses, WithinBatch).                                *)
(***************************************************************************)
EXTENDS DirectorySync, TLAPS

--------------------------------------------------------------------------------
(* The inductive invariant.  Each part that concerns one transaction is a      *)
(* predicate of its record x, for the record it has and the one it will have.  *)

HasBegun(x) == x.at \notin {"idle", "fetch", "lock"}

\* At an account
Visiting == {"country", "insertCountry", "user", "roles", "diff"}

\* Has a pass its snapshot still?
Reading == Visiting \cup {"next"}

\* Nothing is written before the transaction begins, nobody retired before the end.
Sober(x) ==
    /\ ~HasBegun(x) => \A a \in Addresses : x.wrote[a] = NoUser
    /\ x.at \notin {"retire", "commit"} => x.retired = {}

\* Overtaken since it read the account, which was nobody's then?
Overtaken(t, x, a) == t \in Logins /\ x.address = a /\ Owns(x.existing, NoSubject)

\* A new row is active, and as old as its transaction; otherwise only the columns
\* this transaction means to change differ from the row it replaces.
Fits(t, x) ==
    \A a \in Addresses : x.wrote[a] # NoUser =>
        IF users[a] = NoUser
        THEN /\ x.wrote[a].active = TRUE
             /\ x.wrote[a].unseen = x.unseen
             /\ a \notin x.retired
        ELSE /\ x.wrote[a].active = IF a \in x.retired THEN FALSE ELSE users[a].active
             /\ x.wrote[a].unseen = users[a].unseen
             /\ users[a].subject # NoSubject =>
                  x.wrote[a].subject = users[a].subject \/ Overtaken(t, x, a)

\* The account it is at
AtAccount(t, x) ==
    /\ x.at \in Visiting =>
         /\ x.address \in Addresses
         /\ x.existing # NoUser => users[x.address] # NoUser
         /\ t \in Logins /\ x.existing # NoUser => x.existing.subject \in {NoSubject, x.subject}
         /\ t \in Logins /\ x.at = "country" => x.desired.country \in Countries
    /\ x.at = "insertCountry" => x.desired.country \in Countries

\* A pass touches the accounts of its batch, until it retires those that are not.
WithinBatch(t, x) ==
    t \in Passes /\ x.at \in Reading =>
        /\ x.todo \subseteq Batch(x.read)
        /\ x.at \in Visiting => x.address \in Batch(x.read)
        /\ \A a \in Addresses : x.wrote[a] # NoUser => a \in Batch(x.read)

Retiring(x) ==
    /\ x.at = "retire" => \A a \in x.todo :
         x.wrote[a] = NoUser /\ users[a] # NoUser /\ left[a] /\ a \in x.missed
    /\ \A a \in x.retired :
         /\ x.wrote[a] # NoUser /\ users[a] # NoUser /\ users[a].active = TRUE
         /\ left[a] /\ a \in x.missed

\* Whom its snapshot does not show, a pass has missed.
Misses(t, x) ==
    t \in Passes /\ x.at \in Reading \cup {"lock"} => Addresses \ ListedIn(x.read) \subseteq x.missed

NotesAbsences(x) == HasBegun(x) => Addresses \ ListedIn(directory) \subseteq x.left

Sound(t, x) ==
    /\ Sober(x)
    /\ Fits(t, x)
    /\ AtAccount(t, x)
    /\ WithinBatch(t, x)
    /\ Retiring(x)
    /\ Misses(t, x)
    /\ NotesAbsences(x)

OneWriter ==
    \A t, u \in Workers : \A a \in Addresses :
        tx[t].wrote[a] # NoUser /\ tx[u].wrote[a] # NoUser => t = u

Audited ==
    \A a \in Addresses :
        flips[a] = IF users[a] = NoUser \/ users[a].active = TRUE THEN 0 ELSE 1

\* Who has an account and is not listed has left.
Absences ==
    \A a \in Addresses : users[a] # NoUser /\ a \notin ListedIn(directory) => left[a]

\* Who is missing from a snapshot has left since, or is too new for it.
Snapshots ==
    \A p \in Passes : tx[p].at \in Reading \cup {"lock"} =>
        \A a \in Addresses \ ListedIn(tx[p].read) :
            /\ users[a] # NoUser => p \in users[a].unseen \/ left[a]
            /\ \A t \in Workers : HasBegun(tx[t]) => p \in tx[t].unseen \/ a \in tx[t].left

Safe ==
    /\ TypeOK
    /\ \A t \in Workers : Sound(t, tx[t])
    /\ OneWriter
    /\ Audited
    /\ Absences
    /\ Snapshots

--------------------------------------------------------------------------------
(* Steps that change the record of one transaction *)

\* The step gives t the record x, and leaves the rows alone.
Becomes(t, x) ==
    /\ tx' = [tx EXCEPT ![t] = x]
    /\ changes' \in 0..MaxChanges
    /\ UNCHANGED <<directory, users, roles, countries, flips, left>>

\* What it writes is its own already, or nobody else's.
WritesFree(t, x) ==
    \A a \in Addresses : x.wrote[a] # NoUser => tx[t].wrote[a] # NoUser \/ HasRow(t, a) = {}

\* A snapshot is the one it had, or that of this moment.
ReadsNow(t, x) ==
    t \in Passes /\ x.at \in Reading \cup {"lock"} =>
        \/ tx[t].at \in Reading \cup {"lock"} /\ x.read = tx[t].read
        \/ x.at = "lock" /\ x.read = directory

\* Its timestamp is the one it had, or that of this moment.
StampedNow(t, x) ==
    HasBegun(x) =>
        \/ HasBegun(tx[t]) /\ x.unseen = tx[t].unseen /\ x.left = tx[t].left
        \/ Captured \subseteq x.unseen

LEMMA LocalStep ==
    ASSUME Safe, NEW t \in Workers, NEW x \in Transactions, Becomes(t, x),
           Sound(t, x), WritesFree(t, x), ReadsNow(t, x), StampedNow(t, x)
    PROVE  Safe'
<1>1. /\ tx \in [Workers -> Transactions]
      /\ tx' = [tx EXCEPT ![t] = x]
      /\ changes' \in 0..MaxChanges
      /\ UNCHANGED <<directory, users, roles, countries, flips, left>>
    BY DEF Safe, TypeOK, Becomes
<1>2. tx'[t] = x /\ \A u \in Workers : u # t => tx'[u] = tx[u]
    BY <1>1
<1>3. TypeOK'
    BY <1>1 DEF Safe, TypeOK
<1>4. ASSUME NEW u \in Workers
      PROVE  Sound(u, tx[u])'
    <2>1. Sound(u, tx'[u])
        BY <1>2 DEF Safe
    <2>2. Sober(tx[u])'
        BY <2>1 DEF Sound, Sober, HasBegun
    <2>3. Fits(u, tx[u])'
        BY <2>1, <1>1 DEF Sound, Fits, Overtaken, Owns
    <2>4. AtAccount(u, tx[u])' /\ Retiring(tx[u])'
        BY <2>1, <1>1 DEF Sound, AtAccount, Retiring
    <2>5. WithinBatch(u, tx[u])' /\ Misses(u, tx[u])' /\ NotesAbsences(tx[u])'
        BY <2>1, <1>1 DEF Sound, WithinBatch, Misses, NotesAbsences, HasBegun, Batch, ListedIn
    <2>. QED
        BY <2>2, <2>3, <2>4, <2>5 DEF Sound
<1>5. OneWriter'
    <2>1. ASSUME NEW u \in Workers, u # t, NEW a \in Addresses, x.wrote[a] # NoUser
          PROVE  tx[u].wrote[a] = NoUser
        BY <2>1 DEF WritesFree, HasRow, Safe, OneWriter
    <2>. QED
        BY <1>2, <2>1 DEF Safe, OneWriter
<1>6. Audited' /\ Absences'
    BY <1>1 DEF Safe, Audited, Absences, ListedIn
<1>7. Snapshots'
    <2> SUFFICES ASSUME NEW p \in Passes, tx'[p].at \in Reading \cup {"lock"},
                        NEW a \in Addresses, a \notin ListedIn(tx'[p].read)
                 PROVE  /\ users[a] # NoUser => p \in users[a].unseen \/ left[a]
                        /\ \A u \in Workers :
                             HasBegun(tx'[u]) => p \in tx'[u].unseen \/ a \in tx'[u].left
        BY <1>1 DEF Snapshots, HasBegun, ListedIn
    <2>1. p \in Workers
        BY DEF Workers
    <2>2. CASE tx[p].at \in Reading \cup {"lock"} /\ tx'[p].read = tx[p].read
        <3>1. /\ users[a] # NoUser => p \in users[a].unseen \/ left[a]
              /\ \A u \in Workers : HasBegun(tx[u]) => p \in tx[u].unseen \/ a \in tx[u].left
            BY <2>2 DEF Safe, Snapshots
        <3>2. p \in Captured
            BY <2>2 DEF Captured, Reading, Visiting
        <3>. QED
            BY <3>1, <3>2, <1>2 DEF StampedNow
    <2>3. CASE p = t /\ tx'[p].at = "lock" /\ tx'[p].read = directory
        <3>1. ~HasBegun(tx'[t])
            BY <2>3 DEF HasBegun
        <3>2. ASSUME NEW u \in Workers, HasBegun(tx[u])
              PROVE  a \in tx[u].left
            BY <3>2, <2>3 DEF Safe, Sound, NotesAbsences
        <3>3. users[a] # NoUser => left[a]
            BY <2>3 DEF Safe, Absences
        <3>. QED
            BY <3>1, <3>2, <3>3, <1>2
    <2>. QED
        BY <1>2, <2>1, <2>2, <2>3 DEF ReadsNow
<1>. QED
    BY <1>3, <1>4, <1>5, <1>6, <1>7 DEF Safe

LEMMA IdleType == Idle \in Transactions /\ \A t : Sound(t, Idle)
<1>1. Idle \in Transactions
    BY DEF Idle, Transactions, Points, Nothing, Wish, Entries, Unlisted, Listing
<1>2. \A t : Sound(t, Idle)
    BY NameAssumption
    DEF Idle, Sound, Sober, Fits, AtAccount, WithinBatch, Retiring, Misses, NotesAbsences,
        HasBegun, Visiting, Reading
<1>. QED
    BY <1>1, <1>2

LEMMA EndStep ==
    ASSUME Safe, NEW t \in Workers, Becomes(t, Idle)
    PROVE  Safe'
<1>1. Idle.at = "idle" /\ \A a \in Addresses : Idle.wrote[a] = NoUser
    BY DEF Idle
<1>2. WritesFree(t, Idle) /\ ReadsNow(t, Idle) /\ StampedNow(t, Idle)
    BY <1>1 DEF WritesFree, ReadsNow, StampedNow, HasBegun, Reading, Visiting
<1>. QED
    BY <1>2, IdleType, LocalStep

LEMMA RollbackStep ==
    ASSUME Safe, NEW t \in Workers, Rollback(t)
    PROVE  Safe'
    BY EndStep DEF Rollback, End, Becomes, Safe, TypeOK

LEMMA CrashStep ==
    ASSUME Safe, NEW t \in Workers, Crash(t)
    PROVE  Safe'
<1>1. changes + 1 \in 0..MaxChanges
    BY NameAssumption DEF Crash, Disturbance, Safe, TypeOK
<1>. QED
    BY <1>1, EndStep DEF Crash, Disturbance, End, Becomes

LEMMA Worker == Passes \subseteq Workers /\ Logins \subseteq Workers
    BY DEF Workers

\* A step of a transaction in progress that neither reads anew nor writes a row
LEMMA QuietStep ==
    ASSUME Safe, NEW t \in Workers, NEW x \in Transactions, Becomes(t, x),
           HasBegun(tx[t]), HasBegun(x),
           x.wrote = tx[t].wrote, x.retired = tx[t].retired, x.left = tx[t].left, x.missed = tx[t].missed,
           x.unseen = tx[t].unseen,
           x.at \in Reading => tx[t].at \in Reading /\ x.read = tx[t].read,
           t \in Logins => x.address = tx[t].address /\ x.existing = tx[t].existing,
           AtAccount(t, x),
           x.at \in Reading /\ t \in Passes =>
               /\ x.todo \subseteq Batch(x.read)
               /\ x.at \in Visiting => x.address \in Batch(x.read),
           x.at \in {"retire", "commit"} \/ x.at \in Reading,
           x.at = "retire" => Retiring(x),
           tx[t].at \in {"retire", "commit"} => x.at \in {"retire", "commit"}
    PROVE  Safe'
<1>1. Sound(t, tx[t])
    BY DEF Safe
<1>2. Sober(x)
    BY <1>1 DEF Sound, Sober
<1>3. Fits(t, x)
    BY <1>1 DEF Sound, Fits, Overtaken
<1>4. WithinBatch(t, x) /\ Retiring(x) /\ Misses(t, x) /\ NotesAbsences(x)
    BY <1>1 DEF Sound, WithinBatch, Retiring, Misses, NotesAbsences, HasBegun
<1>5. WritesFree(t, x) /\ ReadsNow(t, x) /\ StampedNow(t, x)
    BY DEF WritesFree, ReadsNow, StampedNow, HasBegun
<1>. QED
    BY <1>2, <1>3, <1>4, <1>5, LocalStep DEF Sound

LEMMA ReadDirectoryStep ==
    ASSUME Safe, NEW p \in Passes, ReadDirectory(p)
    PROVE  Safe'
<1> DEFINE x == [tx[p] EXCEPT !.at = "lock", !.read = directory,
                              !.missed = Addresses \ ListedIn(directory)]
<1>1. p \in Workers /\ tx[p] \in Transactions /\ tx[p].at = "fetch" /\ Sound(p, tx[p])
    BY Worker DEF Safe, TypeOK, ReadDirectory
<1>2. CASE Usable(directory)
    <2>1. Becomes(p, x)
        BY <1>2 DEF ReadDirectory, Becomes, Safe, TypeOK
    <2>2. x \in Transactions
        BY <1>1 DEF Transactions, Points, Safe, TypeOK
    <2>3. /\ x.at = "lock" /\ x.read = directory /\ x.missed = Addresses \ ListedIn(directory)
          /\ x.wrote = tx[p].wrote /\ x.retired = tx[p].retired
        BY <1>1 DEF Transactions
    <2> HIDE DEF x
    <2>4. Sound(p, x)
        BY <1>1, <2>3 DEF Sound, Sober, Fits, AtAccount, WithinBatch, Retiring, Misses,
                          NotesAbsences, HasBegun, Visiting, Reading
    <2>5. WritesFree(p, x) /\ ReadsNow(p, x) /\ StampedNow(p, x)
        BY <2>3 DEF WritesFree, ReadsNow, StampedNow, HasBegun, Reading, Visiting
    <2>. QED
        BY <1>1, <2>1, <2>2, <2>4, <2>5, LocalStep
<1>3. CASE ~Usable(directory)
    BY <1>1, <1>3, EndStep DEF ReadDirectory, End, Becomes, Safe, TypeOK
<1>. QED
    BY <1>2, <1>3

LEMMA BeginPassStep ==
    ASSUME Safe, NEW p \in Passes, BeginPass(p)
    PROVE  Safe'
<1> DEFINE x == [tx[p] EXCEPT !.at = "next", !.todo = Batch(tx[p].read),
                              !.unseen = Captured, !.left = Addresses \ ListedIn(directory)]
<1>1. p \in Workers /\ tx[p] \in Transactions /\ tx[p].at = "lock" /\ Sound(p, tx[p])
    BY Worker DEF Safe, TypeOK, BeginPass
<1>2. CASE \E q \in Passes \ {p} : Working(q)
    BY <1>1, <1>2, EndStep DEF BeginPass, End, Becomes, Safe, TypeOK
<1>3. CASE ~\E q \in Passes \ {p} : Working(q)
    <2>1. Becomes(p, x)
        BY <1>3 DEF BeginPass, Becomes, Safe, TypeOK
    <2>2. x \in Transactions
        BY <1>1 DEF Transactions, Points, Batch, ListedIn, Captured
    <2>3. /\ x.at = "next" /\ x.todo = Batch(tx[p].read) /\ x.unseen = Captured
          /\ x.left = Addresses \ ListedIn(directory) /\ x.read = tx[p].read
          /\ x.wrote = tx[p].wrote /\ x.retired = tx[p].retired /\ x.missed = tx[p].missed
        BY <1>1 DEF Transactions
    <2> HIDE DEF x
    <2>4. \A a \in Addresses : x.wrote[a] = NoUser
        BY <1>1, <2>3 DEF Sound, Sober, HasBegun
    <2>5. Sound(p, x)
        <3>1. x.retired = {}
            BY <1>1, <2>3 DEF Sound, Sober
        <3>2. Sober(x) /\ Fits(p, x) /\ AtAccount(p, x)
            BY <2>3, <2>4, <3>1 DEF Sober, Fits, AtAccount, Visiting
        <3>3. WithinBatch(p, x)
            BY <2>3, <2>4 DEF WithinBatch, Visiting
        <3>4. Retiring(x) /\ Misses(p, x) /\ NotesAbsences(x)
            BY <1>1, <2>3, <3>1 DEF Sound, Retiring, Misses, NotesAbsences
        <3>. QED
            BY <3>2, <3>3, <3>4 DEF Sound
    <2>6. WritesFree(p, x) /\ ReadsNow(p, x) /\ StampedNow(p, x)
        BY <1>1, <2>3, <2>4 DEF WritesFree, ReadsNow, StampedNow
    <2>. QED
        BY <1>1, <2>1, <2>2, <2>5, <2>6, LocalStep
<1>. QED
    BY <1>2, <1>3

LEMMA NextEntryStep ==
    ASSUME Safe, NEW p \in Passes, NextEntry(p)
    PROVE  Safe'
<1>1. p \in Workers /\ tx[p] \in Transactions /\ tx[p].at = "next" /\ Sound(p, tx[p])
    BY Worker DEF Safe, TypeOK, NextEntry
<1>2. PICK a \in tx[p].todo :
         \/ /\ SwitchedOff(a)
            /\ tx' = [tx EXCEPT ![p].todo = @ \ {a}]
         \/ /\ ~SwitchedOff(a)
            /\ tx' = [tx EXCEPT
                         ![p].todo = @ \ {a}, ![p].at = "country", ![p].address = a,
                         ![p].existing = users[a],
                         ![p].desired = Wish(tx[p].read[a].groups, tx[p].read[a].country)]
    BY DEF NextEntry
<1>3. a \in Addresses /\ a \in Batch(tx[p].read) /\ tx[p].todo \subseteq Batch(tx[p].read)
    BY <1>1, <1>2 DEF Transactions, Sound, WithinBatch, Reading
<1>4. p \notin Logins
    BY NameAssumption
<1> DEFINE skip == [tx[p] EXCEPT !.todo = @ \ {a}]
           visit == [tx[p] EXCEPT !.todo = @ \ {a}, !.at = "country", !.address = a,
                             !.existing = users[a],
                             !.desired = Wish(tx[p].read[a].groups, tx[p].read[a].country)]
<1>5. CASE SwitchedOff(a)
    <2>1. Becomes(p, skip)
        BY <1>1, <1>2, <1>5 DEF NextEntry, Becomes, Safe, TypeOK
    <2>2. skip \in Transactions
        BY <1>1 DEF Transactions
    <2>3. /\ skip.at = "next" /\ skip.todo \subseteq tx[p].todo /\ skip.read = tx[p].read
          /\ skip.wrote = tx[p].wrote /\ skip.retired = tx[p].retired
          /\ skip.left = tx[p].left /\ skip.missed = tx[p].missed /\ skip.unseen = tx[p].unseen
        BY <1>1 DEF Transactions
    <2> HIDE DEF skip
    <2>. QED
        BY <1>1, <1>3, <1>4, <2>1, <2>2, <2>3, QuietStep DEF HasBegun, AtAccount, Reading, Visiting
<1>6. CASE ~SwitchedOff(a)
    <2>1. Becomes(p, visit)
        BY <1>1, <1>2, <1>6 DEF NextEntry, Becomes, Safe, TypeOK
    <2>2. tx[p].read[a] \in Entries
        BY <1>1, <1>3 DEF Transactions
    <2>3. Wish(tx[p].read[a].groups, tx[p].read[a].country)
            \in [groups : SUBSET Roles, country : Countries \cup {NoCountry}]
        BY <2>2, NameAssumption DEF Wish, Entries, Unlisted, Listing
    <2>4. users[a] \in Rows \cup {NoUser}
        BY <1>3 DEF Safe, TypeOK
    <2>5. visit \in Transactions
        BY <1>1, <1>3, <2>3, <2>4 DEF Transactions, Points
    <2>6. /\ visit.at = "country" /\ visit.todo \subseteq tx[p].todo /\ visit.read = tx[p].read
          /\ visit.address = a /\ visit.existing = users[a]
          /\ visit.wrote = tx[p].wrote /\ visit.retired = tx[p].retired
          /\ visit.left = tx[p].left /\ visit.missed = tx[p].missed /\ visit.unseen = tx[p].unseen
        BY <1>1 DEF Transactions
    <2> HIDE DEF visit
    <2>7. AtAccount(p, visit)
        BY <1>3, <1>4, <2>6 DEF AtAccount
    <2>. QED
        BY <1>1, <1>3, <1>4, <2>1, <2>5, <2>6, <2>7, QuietStep DEF HasBegun, Reading, Visiting
<1>. QED
    BY <1>5, <1>6

\* A pass that still reads has written nobody outside its batch.
LEMMA DepartedIsUntouched ==
    ASSUME Safe, NEW p \in Passes, tx[p].at \in Reading, NEW a \in Departed(p)
    PROVE  a \in Addresses /\ tx[p].wrote[a] = NoUser /\ users[a] # NoUser
           /\ a \notin Batch(tx[p].read) /\ p \notin users[a].unseen
<1>1. Sound(p, tx[p])
    BY Worker DEF Safe
<1>2. a \in Addresses /\ a \notin Batch(tx[p].read) /\ Visible(p, a) # NoUser
      /\ p \notin Visible(p, a).unseen
    BY DEF Departed
<1>3. tx[p].wrote[a] = NoUser
    BY <1>1, <1>2 DEF Sound, WithinBatch
<1>. QED
    BY <1>2, <1>3 DEF Visible

LEMMA ScanStep ==
    ASSUME Safe, NEW p \in Passes, Scan(p)
    PROVE  Safe'
<1> DEFINE away == IF Trustworthy(tx[p].read) THEN Departed(p) ELSE {}
           x == [tx[p] EXCEPT !.at = "retire", !.todo = away, !.read = Idle.read]
<1>1. p \in Workers /\ tx[p] \in Transactions /\ tx[p].at = "next" /\ Sound(p, tx[p])
    BY Worker DEF Safe, TypeOK, Scan
<1>2. Becomes(p, x)
    BY DEF Scan, Becomes, Safe, TypeOK
<1>3. away \subseteq Addresses
    BY DEF Departed
<1>4. Idle.read \in [Addresses -> Entries]
    BY IdleType DEF Transactions
<1>5. x \in Transactions
    BY <1>1, <1>3, <1>4 DEF Transactions, Points
<1>6. /\ x.at = "retire" /\ x.todo = away /\ x.wrote = tx[p].wrote /\ x.retired = tx[p].retired
      /\ x.left = tx[p].left /\ x.missed = tx[p].missed /\ x.unseen = tx[p].unseen
    BY <1>1 DEF Transactions
<1>7. ASSUME NEW a \in away
      PROVE  tx[p].wrote[a] = NoUser /\ users[a] # NoUser /\ left[a] /\ a \in tx[p].missed
    <2>1. Trustworthy(tx[p].read) /\ a \in Departed(p)
        BY <1>7
    <2>2. tx[p].at \in Reading
        BY <1>1 DEF Reading
    <2>3. a \in Addresses /\ tx[p].wrote[a] = NoUser /\ users[a] # NoUser
          /\ a \notin Batch(tx[p].read) /\ p \notin users[a].unseen
        BY <2>1, <2>2, DepartedIsUntouched
    <2>4. a \notin ListedIn(tx[p].read)
        BY <2>1, <2>3 DEF Trustworthy
    <2>. QED
        BY <1>1, <2>2, <2>3, <2>4 DEF Safe, Snapshots, Sound, Misses
<1> HIDE DEF x, away
<1>8. Retiring(x)
    BY <1>1, <1>6, <1>7 DEF Retiring, Sound, Sober
<1>9. p \notin Logins
    BY NameAssumption
<1>. QED
    BY <1>1, <1>2, <1>5, <1>6, <1>8, <1>9, QuietStep DEF HasBegun, AtAccount, Reading, Visiting

LEMMA RetireStep ==
    ASSUME Safe, NEW p \in Passes, Retire(p)
    PROVE  Safe'
<1>1. p \in Workers /\ tx[p] \in Transactions /\ tx[p].at = "retire" /\ Sound(p, tx[p])
    BY Worker DEF Safe, TypeOK, Retire
<1>2. p \notin Logins
    BY NameAssumption
<1>3. CASE tx[p].todo = {}
    <2> DEFINE x == [tx[p] EXCEPT !.at = "commit"]
    <2>1. Becomes(p, x)
        BY <1>3 DEF Retire, Move, Becomes, Safe, TypeOK
    <2>2. x \in Transactions
        BY <1>1 DEF Transactions, Points
    <2>3. /\ x.at = "commit" /\ x.wrote = tx[p].wrote /\ x.retired = tx[p].retired
          /\ x.left = tx[p].left /\ x.missed = tx[p].missed /\ x.unseen = tx[p].unseen
        BY <1>1 DEF Transactions
    <2> HIDE DEF x
    <2>. QED
        BY <1>1, <1>2, <2>1, <2>2, <2>3, QuietStep DEF HasBegun, AtAccount, Reading, Visiting
<1>4. CASE tx[p].todo # {}
    <2>1. PICK a \in tx[p].todo :
            /\ HasRow(p, a) = {}
            /\ \/ /\ ~IsStillActive(users[a])
                  /\ tx' = [tx EXCEPT ![p].todo = @ \ {a}]
               \/ /\ IsStillActive(users[a])
                  /\ tx' = [tx EXCEPT
                               ![p].todo = @ \ {a},
                               ![p].wrote = [@ EXCEPT ![a] = Retired(users[a])],
                               ![p].retired = @ \cup {a}]
        BY <1>4 DEF Retire
    <2>2. a \in Addresses /\ tx[p].wrote[a] = NoUser /\ users[a] \in Rows /\ left[a]
          /\ a \in tx[p].missed
        BY <1>1 DEF Transactions, Sound, Retiring, Safe, TypeOK
    <2> DEFINE gone == Retired(users[a])
               kept == [tx[p] EXCEPT !.todo = @ \ {a}]
               x == [tx[p] EXCEPT !.todo = @ \ {a}, !.wrote = [@ EXCEPT ![a] = gone],
                                  !.retired = @ \cup {a}]
    <2>3. CASE ~IsStillActive(users[a])
        <3>1. Becomes(p, kept)
            <4>1. tx' = [tx EXCEPT ![p].todo = @ \ {a}]
                BY <2>1, <2>3
            <4>. QED
                BY <4>1 DEF Retire, Becomes, Safe, TypeOK
        <3>2. kept \in Transactions
            BY <1>1 DEF Transactions
        <3>3. /\ kept.at = "retire" /\ kept.wrote = tx[p].wrote /\ kept.retired = tx[p].retired
              /\ kept.left = tx[p].left /\ kept.missed = tx[p].missed /\ kept.unseen = tx[p].unseen
              /\ kept.todo \subseteq tx[p].todo
            BY <1>1 DEF Transactions
        <3> HIDE DEF kept
        <3>4. Retiring(kept)
            BY <1>1, <3>3 DEF Sound, Retiring
        <3>. QED
            BY <1>1, <1>2, <3>1, <3>2, <3>3, <3>4, QuietStep
            DEF HasBegun, AtAccount, Reading, Visiting
    <2>4. CASE IsStillActive(users[a])
        <3>1. Becomes(p, x)
            <4>1. tx' = [tx EXCEPT ![p].todo = @ \ {a}, ![p].wrote = [@ EXCEPT ![a] = gone],
                                   ![p].retired = @ \cup {a}]
                BY <2>1, <2>4
            <4>. QED
                BY <4>1 DEF Retire, Becomes, Safe, TypeOK
        <3>2. /\ gone \in Rows /\ gone # NoUser /\ gone.active = FALSE
              /\ gone.unseen = users[a].unseen /\ gone.subject = users[a].subject
            BY <2>2, RowAssumption DEF Retired, Rows
        <3>3. users[a] # NoUser /\ users[a].active = TRUE
            BY <2>2, <2>4, RowAssumption DEF IsStillActive, Rows
        <3> HIDE DEF gone
        <3>4. x \in Transactions
            BY <1>1, <2>2, <3>2 DEF Transactions
        <3>5. /\ x.at = "retire" /\ x.todo = tx[p].todo \ {a}
              /\ x.wrote = [tx[p].wrote EXCEPT ![a] = gone]
              /\ x.retired = tx[p].retired \cup {a}
              /\ x.left = tx[p].left /\ x.missed = tx[p].missed /\ x.unseen = tx[p].unseen
              /\ tx[p].wrote \in [Addresses -> Rows \cup {NoUser}]
            BY <1>1 DEF Transactions
        <3> HIDE DEF x
        <3>6. x.wrote[a] = gone /\ \A b \in Addresses : b # a => x.wrote[b] = tx[p].wrote[b]
            BY <2>2, <3>5
        <3>7. Fits(p, x)
            <4>1. Fits(p, tx[p]) /\ \A b : ~Overtaken(p, tx[p], b)
                BY <1>1, <1>2 DEF Sound, Overtaken
            <4>2. ASSUME NEW b \in Addresses, b # a
                  PROVE  x.wrote[b] = tx[p].wrote[b] /\ (b \in x.retired <=> b \in tx[p].retired)
                BY <4>2, <3>5, <3>6
            <4>3. x.wrote[a] = gone /\ a \in x.retired
                BY <3>5, <3>6
            <4> SUFFICES ASSUME NEW b \in Addresses, x.wrote[b] # NoUser
                         PROVE  Fits(p, x)!(b)!2
                BY DEF Fits
            <4>4. CASE b = a
                BY <3>2, <3>3, <4>3, <4>4
            <4>5. CASE b # a
                BY <3>5, <4>1, <4>2, <4>5 DEF Fits
            <4>. QED
                BY <4>4, <4>5
        <3>8. Sober(x) /\ AtAccount(p, x) /\ WithinBatch(p, x)
            BY <3>5 DEF Sober, HasBegun, AtAccount, WithinBatch, Reading, Visiting
        <3>9. Retiring(x)
            <4>1. ASSUME NEW b \in x.todo
                  PROVE  x.wrote[b] = NoUser /\ users[b] # NoUser /\ left[b] /\ b \in x.missed
                BY <1>1, <3>5, <3>6 DEF Sound, Retiring, Transactions
            <4>2. ASSUME NEW b \in x.retired
                  PROVE  x.wrote[b] # NoUser /\ users[b] # NoUser /\ users[b].active = TRUE
                         /\ left[b] /\ b \in x.missed
                BY <1>1, <2>2, <3>2, <3>3, <3>5, <3>6 DEF Sound, Retiring, Transactions
            <4>. QED
                BY <4>1, <4>2 DEF Retiring
        <3>10. Misses(p, x) /\ NotesAbsences(x)
            BY <1>1, <3>5 DEF Sound, Misses, NotesAbsences, HasBegun, Reading, Visiting
        <3>11. WritesFree(p, x)
            BY <2>1, <3>6 DEF WritesFree
        <3>12. ReadsNow(p, x) /\ StampedNow(p, x)
            BY <1>1, <3>5 DEF ReadsNow, StampedNow, HasBegun, Reading, Visiting
        <3>. QED
            BY <1>1, <3>1, <3>4, <3>7, <3>8, <3>9, <3>10, <3>11, <3>12, LocalStep DEF Sound
    <2>. QED
        BY <2>3, <2>4
<1>. QED
    BY <1>3, <1>4

LEMMA MatchStep ==
    ASSUME Safe, NEW l \in Logins, Match(l)
    PROVE  Safe'
<1>1. l \in Workers /\ tx[l] \in Transactions /\ tx[l].at = "idle" /\ Sound(l, tx[l])
    BY Worker DEF Safe, TypeOK, Match
<1>2. PICK s \in Subjects, a \in Addresses, c \in Countries \cup {NoCountry} :
         /\ <<s, a>> \in Tokens
         /\ directory[a].groups # {}
         /\ ~Conflict(s, a)
         /\ users[a] # NoUser => users[a].active
         /\ tx' = [tx EXCEPT
                     ![l].at = FirstPoint(c),
                     ![l].address = a,
                     ![l].existing = users[a],
                     ![l].subject = s,
                     ![l].desired = Wish(directory[a].groups, c),
                     ![l].unseen = Captured,
                     ![l].left = Addresses \ ListedIn(directory)]
    BY DEF Match
<1> DEFINE next == FirstPoint(c)
           x == [tx[l] EXCEPT !.at = next, !.address = a, !.existing = users[a], !.subject = s,
                              !.desired = Wish(directory[a].groups, c), !.unseen = Captured,
                              !.left = Addresses \ ListedIn(directory)]
<1>3. Becomes(l, x)
    <2>1. tx' = [tx EXCEPT ![l].at = next, ![l].address = a, ![l].existing = users[a],
                           ![l].subject = s, ![l].desired = Wish(directory[a].groups, c),
                           ![l].unseen = Captured, ![l].left = Addresses \ ListedIn(directory)]
        BY <1>2
    <2> HIDE DEF next
    <2>2. tx' = [tx EXCEPT ![l] = x]
        BY <2>1
    <2>. QED
        BY <2>2 DEF Match, Becomes, Safe, TypeOK
<1>4. /\ Wish(directory[a].groups, c)
            \in [groups : SUBSET Roles, country : Countries \cup {NoCountry}]
      /\ Wish(directory[a].groups, c).country = c
    BY NameAssumption DEF Wish, Safe, TypeOK, Entries, Unlisted, Listing
<1>5. /\ users[a] \in Rows \cup {NoUser}
      /\ users[a] # NoUser => users[a].subject \in {NoSubject, s}
    BY <1>2 DEF Safe, TypeOK, Conflict
<1>6. Captured \subseteq Passes /\ next \in {"user", "country"} /\ (next = "country" => c \in Countries)
    BY DEF Captured, FirstPoint
<1>7. x \in Transactions
    <2> HIDE DEF next
    <2>. QED
        BY <1>1, <1>4, <1>5, <1>6 DEF Transactions, Points
<1>8. /\ x.at = next /\ x.address = a /\ x.existing = users[a] /\ x.subject = s
      /\ x.desired.country = c /\ x.unseen = Captured
      /\ x.left = Addresses \ ListedIn(directory)
      /\ x.wrote = tx[l].wrote /\ x.retired = tx[l].retired
    <2> HIDE DEF next
    <2>. QED
        BY <1>1, <1>4 DEF Transactions
<1> HIDE DEF x, next
<1>9. x.retired = {} /\ \A b \in Addresses : x.wrote[b] = NoUser
    BY <1>1, <1>8 DEF Sound, Sober, HasBegun
<1>10. l \notin Passes
    BY NameAssumption
<1>11. Sound(l, x)
    <2>1. Sober(x) /\ Fits(l, x)
        BY <1>9 DEF Sober, Fits
    <2>2. AtAccount(l, x) /\ WithinBatch(l, x)
        BY <1>5, <1>6, <1>8, <1>10 DEF AtAccount, WithinBatch
    <2>3. Retiring(x) /\ Misses(l, x) /\ NotesAbsences(x)
        BY <1>6, <1>8, <1>9, <1>10 DEF Retiring, Misses, NotesAbsences
    <2>. QED
        BY <2>1, <2>2, <2>3 DEF Sound
<1>12. WritesFree(l, x) /\ ReadsNow(l, x) /\ StampedNow(l, x)
    BY <1>8, <1>9, <1>10 DEF WritesFree, ReadsNow, StampedNow
<1>. QED
    BY <1>1, <1>3, <1>7, <1>11, <1>12, LocalStep

\* What holds of a transaction at an account
LEMMA VisitingFacts ==
    ASSUME Safe, NEW t \in Workers, tx[t].at \in Visiting
    PROVE  /\ tx[t] \in Transactions /\ HasBegun(tx[t]) /\ tx[t].at \in Reading
           /\ tx[t].retired = {} /\ Sound(t, tx[t])
           /\ tx[t].address \in Addresses
           /\ t \in Passes => /\ tx[t].todo \subseteq Batch(tx[t].read)
                             /\ tx[t].address \in Batch(tx[t].read)
<1>1. tx[t] \in Transactions /\ Sound(t, tx[t])
    BY DEF Safe, TypeOK
<1>2. HasBegun(tx[t]) /\ tx[t].at \in Reading /\ tx[t].at \notin {"retire", "commit"}
    BY DEF HasBegun, Visiting, Reading
<1>. QED
    BY <1>1, <1>2 DEF Sound, Sober, AtAccount, WithinBatch

\* From one statement on an account to the next
LEMMA MoveStep ==
    ASSUME Safe, NEW t \in Workers, tx[t].at \in Visiting, NEW at \in Visiting,
           Move(t, at), Uncommitted, at \notin {"country", "insertCountry"}
                                       \/ tx[t].desired.country \in Countries
    PROVE  Safe'
<1> DEFINE x == [tx[t] EXCEPT !.at = at]
<1>1. Becomes(t, x)
    BY DEF Move, Uncommitted, Becomes, Safe, TypeOK
<1>2. tx[t] \in Transactions
    BY VisitingFacts
<1>3. x \in Transactions
    BY <1>2 DEF Transactions, Points, Visiting
<1>4. /\ x.at = at /\ x.todo = tx[t].todo /\ x.read = tx[t].read
      /\ x.address = tx[t].address /\ x.existing = tx[t].existing /\ x.subject = tx[t].subject
      /\ x.desired = tx[t].desired
      /\ x.wrote = tx[t].wrote /\ x.retired = tx[t].retired
      /\ x.left = tx[t].left /\ x.missed = tx[t].missed /\ x.unseen = tx[t].unseen
    BY <1>2 DEF Transactions
<1> HIDE DEF x
<1>5. AtAccount(t, x)
    BY <1>4, VisitingFacts DEF AtAccount, Sound
<1>6. HasBegun(x) /\ x.at \in Reading /\ tx[t].at \notin {"retire", "commit"}
      /\ x.at # "retire"
    BY <1>4 DEF HasBegun, Visiting, Reading
<1>. QED
    BY <1>1, <1>3, <1>4, <1>5, <1>6, VisitingFacts, QuietStep

LEMMA EnsureCountryStep ==
    ASSUME Safe, NEW t \in Workers, EnsureCountry(t)
    PROVE  Safe'
<1>1. tx[t].at = "country" /\ tx[t].at \in Visiting /\ Uncommitted
    BY DEF EnsureCountry, Visiting
<1>2. "user" \in Visiting /\ "insertCountry" \in Visiting
    BY DEF Visiting
<1>3. CASE NeedsCountry(t) /\ tx[t].desired.country \notin countries \cup tx[t].inserted
    <2>1. Move(t, "insertCountry")
        BY <1>3 DEF EnsureCountry
    <2>2. tx[t].desired.country \in Countries
        <3>1. CASE t \in Logins
            BY <1>1, <3>1, VisitingFacts DEF Sound, AtAccount
        <3>2. CASE t \notin Logins
            BY <1>1, <1>3, <3>2, VisitingFacts DEF NeedsCountry, DesiredCountry, Transactions
        <3>. QED
            BY <3>1, <3>2
    <2>. QED
        BY <1>1, <1>2, <2>1, <2>2, MoveStep
<1>4. CASE ~(NeedsCountry(t) /\ tx[t].desired.country \notin countries \cup tx[t].inserted)
    BY <1>1, <1>2, <1>4, MoveStep DEF EnsureCountry
<1>. QED
    BY <1>3, <1>4

LEMMA InsertCountryStep ==
    ASSUME Safe, NEW t \in Workers, InsertCountry(t)
    PROVE  Safe'
<1>1. tx[t].at = "insertCountry" /\ tx[t].at \in Visiting
    BY DEF InsertCountry, Visiting
<1>2. CASE tx[t].desired.country \in countries
    BY <1>2, RollbackStep DEF InsertCountry
<1>3. CASE tx[t].desired.country \notin countries
    <2> DEFINE c == tx[t].desired.country
               x == [tx[t] EXCEPT !.at = "user", !.inserted = @ \cup {c}]
    <2>1. Becomes(t, x)
        BY <1>3 DEF InsertCountry, Uncommitted, Becomes, Safe, TypeOK
    <2>2. tx[t] \in Transactions /\ c \in Countries
        BY <1>1, VisitingFacts DEF Sound, AtAccount
    <2>3. x \in Transactions
        BY <2>2 DEF Transactions, Points
    <2>4. /\ x.at = "user" /\ x.todo = tx[t].todo /\ x.read = tx[t].read
          /\ x.address = tx[t].address /\ x.existing = tx[t].existing
          /\ x.subject = tx[t].subject
          /\ x.wrote = tx[t].wrote /\ x.retired = tx[t].retired
          /\ x.left = tx[t].left /\ x.missed = tx[t].missed /\ x.unseen = tx[t].unseen
        BY <2>2 DEF Transactions
    <2> HIDE DEF x
    <2>5. AtAccount(t, x)
        BY <1>1, <2>4, VisitingFacts DEF AtAccount, Sound
    <2>. QED
        BY <1>1, <2>1, <2>3, <2>4, <2>5, VisitingFacts, QuietStep DEF HasBegun, Visiting, Reading
<1>. QED
    BY <1>2, <1>3

\* The end of the statements on one account, with the roles g granted and v revoked
LEMMA AccountDoneStep ==
    ASSUME Safe, NEW t \in Workers, tx[t].at \in Visiting,
           NEW g \in SUBSET (Addresses \X Roles), NEW v \in SUBSET (Addresses \X Roles),
           Becomes(t, [AccountDone(t) EXCEPT !.granted = g, !.revoked = v])
    PROVE  Safe'
<1> DEFINE x == [AccountDone(t) EXCEPT !.granted = g, !.revoked = v]
<1>1. tx[t] \in Transactions
    BY VisitingFacts
<1>2. Nothing \in [groups : SUBSET Roles, country : Countries \cup {NoCountry}]
    BY DEF Nothing, Wish
<1>3. CASE t \in Passes
    <2>1. AccountDone(t) = [tx[t] EXCEPT !.at = "next", !.address = NoUser, !.existing = NoUser,
                                         !.desired = Nothing, !.before = {}]
        BY <1>3 DEF AccountDone
    <2>2. x \in Transactions
        BY <1>1, <1>2, <2>1 DEF Transactions, Points
    <2>3. /\ x.at = "next" /\ x.todo = tx[t].todo /\ x.read = tx[t].read
          /\ x.wrote = tx[t].wrote /\ x.retired = tx[t].retired
          /\ x.left = tx[t].left /\ x.missed = tx[t].missed /\ x.unseen = tx[t].unseen
        BY <1>1, <2>1 DEF Transactions
    <2>4. t \notin Logins
        BY <1>3, NameAssumption
    <2> HIDE DEF x
    <2>5. Becomes(t, x)
        BY DEF x
    <2>. QED
        BY <1>3, <2>2, <2>3, <2>4, <2>5, VisitingFacts, QuietStep
        DEF HasBegun, AtAccount, Visiting, Reading
<1>4. CASE t \notin Passes
    <2>1. AccountDone(t) = [tx[t] EXCEPT !.at = "commit", !.desired = Nothing, !.before = {}]
        BY <1>4 DEF AccountDone
    <2>2. x \in Transactions
        BY <1>1, <1>2, <2>1 DEF Transactions, Points
    <2>3. /\ x.at = "commit" /\ x.address = tx[t].address /\ x.existing = tx[t].existing
          /\ x.wrote = tx[t].wrote /\ x.retired = tx[t].retired
          /\ x.left = tx[t].left /\ x.missed = tx[t].missed /\ x.unseen = tx[t].unseen
        BY <1>1, <2>1 DEF Transactions
    <2> HIDE DEF x
    <2>4. Becomes(t, x)
        BY DEF x
    <2>. QED
        BY <1>4, <2>2, <2>3, <2>4, VisitingFacts, QuietStep
        DEF HasBegun, AtAccount, Visiting, Reading
<1>. QED
    BY <1>3, <1>4

LEMMA RolesOfType ==
    ASSUME Safe, NEW t \in Workers, NEW a
    PROVE  RolesOf(t, a) \subseteq Roles
    BY DEF RolesOf

LEMMA ReadRolesStep ==
    ASSUME Safe, NEW t \in Workers, ReadRoles(t)
    PROVE  Safe'
<1>1. tx[t].at = "roles" /\ tx[t].at \in Visiting /\ Uncommitted /\ tx[t] \in Transactions
    BY DEF ReadRoles, Visiting, Safe, TypeOK
<1>2. CASE RolesOf(t, tx[t].address) = tx[t].desired.groups
    <2>1. tx' = [tx EXCEPT ![t] = AccountDone(t)]
        BY <1>2 DEF ReadRoles
    <2>2. AccountDone(t) =
            [AccountDone(t) EXCEPT !.granted = tx[t].granted, !.revoked = tx[t].revoked]
        BY <1>1 DEF AccountDone, Transactions
    <2>3. tx[t].granted \in SUBSET (Addresses \X Roles)
          /\ tx[t].revoked \in SUBSET (Addresses \X Roles)
        BY <1>1 DEF Transactions
    <2>. QED
        BY <1>1, <2>1, <2>2, <2>3, AccountDoneStep DEF Becomes, Uncommitted, Safe, TypeOK
<1>3. CASE RolesOf(t, tx[t].address) # tx[t].desired.groups
    <2> DEFINE x == [tx[t] EXCEPT !.at = "diff", !.before = RolesOf(t, tx[t].address)]
    <2>1. Becomes(t, x)
        BY <1>3 DEF ReadRoles, Uncommitted, Becomes, Safe, TypeOK
    <2>2. x \in Transactions
        BY <1>1, RolesOfType DEF Transactions, Points
    <2>3. /\ x.at = "diff" /\ x.todo = tx[t].todo /\ x.read = tx[t].read
          /\ x.address = tx[t].address /\ x.existing = tx[t].existing
          /\ x.subject = tx[t].subject
          /\ x.wrote = tx[t].wrote /\ x.retired = tx[t].retired
          /\ x.left = tx[t].left /\ x.missed = tx[t].missed /\ x.unseen = tx[t].unseen
        BY <1>1 DEF Transactions
    <2> HIDE DEF x
    <2>4. AtAccount(t, x)
        BY <1>1, <2>3, VisitingFacts DEF AtAccount, Sound
    <2>. QED
        BY <1>1, <2>1, <2>2, <2>3, <2>4, VisitingFacts, QuietStep DEF HasBegun, Visiting, Reading
<1>. QED
    BY <1>2, <1>3

LEMMA WriteRolesStep ==
    ASSUME Safe, NEW t \in Workers, WriteRoles(t)
    PROVE  Safe'
<1> DEFINE a == tx[t].address
           removed == tx[t].before \ tx[t].desired.groups
           added == tx[t].desired.groups \ tx[t].before
           v == tx[t].revoked \cup ({a} \X (removed \cap RolesOf(t, a)))
           g == tx[t].granted \cup ({a} \X (added \ RolesOf(t, a)))
<1>1. tx[t].at \in Visiting /\ Uncommitted /\ tx[t] \in Transactions /\ a \in Addresses
    BY VisitingFacts DEF WriteRoles, Visiting
<1>2. AccountDone(t).revoked = tx[t].revoked /\ AccountDone(t).granted = tx[t].granted
    BY <1>1 DEF AccountDone, Transactions
<1>3. tx' = [tx EXCEPT ![t] = [AccountDone(t) EXCEPT !.granted = g, !.revoked = v]]
    <2>1. tx' = [tx EXCEPT ![t] = [AccountDone(t) EXCEPT
                    !.revoked = @ \cup ({a} \X (removed \cap RolesOf(t, a))),
                    !.granted = @ \cup ({a} \X (added \ RolesOf(t, a)))]]
        BY DEF WriteRoles
    <2>. QED
        BY <1>1, <1>2, <2>1 DEF AccountDone, Transactions
<1>4. g \in SUBSET (Addresses \X Roles) /\ v \in SUBSET (Addresses \X Roles)
    BY <1>1, RolesOfType DEF Transactions
<1> HIDE DEF g, v
<1>. QED
    BY <1>1, <1>3, <1>4, AccountDoneStep DEF Becomes, Uncommitted, Safe, TypeOK

LEMMA PatchedRow ==
    ASSUME Safe, NEW t \in Workers, tx[t].at \in Visiting,
           tx[t].existing # NoUser, NEW row \in Rows
    PROVE  /\ Patched(t, row) \in Rows
           /\ Patched(t, row).active = row.active
           /\ Patched(t, row).unseen = row.unseen
           /\ row.subject # NoSubject =>
                \/ Patched(t, row).subject = row.subject
                \/ t \in Logins /\ Owns(tx[t].existing, NoSubject)
<1> DEFINE subject == IF DesiredSubject(t) = tx[t].existing.subject
                      THEN row.subject ELSE DesiredSubject(t)
           country == IF DesiredCountry(t) = tx[t].existing.country
                      THEN row.country ELSE DesiredCountry(t)
<1>1. tx[t] \in Transactions /\ tx[t].existing \in Rows
    BY VisitingFacts DEF Transactions
<1>2. Patched(t, row) = [row EXCEPT !.subject = subject, !.country = country]
    BY DEF Patched
<1>3. subject \in Subjects \cup {NoSubject} /\ country \in Countries \cup {NoCountry}
    BY <1>1 DEF DesiredSubject, DesiredCountry, Transactions, Rows
<1>4. subject = row.subject \/ (t \in Logins /\ Owns(tx[t].existing, NoSubject))
    <2>1. CASE t \in Logins
        <3>1. tx[t].existing.subject \in {NoSubject, tx[t].subject}
            BY <2>1, VisitingFacts DEF Sound, AtAccount
        <3>2. DesiredSubject(t) = tx[t].subject
            BY <2>1 DEF DesiredSubject
        <3>. QED
            BY <2>1, <3>1, <3>2 DEF Owns
    <2>2. CASE t \notin Logins
        BY <2>2 DEF DesiredSubject
    <2>. QED
        BY <2>1, <2>2
<1> HIDE DEF subject, country
<1>. QED
    BY <1>2, <1>3, <1>4 DEF Rows

\* The row that UpsertUser writes
Upserted(t, a) == IF tx[t].existing = NoUser THEN NewRow(t) ELSE Patched(t, users[a])

LEMMA UpsertedFits ==
    ASSUME Safe, NEW t \in Workers, tx[t].at \in Visiting, NEW a, a = tx[t].address,
           ~(tx[t].existing = NoUser /\ users[a] # NoUser)
    PROVE  /\ Upserted(t, a) \in Rows /\ Upserted(t, a) # NoUser
           /\ users[a] = NoUser => /\ Upserted(t, a).active = TRUE
                                   /\ Upserted(t, a).unseen = tx[t].unseen
           /\ users[a] # NoUser =>
                /\ Upserted(t, a).active = users[a].active
                /\ Upserted(t, a).unseen = users[a].unseen
                /\ users[a].subject # NoSubject =>
                     Upserted(t, a).subject = users[a].subject \/ Overtaken(t, tx[t], a)
<1>1. tx[t] \in Transactions /\ a \in Addresses /\ users[a] \in Rows \cup {NoUser}
    BY VisitingFacts DEF Safe, TypeOK
<1>2. CASE tx[t].existing = NoUser
    <2>1. Upserted(t, a) = NewRow(t) /\ users[a] = NoUser
        BY <1>2 DEF Upserted
    <2>2. NewRow(t) \in Rows /\ NewRow(t).active = TRUE /\ NewRow(t).unseen = tx[t].unseen
        BY <1>1 DEF NewRow, Transactions, Rows
    <2>. QED
        BY <2>1, <2>2, RowAssumption
<1>3. CASE tx[t].existing # NoUser
    <2>1. users[a] \in Rows /\ users[a] # NoUser
        BY <1>1, <1>3, VisitingFacts DEF Sound, AtAccount
    <2>. QED
        BY <1>3, <2>1, PatchedRow, RowAssumption DEF Upserted, Overtaken
<1>. QED
    BY <1>2, <1>3

LEMMA UpsertUserStep ==
    ASSUME Safe, NEW t \in Workers, UpsertUser(t)
    PROVE  Safe'
<1> DEFINE a == tx[t].address
           row == Upserted(t, a)
           x == [tx[t] EXCEPT !.at = "roles", !.wrote = [@ EXCEPT ![a] = row]]
<1>1. tx[t].at = "user" /\ tx[t].at \in Visiting /\ tx[t] \in Transactions /\ a \in Addresses
    BY VisitingFacts DEF UpsertUser, Visiting
<1>2. CASE Unchanged(t)
    BY <1>1, <1>2, MoveStep DEF UpsertUser, Visiting
<1>3. CASE SubjectTaken(t, a) \/ (tx[t].existing = NoUser /\ users[a] # NoUser)
    <2>1. CASE Rollback(t)
        BY <2>1, RollbackStep
    <2>. QED
        BY <1>2, <1>3, <2>1 DEF UpsertUser
<1>4. CASE ~Unchanged(t) /\ ~(SubjectTaken(t, a) \/ (tx[t].existing = NoUser /\ users[a] # NoUser))
    <2>1. /\ HasRow(t, a) = {}
          /\ tx' = [tx EXCEPT ![t].at = "roles", ![t].wrote = [@ EXCEPT ![a] = row]]
          /\ Uncommitted
        BY <1>4 DEF UpsertUser, Upserted
    <2>2. /\ row \in Rows /\ row # NoUser
          /\ users[a] = NoUser => row.active = TRUE /\ row.unseen = tx[t].unseen
          /\ users[a] # NoUser =>
               /\ row.active = users[a].active
               /\ row.unseen = users[a].unseen
               /\ users[a].subject # NoSubject =>
                    row.subject = users[a].subject \/ Overtaken(t, tx[t], a)
        BY <1>1, <1>4, UpsertedFits
    <2> HIDE DEF row
    <2>3. Becomes(t, x)
        BY <2>1 DEF Uncommitted, Becomes, Safe, TypeOK
    <2>4. x \in Transactions
        BY <1>1, <2>2 DEF Transactions, Points
    <2>5. /\ x.at = "roles" /\ x.todo = tx[t].todo /\ x.read = tx[t].read
          /\ x.address = tx[t].address /\ x.existing = tx[t].existing
          /\ x.subject = tx[t].subject
          /\ x.wrote = [tx[t].wrote EXCEPT ![a] = row]
          /\ x.retired = {}
          /\ x.left = tx[t].left /\ x.missed = tx[t].missed /\ x.unseen = tx[t].unseen
          /\ tx[t].wrote \in [Addresses -> Rows \cup {NoUser}]
        BY <1>1, VisitingFacts DEF Transactions
    <2> HIDE DEF x
    <2>6. x.wrote[a] = row /\ \A b \in Addresses : b # a => x.wrote[b] = tx[t].wrote[b]
        BY <1>1, <2>5
    <2>7. \A b : Overtaken(t, x, b) <=> Overtaken(t, tx[t], b)
        BY <2>5 DEF Overtaken
    <2>8. Fits(t, x)
        <3> SUFFICES ASSUME NEW b \in Addresses, x.wrote[b] # NoUser
                     PROVE  Fits(t, x)!(b)!2
            BY DEF Fits
        <3>1. CASE b = a
            BY <2>2, <2>5, <2>6, <2>7, <3>1
        <3>2. CASE b # a
            <4>1. Fits(t, tx[t]) /\ tx[t].retired = {}
                BY <1>1, VisitingFacts DEF Sound
            <4>. QED
                BY <2>5, <2>6, <2>7, <3>2, <4>1 DEF Fits
        <3>. QED
            BY <3>1, <3>2
    <2>9. HasBegun(x) /\ HasBegun(tx[t]) /\ x.at \in Reading /\ tx[t].at \in Reading
        BY <1>1, <2>5 DEF HasBegun, Visiting, Reading
    <2>10. Sober(x) /\ Retiring(x)
        BY <2>5, <2>9 DEF Sober, Retiring
    <2>11. AtAccount(t, x)
        BY <1>1, <2>5, VisitingFacts DEF AtAccount, Sound
    <2>12. WithinBatch(t, x)
        BY <1>1, <2>5, <2>6, <2>9, VisitingFacts DEF WithinBatch, Sound
    <2>13. Misses(t, x) /\ NotesAbsences(x)
        BY <1>1, <2>5, <2>9, VisitingFacts DEF Misses, NotesAbsences, Sound
    <2>14. WritesFree(t, x) /\ ReadsNow(t, x) /\ StampedNow(t, x)
        BY <2>1, <2>5, <2>6, <2>9 DEF WritesFree, ReadsNow, StampedNow
    <2>. QED
        BY <2>3, <2>4, <2>8, <2>10, <2>11, <2>12, <2>13, <2>14, LocalStep DEF Sound
<1>. QED
    BY <1>2, <1>3, <1>4

--------------------------------------------------------------------------------
(* Steps that change the rows *)

LEMMA CaptureTimeStep ==
    ASSUME Safe, NEW p \in Passes, CaptureTime(p)
    PROVE  Safe'
<1> DEFINE later(x) == [x EXCEPT !.unseen = @ \ {p},
                                 !.wrote = [a \in Addresses |-> Predating(@[a], p)]]
           fetching == [tx[p] EXCEPT !.at = "fetch"]
<1>1. /\ p \in Workers /\ tx[p].at = "idle"
      /\ \A t \in Workers : tx[t] \in Transactions /\ Sound(t, tx[t])
      /\ users \in [Addresses -> Rows \cup {NoUser}]
    BY Worker DEF CaptureTime, Safe, TypeOK
<1>2. /\ users' = [a \in Addresses |-> Predating(users[a], p)]
      /\ tx' = [t \in Workers |-> IF t = p THEN fetching ELSE later(tx[t])]
      /\ UNCHANGED <<directory, roles, countries, flips, left, changes>>
    BY DEF CaptureTime
<1>3. ASSUME NEW row \in Rows \cup {NoUser}
      PROVE  /\ Predating(row, p) \in Rows \cup {NoUser}
             /\ Predating(row, p) = NoUser <=> row = NoUser
             /\ row # NoUser => /\ Predating(row, p).active = row.active
                                /\ Predating(row, p).subject = row.subject
                                /\ Predating(row, p).unseen = row.unseen \ {p}
    BY RowAssumption DEF Rows, Predating
<1>4. ASSUME NEW t \in Workers, t # p
      PROVE  /\ tx'[t] \in Transactions
             /\ tx'[t].unseen = tx[t].unseen \ {p}
             /\ \A a \in Addresses : tx'[t].wrote[a] = Predating(tx[t].wrote[a], p)
             /\ \A a \in Addresses : tx[t].wrote[a] \in Rows \cup {NoUser}
             /\ tx'[t].at = tx[t].at /\ tx'[t].read = tx[t].read /\ tx'[t].todo = tx[t].todo
             /\ tx'[t].address = tx[t].address /\ tx'[t].existing = tx[t].existing
             /\ tx'[t].subject = tx[t].subject /\ tx'[t].desired = tx[t].desired
             /\ tx'[t].left = tx[t].left /\ tx'[t].missed = tx[t].missed /\ tx'[t].retired = tx[t].retired
    <2>1. tx'[t] = later(tx[t])
        BY <1>2, <1>4
    <2>2. \A a \in Addresses : tx[t].wrote[a] \in Rows \cup {NoUser}
        BY <1>1 DEF Transactions
    <2> DEFINE w == [a \in Addresses |-> Predating(tx[t].wrote[a], p)]
    <2>3. w \in [Addresses -> Rows \cup {NoUser}]
        BY <1>3, <2>2
    <2>4. later(tx[t]) = [tx[t] EXCEPT !.unseen = tx[t].unseen \ {p}, !.wrote = w]
        OBVIOUS
    <2>5. tx[t] \in Transactions /\ tx[t].unseen \ {p} \in SUBSET Passes
        BY <1>1 DEF Transactions
    <2>6. \A a \in Addresses : w[a] = Predating(tx[t].wrote[a], p)
        OBVIOUS
    <2> HIDE DEF later, w
    <2>7. tx'[t] = [tx[t] EXCEPT !.unseen = tx[t].unseen \ {p}, !.wrote = w]
        BY <2>1, <2>4
    <2> DEFINE y == tx'[t]
    <2>8. /\ y \in Transactions
          /\ y.unseen = tx[t].unseen \ {p} /\ y.wrote = w
          /\ y.at = tx[t].at /\ y.read = tx[t].read /\ y.todo = tx[t].todo
          /\ y.address = tx[t].address /\ y.existing = tx[t].existing
          /\ y.subject = tx[t].subject /\ y.desired = tx[t].desired
          /\ y.left = tx[t].left /\ y.missed = tx[t].missed /\ y.retired = tx[t].retired
        BY <2>3, <2>5, <2>7 DEF Transactions
    <2>. QED
        BY <2>2, <2>6, <2>8
<1>5. /\ tx'[p] \in Transactions /\ tx'[p].at = "fetch" /\ tx'[p].wrote = tx[p].wrote
      /\ tx'[p].retired = tx[p].retired
    <2>1. tx'[p] = fetching
        BY <1>1, <1>2
    <2>2. fetching \in Transactions /\ fetching.at = "fetch" /\ fetching.wrote = tx[p].wrote
          /\ fetching.retired = tx[p].retired
        BY <1>1 DEF Transactions, Points
    <2>. QED
        BY <2>1, <2>2
<1> HIDE DEF later, fetching
<1>6. \A a \in Addresses : users[a] \in Rows \cup {NoUser} /\ users'[a] = Predating(users[a], p)
    BY <1>1, <1>2
<1>7. TypeOK'
    <2>1. users' \in [Addresses -> Rows \cup {NoUser}]
        BY <1>1, <1>2, <1>3
    <2>2. tx' \in [Workers -> Transactions]
        BY <1>2, <1>4, <1>5
    <2>. QED
        BY <1>2, <2>1, <2>2 DEF Safe, TypeOK
<1>8. Sound(p, tx[p])'
    <2>1. tx'[p].retired = {} /\ \A a \in Addresses : tx'[p].wrote[a] = NoUser
        BY <1>1, <1>5 DEF Sound, Sober, HasBegun
    <2>2. (Sober(tx[p]) /\ Fits(p, tx[p]) /\ Retiring(tx[p]))'
        BY <1>5, <2>1 DEF Sober, Fits, Retiring
    <2>3. (AtAccount(p, tx[p]) /\ WithinBatch(p, tx[p]) /\ Misses(p, tx[p]) /\ NotesAbsences(tx[p]))'
        BY <1>5 DEF AtAccount, WithinBatch, Misses, NotesAbsences, HasBegun, Visiting, Reading
    <2>. QED
        BY <2>2, <2>3 DEF Sound
<1>9. ASSUME NEW t \in Workers, t # p
      PROVE  Sound(t, tx[t])'
    <2>1. Sound(t, tx[t])
        BY <1>1
    <2>2. \A a \in Addresses : tx'[t].wrote[a] = NoUser <=> tx[t].wrote[a] = NoUser
        BY <1>3, <1>4, <1>9
    <2>3. \A a \in Addresses : users'[a] = NoUser <=> users[a] = NoUser
        BY <1>3, <1>6
    <2>4. Sober(tx[t])'
        BY <1>4, <1>9, <2>1, <2>2 DEF Sound, Sober, HasBegun
    <2>5. Fits(t, tx[t])'
        <3> SUFFICES ASSUME NEW a \in Addresses, tx'[t].wrote[a] # NoUser
                     PROVE  Fits(t, tx[t])!(a)!2'
            BY DEF Fits
        <3>1. Fits(t, tx[t])!(a)!2 /\ tx[t].wrote[a] # NoUser
            BY <2>1, <2>2 DEF Sound, Fits
        <3>2. Overtaken(t, tx[t], a)' <=> Overtaken(t, tx[t], a)
            BY <1>4, <1>9 DEF Overtaken, Owns
        <3>3. /\ tx'[t].wrote[a].active = tx[t].wrote[a].active
              /\ tx'[t].wrote[a].subject = tx[t].wrote[a].subject
              /\ tx'[t].wrote[a].unseen = tx[t].wrote[a].unseen \ {p}
              /\ tx'[t].unseen = tx[t].unseen \ {p} /\ tx'[t].retired = tx[t].retired
            BY <1>3, <1>4, <1>9, <3>1
        <3>4. CASE users[a] = NoUser
            BY <2>3, <3>1, <3>3, <3>4
        <3>5. CASE users[a] # NoUser
            <4>1. /\ users'[a].active = users[a].active /\ users'[a].subject = users[a].subject
                  /\ users'[a].unseen = users[a].unseen \ {p}
                BY <1>3, <1>6, <3>5
            <4>. QED
                BY <2>3, <3>1, <3>2, <3>3, <3>5, <4>1
        <3>. QED
            BY <3>4, <3>5
    <2>6. AtAccount(t, tx[t])'
        BY <1>4, <1>9, <2>1, <2>3 DEF Sound, AtAccount, Transactions
    <2>7. WithinBatch(t, tx[t])'
        BY <1>4, <1>9, <2>1, <2>2 DEF Sound, WithinBatch, Batch, ListedIn
    <2>8. Retiring(tx[t])'
        <3>1. tx[t].todo \subseteq Addresses /\ tx[t].retired \subseteq Addresses
            BY <1>1 DEF Transactions
        <3>2. \A a \in Addresses : users[a] # NoUser => users'[a].active = users[a].active
            BY <1>3, <1>6
        <3>3. tx'[t].at = tx[t].at /\ tx'[t].todo = tx[t].todo /\ tx'[t].retired = tx[t].retired
              /\ tx'[t].missed = tx[t].missed /\ left' = left
            BY <1>2, <1>4, <1>9
        <3>. QED
            BY <2>1, <2>2, <2>3, <3>1, <3>2, <3>3 DEF Sound, Retiring
    <2>9. Misses(t, tx[t])' /\ NotesAbsences(tx[t])'
        BY <1>2, <1>4, <1>9, <2>1 DEF Sound, Misses, NotesAbsences, HasBegun, ListedIn
    <2>. QED
        BY <2>4, <2>5, <2>6, <2>7, <2>8, <2>9 DEF Sound
<1>10. OneWriter'
    <2>1. \A t \in Workers : \A a \in Addresses : tx'[t].wrote[a] # NoUser => tx[t].wrote[a] # NoUser
        BY <1>3, <1>4, <1>5
    <2>. QED
        BY <2>1 DEF Safe, OneWriter
<1>11. Audited' /\ Absences'
    BY <1>2, <1>3, <1>6 DEF Safe, Audited, Absences, ListedIn
<1>12. Snapshots'
    <2> SUFFICES ASSUME NEW q \in Passes, tx'[q].at \in Reading \cup {"lock"},
                        NEW a \in Addresses, a \notin ListedIn(tx[q].read)'
                 PROVE  /\ users'[a] # NoUser => q \in users'[a].unseen \/ left[a]
                        /\ \A t \in Workers :
                             HasBegun(tx'[t]) => q \in tx'[t].unseen \/ a \in tx'[t].left
        BY <1>2 DEF Snapshots, HasBegun, ListedIn
    <2>1. q # p /\ q \in Workers
        BY <1>5, Worker DEF Reading, Visiting
    <2>2. tx[q].at \in Reading \cup {"lock"} /\ a \notin ListedIn(tx[q].read)
        BY <1>4, <2>1 DEF ListedIn
    <2>3. /\ users[a] # NoUser => q \in users[a].unseen \/ left[a]
          /\ \A t \in Workers : HasBegun(tx[t]) => q \in tx[t].unseen \/ a \in tx[t].left
        BY <2>2 DEF Safe, Snapshots
    <2>4. users'[a] # NoUser => q \in users'[a].unseen \/ left[a]
        BY <1>3, <1>6, <2>1, <2>3
    <2>5. ASSUME NEW t \in Workers, HasBegun(tx'[t])
          PROVE  q \in tx'[t].unseen \/ a \in tx'[t].left
        BY <1>4, <1>5, <2>1, <2>3, <2>5 DEF HasBegun
    <2>. QED
        BY <2>4, <2>5
<1>. QED
    BY <1>7, <1>8, <1>9, <1>10, <1>11, <1>12 DEF Safe

\* A commit makes the rows of its transaction those of everyone, and they fit:
\* nobody else has written them.
LEMMA CommitStep ==
    ASSUME Safe, NEW t \in Workers, Commit(t)
    PROVE  Safe'
<1>1. /\ tx[t] \in Transactions /\ tx[t].at = "commit" /\ Sound(t, tx[t]) /\ HasBegun(tx[t])
      /\ tx \in [Workers -> Transactions] /\ users \in [Addresses -> Rows \cup {NoUser}]
    BY DEF Commit, Safe, TypeOK, HasBegun
<1>2. /\ \A a \in Addresses :
           /\ tx[t].wrote[a] \in Rows \cup {NoUser}
           /\ users'[a] = IF tx[t].wrote[a] # NoUser THEN tx[t].wrote[a] ELSE users[a]
           /\ flips'[a] = flips[a] + (IF a \in tx[t].retired THEN 1 ELSE 0)
           /\ left'[a] = IF users[a] = NoUser /\ tx[t].wrote[a] # NoUser
                         THEN a \in tx[t].left ELSE left[a]
      /\ UNCHANGED <<directory, changes>>
    BY <1>1 DEF Commit, Visible, Transactions
<1>3. tx' = [tx EXCEPT ![t] = Idle]
    BY DEF Commit, End
<1>4. tx'[t] = Idle /\ \A u \in Workers : u # t => tx'[u] = tx[u]
    BY <1>1, <1>3
<1>5. TypeOK'
    <2>1. users' \in [Addresses -> Rows \cup {NoUser}]
        BY <1>1, <1>2 DEF Commit, Visible, Transactions
    <2>2. roles' \in [Addresses -> SUBSET Roles]
        BY DEF Commit, RolesOf
    <2>3. countries' \subseteq Countries
        BY <1>1 DEF Commit, Transactions, Safe, TypeOK
    <2>4. flips' \in [Addresses -> Int]
        BY DEF Commit, Safe, TypeOK
    <2>5. left' \in [Addresses -> BOOLEAN]
        <3>1. ASSUME NEW a \in Addresses
              PROVE  left'[a] \in BOOLEAN
            <4>1. CASE users[a] = NoUser /\ tx[t].wrote[a] # NoUser
                <5>1. left'[a] = (a \in tx[t].left)
                    BY <1>2, <4>1
                <5>2. (a \in tx[t].left) \in BOOLEAN
                    OBVIOUS
                <5>. QED
                    BY <5>1, <5>2, Zenon
            <4>2. CASE ~(users[a] = NoUser /\ tx[t].wrote[a] # NoUser)
                <5>1. left'[a] = left[a]
                    BY <1>2, <4>2
                <5>. QED
                    BY <5>1 DEF Safe, TypeOK
            <4>. QED
                BY <4>1, <4>2
        <3>2. left' = [a \in Addresses |-> left'[a]]
            BY DEF Commit
        <3>. QED
            BY <3>1, <3>2
    <2>6. tx' \in [Workers -> Transactions]
        BY <1>1, <1>3, IdleType
    <2>. QED
        BY <1>2, <2>1, <2>2, <2>3, <2>4, <2>5, <2>6 DEF Safe, TypeOK
\* An account once there stays, and its absences stay noted.
<1>6. ASSUME NEW a \in Addresses, users[a] # NoUser
      PROVE  users'[a] # NoUser /\ left'[a] = left[a] /\ users'[a].unseen = users[a].unseen
    BY <1>1, <1>2, <1>6 DEF Sound, Fits
<1>7. ASSUME NEW u \in Workers, u # t, NEW a \in Addresses, tx[u].wrote[a] # NoUser
      PROVE  users'[a] = users[a]
    <2>1. tx[t].wrote[a] = NoUser
        BY <1>7 DEF Safe, OneWriter
    <2>. QED
        BY <1>2, <2>1
<1>8. ASSUME NEW u \in Workers
      PROVE  Sound(u, tx[u])'
    <2>1. CASE u = t
        <3>1. tx'[u].at = "idle" /\ tx'[u].retired = {}
              /\ \A a \in Addresses : tx'[u].wrote[a] = NoUser
            BY <1>4, <2>1 DEF Idle
        <3>2. (Sober(tx[u]) /\ Fits(u, tx[u]) /\ Retiring(tx[u]))'
            BY <3>1 DEF Sober, Fits, Retiring
        <3>3. (AtAccount(u, tx[u]) /\ WithinBatch(u, tx[u]) /\ Misses(u, tx[u]) /\ NotesAbsences(tx[u]))'
            BY <3>1 DEF AtAccount, WithinBatch, Misses, NotesAbsences, HasBegun, Visiting, Reading
        <3>. QED
            BY <3>2, <3>3 DEF Sound
    <2>2. CASE u # t
        <3>1. tx'[u] = tx[u] /\ tx[u] \in Transactions /\ Sound(u, tx[u])
            BY <1>1, <1>4, <2>2 DEF Safe
        <3>2. Sober(tx[u])'
            BY <3>1 DEF Sound, Sober, HasBegun
        <3>3. Fits(u, tx[u])'
            <4> SUFFICES ASSUME NEW a \in Addresses, tx'[u].wrote[a] # NoUser
                         PROVE  Fits(u, tx[u])!(a)!2'
                BY DEF Fits
            <4>1. users'[a] = users[a] /\ Fits(u, tx[u])!(a)!2
                BY <1>7, <2>2, <3>1 DEF Sound, Fits
            <4>2. Overtaken(u, tx[u], a)' <=> Overtaken(u, tx[u], a)
                BY <3>1 DEF Overtaken, Owns
            <4>. QED
                BY <3>1, <4>1, <4>2
        <3>4. AtAccount(u, tx[u])'
            BY <1>6, <3>1 DEF Sound, AtAccount
        <3>5. Retiring(tx[u])'
            <4>1. tx[u].todo \subseteq Addresses /\ tx[u].retired \subseteq Addresses
                BY <3>1 DEF Transactions
            <4>2. ASSUME NEW a \in tx[u].retired
                  PROVE  users'[a] = users[a] /\ left'[a] = left[a]
                BY <1>6, <1>7, <2>2, <3>1, <4>1 DEF Sound, Retiring
            <4>3. ASSUME tx[u].at = "retire", NEW a \in tx[u].todo
                  PROVE  users'[a] # NoUser /\ left'[a] = left[a]
                BY <1>6, <3>1, <4>1, <4>3 DEF Sound, Retiring
            <4>. QED
                BY <3>1, <4>2, <4>3 DEF Sound, Retiring
        <3>6. WithinBatch(u, tx[u])' /\ Misses(u, tx[u])' /\ NotesAbsences(tx[u])'
            BY <1>2, <3>1 DEF Sound, WithinBatch, Misses, NotesAbsences, HasBegun, Batch, ListedIn
        <3>. QED
            BY <3>2, <3>3, <3>4, <3>5, <3>6 DEF Sound
    <2>. QED
        BY <2>1, <2>2
<1>9. OneWriter'
    <2>1. \A u \in Workers : \A a \in Addresses : tx'[u].wrote[a] # NoUser => tx'[u] = tx[u]
        BY <1>4 DEF Idle
    <2>. QED
        BY <2>1 DEF Safe, OneWriter
<1>10. Audited'
    <2> SUFFICES ASSUME NEW a \in Addresses
                 PROVE  flips'[a] = IF users'[a] = NoUser \/ users'[a].active = TRUE THEN 0 ELSE 1
        BY DEF Audited
    <2>1. flips[a] = IF users[a] = NoUser \/ users[a].active = TRUE THEN 0 ELSE 1
        BY DEF Safe, Audited
    <2>2. CASE tx[t].wrote[a] = NoUser
        <3>1. a \notin tx[t].retired
            BY <1>1, <2>2 DEF Sound, Retiring
        <3>. QED
            BY <1>2, <2>1, <2>2, <3>1
    <2>3. CASE tx[t].wrote[a] # NoUser /\ users[a] = NoUser
        <3>1. tx[t].wrote[a].active = TRUE /\ a \notin tx[t].retired
            BY <1>1, <2>3 DEF Sound, Fits
        <3>. QED
            BY <1>2, <2>1, <2>3, <3>1
    <2>4. CASE tx[t].wrote[a] # NoUser /\ users[a] # NoUser
        <3>1. tx[t].wrote[a].active = IF a \in tx[t].retired THEN FALSE ELSE users[a].active
            BY <1>1, <2>4 DEF Sound, Fits
        <3>2. CASE a \in tx[t].retired
            <4>1. users[a].active = TRUE
                BY <1>1, <3>2 DEF Sound, Retiring
            <4>2. flips[a] = 0 /\ flips'[a] = 1
                BY <1>2, <2>1, <3>2, <4>1
            <4>3. users'[a] # NoUser /\ users'[a].active = FALSE
                BY <1>2, <2>4, <3>1, <3>2
            <4>. QED
                BY <4>2, <4>3
        <3>3. CASE a \notin tx[t].retired
            BY <1>2, <2>1, <2>4, <3>1, <3>3
        <3>. QED
            BY <3>2, <3>3
    <2>. QED
        BY <2>2, <2>3, <2>4
<1>11. Absences'
    <2> SUFFICES ASSUME NEW a \in Addresses, users'[a] # NoUser, a \notin ListedIn(directory)
                 PROVE  left'[a]
        BY <1>2 DEF Absences, ListedIn
    <2>1. CASE users[a] # NoUser
        BY <1>6, <2>1 DEF Safe, Absences
    <2>2. CASE users[a] = NoUser
        <3>1. tx[t].wrote[a] # NoUser /\ a \in tx[t].left
            BY <1>1, <1>2, <2>2 DEF Sound, NotesAbsences
        <3>. QED
            BY <1>2, <2>2, <3>1
    <2>. QED
        BY <2>1, <2>2
<1>12. Snapshots'
    <2> SUFFICES ASSUME NEW p \in Passes, tx'[p].at \in Reading \cup {"lock"},
                        NEW a \in Addresses, a \notin ListedIn(tx[p].read)'
                 PROVE  /\ users'[a] # NoUser => p \in users'[a].unseen \/ left'[a]
                        /\ \A u \in Workers :
                             HasBegun(tx'[u]) => p \in tx'[u].unseen \/ a \in tx'[u].left
        BY DEF Snapshots, HasBegun, ListedIn
    <2>1. p # t /\ tx'[p] = tx[p]
        BY <1>4, Worker DEF Idle, Reading, Visiting
    <2>2. tx[p].at \in Reading \cup {"lock"} /\ a \notin ListedIn(tx[p].read)
        BY <2>1 DEF ListedIn
    <2>3. /\ users[a] # NoUser => p \in users[a].unseen \/ left[a]
          /\ \A u \in Workers : HasBegun(tx[u]) => p \in tx[u].unseen \/ a \in tx[u].left
        BY <2>2 DEF Safe, Snapshots
    <2>4. ASSUME users'[a] # NoUser
          PROVE  p \in users'[a].unseen \/ left'[a]
        <3>1. CASE users[a] # NoUser
            BY <1>6, <2>3, <3>1
        <3>2. CASE users[a] = NoUser
            <4>1. tx[t].wrote[a] # NoUser /\ users'[a] = tx[t].wrote[a]
                  /\ left'[a] = (a \in tx[t].left)
                BY <1>2, <2>4, <3>2
            <4>2. tx[t].wrote[a].unseen = tx[t].unseen
                BY <1>1, <3>2, <4>1 DEF Sound, Fits
            <4>. QED
                BY <1>1, <2>3, <4>1, <4>2
        <3>. QED
            BY <3>1, <3>2
    <2>5. ASSUME NEW u \in Workers, HasBegun(tx'[u])
          PROVE  p \in tx'[u].unseen \/ a \in tx'[u].left
        BY <1>4, <2>3, <2>5 DEF HasBegun, Idle
    <2>. QED
        BY <2>4, <2>5
<1>. QED
    BY <1>5, <1>8, <1>9, <1>10, <1>11, <1>12 DEF Safe

LEMMA ChangeDirectoryStep ==
    ASSUME Safe, NEW a \in Addresses, ChangeDirectory(a)
    PROVE  Safe'
<1>1. PICK e \in Entries :
         /\ directory' = [directory EXCEPT ![a] = e]
         /\ left' = [left EXCEPT ![a] = @ \/ e.groups = {}]
         /\ tx' = [t \in Workers |->
                     IF e.groups = {} /\ Working(t)
                     THEN [tx[t] EXCEPT !.left = @ \cup {a}] ELSE tx[t]]
         /\ UNCHANGED <<users, roles, countries, flips>>
    BY DEF ChangeDirectory
<1>2. /\ tx \in [Workers -> Transactions]
      /\ \A t \in Workers : Sound(t, tx[t]) /\ (Working(t) <=> HasBegun(tx[t]))
    BY DEF Safe, TypeOK, Working, HasBegun
<1>3. ASSUME NEW t \in Workers
      PROVE  /\ tx'[t] \in Transactions
             /\ tx'[t].at = tx[t].at /\ tx'[t].read = tx[t].read /\ tx'[t].todo = tx[t].todo
             /\ tx'[t].address = tx[t].address /\ tx'[t].existing = tx[t].existing
             /\ tx'[t].subject = tx[t].subject /\ tx'[t].desired = tx[t].desired
             /\ tx'[t].unseen = tx[t].unseen /\ tx'[t].wrote = tx[t].wrote
             /\ tx'[t].retired = tx[t].retired /\ tx'[t].missed = tx[t].missed
             /\ tx[t].left \subseteq tx'[t].left
             /\ e.groups = {} /\ HasBegun(tx[t]) => a \in tx'[t].left
    <2>1. tx[t] \in Transactions
        BY <1>2
    <2>2. CASE e.groups = {} /\ Working(t)
        <3>1. tx'[t] = [tx[t] EXCEPT !.left = @ \cup {a}]
            BY <1>1, <2>2
        <3>. QED
            BY <2>1, <3>1 DEF Transactions
    <2>3. CASE ~(e.groups = {} /\ Working(t))
        BY <1>1, <1>2, <2>1, <2>3
    <2>. QED
        BY <2>2, <2>3
<1>4. /\ \A b \in Addresses : left[b] => left'[b]
      /\ e.groups = {} => left'[a]
      /\ directory'[a] = e
      /\ \A b \in Addresses \ {a} : directory'[b] = directory[b]
    BY <1>1 DEF Safe, TypeOK
<1>5. ListedIn(directory') \subseteq ListedIn(directory) \cup {a}
      /\ Addresses \ ListedIn(directory')
           \subseteq (Addresses \ ListedIn(directory)) \cup (IF e.groups = {} THEN {a} ELSE {})
    BY <1>4 DEF ListedIn
<1>6. TypeOK'
    <2>1. tx' \in [Workers -> Transactions]
        BY <1>1, <1>3
    <2>2. directory' \in [Addresses -> Entries] /\ left' \in [Addresses -> BOOLEAN]
        BY <1>1 DEF Safe, TypeOK
    <2>3. changes' \in 0..MaxChanges
        BY NameAssumption DEF ChangeDirectory, Disturbance, Safe, TypeOK
    <2>. QED
        BY <1>1, <2>1, <2>2, <2>3 DEF Safe, TypeOK
<1>7. ASSUME NEW t \in Workers
      PROVE  Sound(t, tx[t])'
    <2>1. Sound(t, tx[t]) /\ tx[t] \in Transactions
        BY <1>2
    <2>2. Sober(tx[t])' /\ WithinBatch(t, tx[t])' /\ Misses(t, tx[t])'
        BY <1>3, <2>1 DEF Sound, Sober, HasBegun, WithinBatch, Misses, Batch, ListedIn
    <2>3. Fits(t, tx[t])'
        <3> SUFFICES ASSUME NEW b \in Addresses, tx'[t].wrote[b] # NoUser
                     PROVE  Fits(t, tx[t])!(b)!2'
            BY DEF Fits
        <3>1. Fits(t, tx[t])!(b)!2
            BY <1>3, <2>1 DEF Sound, Fits
        <3>2. Overtaken(t, tx[t], b)' <=> Overtaken(t, tx[t], b)
            BY <1>3 DEF Overtaken, Owns
        <3>. QED
            BY <1>1, <1>3, <3>1, <3>2
    <2>4. AtAccount(t, tx[t])'
        BY <1>1, <1>3, <2>1 DEF Sound, AtAccount
    <2>5. Retiring(tx[t])'
        <3>1. tx[t].todo \subseteq Addresses /\ tx[t].retired \subseteq Addresses
            BY <2>1 DEF Transactions
        <3>. QED
            BY <1>1, <1>3, <1>4, <2>1, <3>1 DEF Sound, Retiring
    <2>6. NotesAbsences(tx[t])'
        <3> SUFFICES ASSUME HasBegun(tx[t]), NEW b \in Addresses, b \notin ListedIn(directory')
                     PROVE  b \in tx'[t].left
            BY <1>3 DEF NotesAbsences, HasBegun, ListedIn
        <3>. QED
            BY <1>3, <1>5, <2>1 DEF Sound, NotesAbsences
    <2>. QED
        BY <2>2, <2>3, <2>4, <2>5, <2>6 DEF Sound
<1>8. OneWriter' /\ Audited'
    BY <1>1, <1>3 DEF Safe, OneWriter, Audited
<1>9. Absences'
    <2> SUFFICES ASSUME NEW b \in Addresses, users[b] # NoUser, b \notin ListedIn(directory')
                 PROVE  left'[b]
        BY <1>1 DEF Absences, ListedIn
    <2>. QED
        BY <1>4, <1>5 DEF Safe, Absences
<1>10. Snapshots'
    <2> SUFFICES ASSUME NEW p \in Passes, tx'[p].at \in Reading \cup {"lock"},
                        NEW b \in Addresses, b \notin ListedIn(tx[p].read)'
                 PROVE  /\ users[b] # NoUser => p \in users[b].unseen \/ left'[b]
                        /\ \A t \in Workers :
                             HasBegun(tx'[t]) => p \in tx'[t].unseen \/ b \in tx'[t].left
        BY <1>1 DEF Snapshots, HasBegun, ListedIn
    <2>1. p \in Workers
        BY Worker
    <2>2. tx[p].at \in Reading \cup {"lock"} /\ b \notin ListedIn(tx[p].read)
        BY <1>3, <2>1 DEF ListedIn
    <2>3. /\ users[b] # NoUser => p \in users[b].unseen \/ left[b]
          /\ \A t \in Workers : HasBegun(tx[t]) => p \in tx[t].unseen \/ b \in tx[t].left
        BY <2>2 DEF Safe, Snapshots
    <2>. QED
        BY <1>3, <1>4, <2>3 DEF HasBegun
<1>. QED
    BY <1>6, <1>7, <1>8, <1>9, <1>10 DEF Safe

LEMMA SetEmployeeActiveStep ==
    ASSUME Safe, NEW by \in Addresses, NEW a \in Addresses, NEW active \in BOOLEAN,
           SetEmployeeActive(by, a, active)
    PROVE  Safe'
<1>1. /\ users[a] \in Rows /\ users[a] # NoUser /\ users[a].active # active
      /\ \A t \in Workers : tx[t].wrote[a] = NoUser
    <2>1. NoUser \notin Workers
        BY NameAssumption DEF Workers
    <2>. QED
        BY <2>1 DEF SetEmployeeActive, HasRow, Safe, TypeOK
<1>2. /\ users' = [users EXCEPT ![a].active = active]
      /\ flips' = [flips EXCEPT ![a] = @ + (IF active THEN -1 ELSE 1)]
      /\ UNCHANGED <<directory, roles, countries, tx, left>>
    BY DEF SetEmployeeActive
<1>3. /\ users'[a] \in Rows /\ users'[a] # NoUser
      /\ users'[a].active = active /\ users'[a].unseen = users[a].unseen
      /\ \A b \in Addresses : b # a => users'[b] = users[b]
    <2>1. users'[a] = [users[a] EXCEPT !.active = active]
        BY <1>2 DEF Safe, TypeOK
    <2>2. users'[a] \in Rows /\ users'[a].active = active /\ users'[a].unseen = users[a].unseen
        BY <1>1, <2>1 DEF Rows
    <2>. QED
        BY <1>2, <2>2, RowAssumption DEF Safe, TypeOK
<1>4. TypeOK'
    <2>1. users' \in [Addresses -> Rows \cup {NoUser}]
        BY <1>2, <1>3 DEF Safe, TypeOK
    <2>2. flips' \in [Addresses -> Int]
        BY <1>2 DEF Safe, TypeOK
    <2>3. changes' \in 0..MaxChanges
        BY NameAssumption DEF SetEmployeeActive, Disturbance, Safe, TypeOK
    <2>. QED
        BY <1>2, <2>1, <2>2, <2>3 DEF Safe, TypeOK
<1>5. ASSUME NEW t \in Workers
      PROVE  Sound(t, tx[t])'
    <2>1. Sound(t, tx[t]) /\ tx[t] \in Transactions
        BY DEF Safe, TypeOK
    <2>2. Sober(tx[t])' /\ WithinBatch(t, tx[t])'
        BY <1>2, <2>1 DEF Sound, Sober, HasBegun, WithinBatch, Batch, ListedIn
    <2>3. Fits(t, tx[t])'
        <3> SUFFICES ASSUME NEW b \in Addresses, tx'[t].wrote[b] # NoUser
                     PROVE  Fits(t, tx[t])!(b)!2'
            BY DEF Fits
        <3>1. users'[b] = users[b] /\ tx'[t] = tx[t] /\ Fits(t, tx[t])!(b)!2
            BY <1>1, <1>2, <1>3, <2>1 DEF Sound, Fits
        <3>2. Overtaken(t, tx[t], b)' <=> Overtaken(t, tx[t], b)
            BY <1>2 DEF Overtaken, Owns
        <3>. QED
            BY <3>1, <3>2
    <2>4. AtAccount(t, tx[t])'
        BY <1>2, <1>3, <2>1 DEF Sound, AtAccount
    <2>5. Retiring(tx[t])'
        <3>1. tx[t].todo \subseteq Addresses /\ tx[t].retired \subseteq Addresses
            BY <2>1 DEF Transactions
        <3>. QED
            BY <1>1, <1>2, <1>3, <2>1, <3>1 DEF Sound, Retiring
    <2>6. Misses(t, tx[t])' /\ NotesAbsences(tx[t])'
        BY <1>2, <2>1 DEF Sound, HasBegun, Misses, NotesAbsences, ListedIn
    <2>. QED
        BY <2>2, <2>3, <2>4, <2>5, <2>6 DEF Sound
<1>6. OneWriter' /\ Absences'
    BY <1>1, <1>2, <1>3 DEF Safe, OneWriter, Absences, ListedIn
<1>7. Audited'
    <2> SUFFICES ASSUME NEW b \in Addresses
                 PROVE  flips'[b] = IF users'[b] = NoUser \/ users'[b].active = TRUE THEN 0 ELSE 1
        BY DEF Audited
    <2>1. flips[b] = IF users[b] = NoUser \/ users[b].active = TRUE THEN 0 ELSE 1
        BY DEF Safe, Audited
    <2>2. CASE b = a
        <3>1. flips'[a] = flips[a] + (IF active THEN -1 ELSE 1)
            BY <1>2 DEF Safe, TypeOK
        <3>2. users[a].active \in BOOLEAN
            BY <1>1 DEF Rows
        <3>3. CASE active = TRUE
            <4>1. users[a].active = FALSE
                BY <1>1, <3>2, <3>3
            <4>2. flips[a] = 1 /\ flips'[a] = 0
                BY <1>1, <2>1, <2>2, <3>1, <3>3, <4>1
            <4>. QED
                BY <1>3, <2>2, <3>3, <4>2
        <3>4. CASE active = FALSE
            <4>1. users[a].active = TRUE
                BY <1>1, <3>2, <3>4
            <4>2. flips[a] = 0 /\ flips'[a] = 1
                BY <2>1, <2>2, <3>1, <3>4, <4>1
            <4>3. users'[b] # NoUser /\ users'[b].active = FALSE
                BY <1>3, <2>2, <3>4
            <4>. QED
                BY <2>2, <4>2, <4>3
        <3>. QED
            BY <3>3, <3>4
    <2>3. CASE b # a
        BY <1>2, <1>3, <2>1, <2>3 DEF Safe, TypeOK
    <2>. QED
        BY <2>2, <2>3
<1>8. Snapshots'
    BY <1>1, <1>2, <1>3 DEF Safe, Snapshots, HasBegun, ListedIn
<1>. QED
    BY <1>4, <1>5, <1>6, <1>7, <1>8 DEF Safe

--------------------------------------------------------------------------------
(* The theorems *)

LEMMA InitSafe == Init => Safe
<1> SUFFICES ASSUME Init
             PROVE  Safe
    OBVIOUS
<1>1. /\ \A a \in Addresses : directory[a] \in {Unlisted, Staff, Listing(Roles)}
      /\ \A a \in Addresses : users[a] = IF directory[a] = Unlisted THEN NoUser
             ELSE [active |-> TRUE, subject |-> NoSubject, country |-> NoCountry, unseen |-> {}]
      /\ \A t \in Workers : tx[t] = Idle
      /\ \A a \in Addresses : flips[a] = 0
    BY DEF Init
<1>2. {Unlisted, Staff, Listing(Roles)} \subseteq Entries
    BY NameAssumption DEF Entries
<1>3. Unlisted.groups = {} /\ Staff.groups # {} /\ Listing(Roles).groups # {}
      /\ Staff.groups \subseteq Roles
    BY DEF Unlisted, Staff, Listing, Roles
<1>4. TypeOK
    <2>1. directory \in [Addresses -> Entries]
        BY <1>2 DEF Init
    <2>2. [active |-> TRUE, subject |-> NoSubject, country |-> NoCountry, unseen |-> {}] \in Rows
        BY DEF Rows
    <2>3. users \in [Addresses -> Rows \cup {NoUser}]
        BY <2>2 DEF Init
    <2>4. roles \in [Addresses -> SUBSET Roles]
        <3>1. \A e \in Entries : e.groups \subseteq Roles
            BY NameAssumption DEF Entries, Unlisted, Listing
        <3>. QED
            BY <2>1, <3>1 DEF Init
    <2>5. tx \in [Workers -> Transactions]
        BY IdleType DEF Init
    <2>6. countries \subseteq Countries /\ changes \in 0..MaxChanges
        BY NameAssumption DEF Init
    <2>7. flips \in [Addresses -> Int] /\ left \in [Addresses -> BOOLEAN]
        BY DEF Init
    <2>. QED
        BY <2>1, <2>3, <2>4, <2>5, <2>6, <2>7 DEF TypeOK
<1>5. \A t \in Workers : Sound(t, tx[t])
    BY <1>1, IdleType
<1>6. OneWriter
    BY <1>1 DEF OneWriter, Idle
<1>7. Audited
    <2> SUFFICES ASSUME NEW a \in Addresses, users[a] # NoUser
                 PROVE  users[a].active = TRUE
        BY <1>1 DEF Audited
    <2>. QED
        BY <1>1
<1>8. Absences
    BY <1>1, <1>3 DEF Absences, ListedIn
<1>9. Snapshots
    BY <1>1, Worker DEF Snapshots, Idle, Reading, Visiting
<1>. QED
    BY <1>4, <1>5, <1>6, <1>7, <1>8, <1>9 DEF Safe

LEMMA StatementStep ==
    ASSUME Safe, NEW t \in Workers, Statement(t)
    PROVE  Safe'
    BY EnsureCountryStep, InsertCountryStep, UpsertUserStep, ReadRolesStep, WriteRolesStep,
       CommitStep, RollbackStep
    DEF Statement, BreakDeadlock

LEMMA NextSafe == Safe /\ [Next]_vars => Safe'
<1> SUFFICES ASSUME Safe, [Next]_vars
             PROVE  Safe'
    OBVIOUS
<1>1. ASSUME NEW p \in Passes, PassStep(p)
      PROVE  Safe'
    BY <1>1, Worker, CaptureTimeStep, ReadDirectoryStep, BeginPassStep, NextEntryStep, ScanStep,
       RetireStep, StatementStep
    DEF PassStep
<1>2. ASSUME NEW l \in Logins, Match(l) \/ Statement(l)
      PROVE  Safe'
    BY <1>2, Worker, MatchStep, StatementStep
<1>3. CASE Outside
    BY <1>3, ChangeDirectoryStep, SetEmployeeActiveStep, CrashStep DEF Outside
<1>4. CASE UNCHANGED vars
    <2>1. /\ UNCHANGED <<directory, users, roles, countries, tx, flips, left, changes>>
        BY <1>4 DEF vars
    <2>2. TypeOK' /\ OneWriter' /\ Audited' /\ Absences'
        BY <2>1 DEF Safe, TypeOK, OneWriter, Audited, Absences, ListedIn
    <2>3. ASSUME NEW t \in Workers
          PROVE  Sound(t, tx[t])'
        <3>1. Sound(t, tx[t])
            BY DEF Safe
        <3>2. (Sober(tx[t]) /\ Fits(t, tx[t]) /\ AtAccount(t, tx[t]))'
            BY <2>1, <3>1 DEF Sound, Sober, Fits, AtAccount, HasBegun, Overtaken, Owns
        <3>3. (WithinBatch(t, tx[t]) /\ Retiring(tx[t]) /\ Misses(t, tx[t]) /\ NotesAbsences(tx[t]))'
            BY <2>1, <3>1 DEF Sound, WithinBatch, Retiring, Misses, NotesAbsences, HasBegun, Batch,
                              ListedIn
        <3>. QED
            BY <3>2, <3>3 DEF Sound
    <2>4. Snapshots'
        BY <2>1 DEF Safe, Snapshots, HasBegun, ListedIn
    <2>. QED
        BY <2>2, <2>3, <2>4 DEF Safe
<1>. QED
    BY <1>1, <1>2, <1>3, <1>4 DEF Next

LEMMA SafeAlways == Spec => []Safe
    BY InitSafe, NextSafe, PTL DEF Spec

\* Every variable keeps its type.
THEOREM TypeCorrect == Spec => []TypeOK
<1>1. Safe => TypeOK
    BY DEF Safe
<1>. QED
    BY <1>1, SafeAlways, PTL

\* The audit trail's switches of an account add up to what its row says, for any
\* number of sign-ins, passes and administrators at a time.
THEOREM SwitchesAreAudited == Spec => []FlipsAreAudited
<1>1. Safe => FlipsAreAudited
    <2> SUFFICES ASSUME Safe, NEW a \in Addresses, users[a] # NoUser
                 PROVE  flips[a] = IF users[a].active THEN 0 ELSE 1
        BY DEF FlipsAreAudited
    <2>1. users[a].active \in BOOLEAN
        BY DEF Safe, TypeOK, Rows
    <2>2. flips[a] = IF users[a].active = TRUE THEN 0 ELSE 1
        BY DEF Safe, Audited
    <2>. QED
        BY <2>1, <2>2
<1>. QED
    BY <1>1, SafeAlways, PTL

\* No pass retires an account that the directory has listed all the while, or that its
\* own reading of the directory shows.
THEOREM OnlyLeaversRetire == Spec => []NobodyPresentIsRetired
<1>1. Safe => NobodyPresentIsRetired
    BY Worker DEF Safe, Sound, Retiring, NobodyPresentIsRetired
<1>. QED
    BY <1>1, SafeAlways, PTL

\* What a commit makes of an account that has been signed in to
LEMMA CommitKeepsLink ==
    ASSUME Safe, NEW t \in Workers, Commit(t), NEW a \in Addresses,
           users[a] # NoUser, users[a].subject # NoSubject
    PROVE  \/ users'[a].subject = users[a].subject
           \/ t \in Logins /\ tx[t].at = "commit" /\ tx[t].address = a
              /\ Owns(tx[t].existing, NoSubject)
<1>1. users'[a] = IF tx[t].wrote[a] # NoUser THEN tx[t].wrote[a] ELSE users[a]
    BY DEF Commit, Visible
<1>2. Fits(t, tx[t]) /\ tx[t].at = "commit"
    BY DEF Commit, Safe, Sound
<1>. QED
    BY <1>1, <1>2 DEF Fits, Overtaken

\* An account stays its subject's, unless a sign-in that read it as nobody's is
\* overtaken by another.
THEOREM LinksStay == Spec => LinksAreForLife
<1>1. Safe /\ [Next]_vars
        => [\A a \in Addresses :
              users[a] # NoUser /\ users[a].subject # NoSubject
                => \/ users'[a].subject = users[a].subject
                   \/ \E l \in Logins :
                        /\ tx[l].at = "commit"
                        /\ tx[l].address = a
                        /\ Owns(tx[l].existing, NoSubject)]_vars
    <2> SUFFICES ASSUME Safe, Next, NEW a \in Addresses,
                        users[a] # NoUser, users[a].subject # NoSubject
                 PROVE  \/ users'[a].subject = users[a].subject
                        \/ \E l \in Logins :
                             /\ tx[l].at = "commit"
                             /\ tx[l].address = a
                             /\ Owns(tx[l].existing, NoSubject)
        BY DEF vars
    <2>1. CASE \E t \in Workers : Commit(t)
        BY <2>1, CommitKeepsLink
    <2>2. CASE \E p \in Passes : CaptureTime(p)
        <3>1. PICK p \in Passes : users'[a] = Predating(users[a], p)
            BY <2>2 DEF CaptureTime
        <3>2. users[a] \in Rows
            BY DEF Safe, TypeOK
        <3>. QED
            BY <3>1, <3>2 DEF Predating, Rows
    <2>3. CASE \E by, b \in Addresses, active \in BOOLEAN : SetEmployeeActive(by, b, active)
        <3>1. PICK b \in Addresses, active \in BOOLEAN : users' = [users EXCEPT ![b].active = active]
            BY <2>3 DEF SetEmployeeActive
        <3>2. users[a] \in Rows
            BY DEF Safe, TypeOK
        <3>. QED
            BY <3>1, <3>2 DEF Safe, TypeOK, Rows
    <2>4. CASE UNCHANGED users
        BY <2>4
    <2>5. \/ \E t \in Workers : Commit(t)
          \/ \E p \in Passes : CaptureTime(p)
          \/ \E by, b \in Addresses, active \in BOOLEAN : SetEmployeeActive(by, b, active)
          \/ UNCHANGED users
        <3>1. ASSUME NEW t \in Workers, Statement(t)
              PROVE  Commit(t) \/ UNCHANGED users
            BY <3>1 DEF Statement, EnsureCountry, InsertCountry, UpsertUser, ReadRoles, WriteRoles,
                        BreakDeadlock, Rollback, Uncommitted
        <3>2. ASSUME NEW p \in Passes, PassStep(p)
              PROVE  CaptureTime(p) \/ Commit(p) \/ UNCHANGED users
            BY <3>1, <3>2, Worker DEF PassStep, ReadDirectory, BeginPass, NextEntry, Scan, Retire
        <3>3. ASSUME NEW l \in Logins, Match(l) \/ Statement(l)
              PROVE  Commit(l) \/ UNCHANGED users
            BY <3>1, <3>3, Worker DEF Match
        <3>4. CASE Outside
            BY <3>4 DEF Outside, ChangeDirectory, Crash
        <3>. QED
            BY <3>2, <3>3, <3>4, Worker DEF Next
    <2>. QED
        BY <2>1, <2>2, <2>3, <2>4, <2>5
<1>. QED
    BY <1>1, SafeAlways, PTL DEF Spec, LinksAreForLife
================================================================================
