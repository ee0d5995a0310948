----------------------------- MODULE DirectorySync -----------------------------
(***************************************************************************)
(* The accounts and who writes them: passes of the LDAP directory sync     *)
(* (LdapSyncService.runSync and LeaveDomainService.syncUsersFromDirectory),*)
(* sign-ins (findOrCreateUserFromIdentity) and the administrator's switch  *)
(* (setEmployeeActive), interleaved statement by statement.                *)
(*                                                                         *)
(* None of them locks the row it reads: each writes only the columns it    *)
(* owns (upsertUserTx), and the row locks and unique indexes of PostgreSQL *)
(* at READ COMMITTED do the rest.  A transaction's own writes are in its   *)
(* record until it commits; a row it has written is locked until then.     *)
(*                                                                         *)
(* An account is its normalized address: the address of a row never        *)
(* changes, a sign-in that would change it is refused.  Names, spellings   *)
(* of an address and the audit trail are left out, except for the events   *)
(* that say an account was switched off or on.                             *)
(***************************************************************************)
EXTENDS Integers, FiniteSets

CONSTANTS
    Addresses, NoUser,
    Subjects, NoSubject,   \* the subjects of the identity provider
    Tokens,                \* <<subject, address>>: the identities it signs
    Countries, NoCountry,
    Listings,              \* the entries that occur, of those listed in a group
    Passes,                \* the runs of the sync, scheduled or manual, on any replica
    Logins,                \* the sign-ins at one time
    Root,                  \* the account of the first administrator
    MaxChanges             \* bound on the events from outside: see Disturbances

Roles == {"employee", "administrator"}

\* An address is listed when one of the two groups has its entry.  A listed entry is
\* of no use when it fails to map, or when another one claims the same address.
Listing(groups) == [groups |-> groups, usable |-> TRUE, country |-> NoCountry]

Unlisted == Listing({})

Staff == Listing({"employee"})

ASSUME NameAssumption ==
    /\ NoSubject \notin Subjects
    /\ NoCountry \notin Countries
    /\ Listings \subseteq [groups : (SUBSET Roles) \ {{}}, usable : BOOLEAN,
                           country : Countries \cup {NoCountry}]
    /\ {Staff, Listing(Roles)} \subseteq Listings
    /\ Tokens \subseteq Subjects \X Addresses
    /\ Passes \cap Logins = {}
    /\ NoUser \notin Addresses \cup Passes \cup Logins
    /\ Root \in Addresses
    /\ MaxChanges \in Nat

VARIABLES
    directory,   \* the LDAP entries and groups, by address
    users,       \* the committed rows of users
    roles,       \* the committed rows of user_roles, by account
    countries,   \* the committed rows of countries
    tx,          \* tx[t]: the pass or sign-in in progress
    flips,       \* the audited deactivations of an account less its reactivations
    left,        \* has the directory been without this account since it was created?
    changes      \* the events from outside so far

vars == <<directory, users, roles, countries, tx, flips, left, changes>>

--------------------------------------------------------------------------------
(* Rows and transactions *)

Entries == Listings \cup {Unlisted}

\* createdAt matters only against the fetchedAt of a pass: unseen is the set of
\* the passes for which createdAt >= fetchedAt.
Rows ==
    [active  : BOOLEAN,
     subject : Subjects \cup {NoSubject},
     country : Countries \cup {NoCountry},
     unseen  : SUBSET Passes]

ASSUME RowAssumption == NoUser \notin Rows

Points == {"idle", "fetch", "lock", "next", "country", "insertCountry", "user",
           "roles", "diff", "retire", "commit"}

Workers == Passes \cup Logins

Transactions ==
    [at       : Points,
     read     : [Addresses -> Entries],   \* the directory as a pass read it
     todo     : SUBSET Addresses,         \* what is left of the batch, or of the departures
     address  : Addresses \cup {NoUser},   \* whose account it is at
     existing : Rows \cup {NoUser},        \* that account, as it read it
     desired  : [groups : SUBSET Roles, country : Countries \cup {NoCountry}],   \* what the directory or the token says of it
     subject  : Subjects \cup {NoSubject}, \* whose sign-in this is
     before   : SUBSET Roles,             \* the account's roles, as it read them
     unseen   : SUBSET Passes,            \* its own timestamp, as in Rows
     left     : SUBSET Addresses,         \* who has been unlisted since that timestamp
     missed   : SUBSET Addresses,         \* whom a pass did not find when it read the directory
     wrote    : [Addresses -> Rows \cup {NoUser}],   \* NoUser: not touched
     granted  : SUBSET (Addresses \X Roles),
     revoked  : SUBSET (Addresses \X Roles),
     inserted : SUBSET Countries,
     retired  : SUBSET Addresses]         \* the deactivations it has recorded

Wish(groups, country) == [groups |-> groups, country |-> country]

Nothing == Wish({}, NoCountry)

Idle ==
    [at |-> "idle", read |-> [a \in Addresses |-> Unlisted], todo |-> {},
     address |-> NoUser, existing |-> NoUser, desired |-> Nothing,
     subject |-> NoSubject, before |-> {}, unseen |-> {}, left |-> {}, missed |-> {},
     wrote |-> [a \in Addresses |-> NoUser], granted |-> {}, revoked |-> {},
     inserted |-> {}, retired |-> {}]

Working(t) == tx[t].at \notin {"idle", "fetch", "lock"}

\* A row as transaction t sees it.
Visible(t, a) == IF tx[t].wrote[a] # NoUser THEN tx[t].wrote[a] ELSE users[a]

RolesOf(t, a) ==
    {r \in Roles : \/ <<a, r>> \in tx[t].granted
                   \/ r \in roles[a] /\ <<a, r>> \notin tx[t].revoked}

(* What a statement of t waits for: another transaction that has written the  *)
(* row, or inserted the same unique value.                                    *)
HasRow(t, a) == {u \in Workers \ {t} : tx[u].wrote[a] # NoUser}

Owns(row, s) == row # NoUser /\ row.subject = s

HasSubject(t, s) ==
    {u \in Workers \ {t} : s # NoSubject /\ \E a \in Addresses :
        /\ ~Owns(users[a], s)
        /\ Owns(tx[u].wrote[a], s)}

HasRole(t, a, rs) ==
    {u \in Workers \ {t} : \E r \in rs : <<a, r>> \in tx[u].granted \cup tx[u].revoked}

HasCountry(t, c) == {u \in Workers \ {t} : c \in tx[u].inserted}

\* Is the subject of the sign-in already another account's?
SubjectTaken(t, a) ==
    /\ tx[t].subject # NoSubject
    /\ \E b \in Addresses \ {a} : Owns(users[b], tx[t].subject)

Captured == {p \in Passes : tx[p].at # "idle"}

--------------------------------------------------------------------------------
(* The end of a transaction *)

Move(t, at) == tx' = [tx EXCEPT ![t].at = at]

End(t) == tx' = [tx EXCEPT ![t] = Idle]

Rollback(t) == End(t) /\ UNCHANGED <<directory, users, roles, countries, flips, left, changes>>

Commit(t) ==
    /\ tx[t].at = "commit"
    /\ users' = [a \in Addresses |-> Visible(t, a)]
    /\ roles' = [a \in Addresses |-> RolesOf(t, a)]
    /\ countries' = countries \cup tx[t].inserted
    /\ flips' = [a \in Addresses |-> flips[a] + (IF a \in tx[t].retired THEN 1 ELSE 0)]
    /\ left' = [a \in Addresses |->
                   IF users[a] = NoUser /\ tx[t].wrote[a] # NoUser
                   THEN a \in tx[t].left
                   ELSE left[a]]
    /\ End(t)
    /\ UNCHANGED <<directory, changes>>

\* A pass goes on with the next account, a sign-in commits.
AccountDone(t) ==
    IF t \in Passes
    THEN [tx[t] EXCEPT !.at = "next", !.address = NoUser, !.existing = NoUser,
                       !.desired = Nothing, !.before = {}]
    ELSE [tx[t] EXCEPT !.at = "commit", !.desired = Nothing, !.before = {}]

--------------------------------------------------------------------------------
(* A pass of the sync *)

Predating(row, p) == IF row = NoUser THEN NoUser ELSE [row EXCEPT !.unseen = @ \ {p}]

\* runSync takes fetchedAt before it reads: every row and every transaction
\* stamped so far is older than that.
CaptureTime(p) ==
    /\ tx[p].at = "idle"
    /\ users' = [a \in Addresses |-> Predating(users[a], p)]
    /\ tx' = [t \in Workers |->
                IF t = p
                THEN [tx[p] EXCEPT !.at = "fetch"]
                ELSE [tx[t] EXCEPT
                        !.unseen = @ \ {p},
                        !.wrote = [a \in Addresses |-> Predating(@[a], p)]]]
    /\ UNCHANGED <<directory, roles, countries, flips, left, changes>>

ListedIn(read) == {a \in Addresses : read[a].groups # {}}

\* syncUsersFromDirectory drops an address that occurs twice, runSync an entry
\* that does not map.
Batch(read) == {a \in ListedIn(read) : read[a].usable}

\* refuseUnusableMembership, and the batches too empty to act on
Usable(read) == Batch(read) # {} /\ \E a \in Addresses : "employee" \in read[a].groups

\* deactivationWithheld
Trustworthy(read) == Batch(read) = ListedIn(read)

ReadDirectory(p) ==
    /\ tx[p].at = "fetch"
    /\ IF Usable(directory)
       THEN tx' = [tx EXCEPT ![p].at = "lock", ![p].read = directory,
                             ![p].missed = Addresses \ ListedIn(directory)]
       ELSE End(p)
    /\ UNCHANGED <<directory, users, roles, countries, flips, left, changes>>

\* pg_try_advisory_xact_lock, or the answer already-running
BeginPass(p) ==
    /\ tx[p].at = "lock"
    /\ IF \E q \in Passes \ {p} : Working(q)
       THEN End(p)
       ELSE tx' = [tx EXCEPT ![p].at = "next",
                             ![p].todo = Batch(tx[p].read),
                             ![p].unseen = Captured,
                             ![p].left = Addresses \ ListedIn(directory)]
    /\ UNCHANGED <<directory, users, roles, countries, flips, left, changes>>

SwitchedOff(a) == users[a] # NoUser /\ ~users[a].active

\* Mutant: an account that is switched off does not count as present.
NextEntryDropped(p) ==
    /\ tx[p].at = "next"
    /\ \E a \in tx[p].todo :
         \/ /\ SwitchedOff(a)
            /\ tx' = [tx EXCEPT ![p].todo = @ \ {a}, ![p].read[a] = Unlisted]
         \/ /\ ~SwitchedOff(a)
            /\ tx' = [tx EXCEPT
                         ![p].todo = @ \ {a}, ![p].at = "country", ![p].address = a,
                         ![p].existing = users[a],
                         ![p].desired = Wish(tx[p].read[a].groups, tx[p].read[a].country)]
    /\ UNCHANGED <<directory, users, roles, countries, flips, left, changes>>

\* The entry of a: an account that is switched off is a conflict and stays as it is.
NextEntry(p) ==
    /\ tx[p].at = "next"
    /\ \E a \in tx[p].todo :
         \/ /\ SwitchedOff(a)
            /\ tx' = [tx EXCEPT ![p].todo = @ \ {a}]
         \/ /\ ~SwitchedOff(a)
            /\ tx' = [tx EXCEPT
                         ![p].todo = @ \ {a}, ![p].at = "country", ![p].address = a,
                         ![p].existing = users[a],
                         ![p].desired = Wish(tx[p].read[a].groups, tx[p].read[a].country)]
    /\ UNCHANGED <<directory, users, roles, countries, flips, left, changes>>

\* Mutant: only accounts nobody has signed in to.
DepartedUnlinked(p) ==
    {a \in Addresses :
        /\ Owns(Visible(p, a), NoSubject)
        /\ Visible(p, a).active
        /\ a \notin Batch(tx[p].read)
        /\ p \notin Visible(p, a).unseen}

\* Mutant: createdAt is not compared with fetchedAt.
DepartedOrNew(p) ==
    {a \in Addresses :
        /\ Visible(p, a) # NoUser
        /\ Visible(p, a).active
        /\ a \notin Batch(tx[p].read)}

\* The active accounts the batch does not list, and the fetch could have seen.
Departed(p) ==
    {a \in Addresses :
        /\ Visible(p, a) # NoUser
        /\ Visible(p, a).active
        /\ a \notin Batch(tx[p].read)
        /\ p \notin Visible(p, a).unseen}

Scan(p) ==
    /\ tx[p].at = "next"
    /\ tx[p].todo = {}
    /\ tx' = [tx EXCEPT
                 ![p].at = "retire",
                 ![p].todo = IF Trustworthy(tx[p].read) THEN Departed(p) ELSE {},
                 ![p].read = Idle.read]
    /\ UNCHANGED <<directory, users, roles, countries, flips, left, changes>>

Retired(row) == [row EXCEPT !.active = FALSE]

\* Mutant: the number of affected rows is not looked at.
TakenAsActive(row) == TRUE

\* The UPDATE names the row and active = true; the audit follows what it did.
IsStillActive(row) == row.active

Retire(p) ==
    /\ tx[p].at = "retire"
    /\ \/ tx[p].todo = {} /\ Move(p, "commit")
       \/ \E a \in tx[p].todo :
            /\ HasRow(p, a) = {}
            /\ \/ /\ ~IsStillActive(users[a])
                  /\ tx' = [tx EXCEPT ![p].todo = @ \ {a}]
               \/ /\ IsStillActive(users[a])
                  /\ tx' = [tx EXCEPT
                               ![p].todo = @ \ {a},
                               ![p].wrote = [@ EXCEPT ![a] = Retired(users[a])],
                               ![p].retired = @ \cup {a}]
    /\ UNCHANGED <<directory, users, roles, countries, flips, left, changes>>

--------------------------------------------------------------------------------
(* A sign-in *)

\* Mutant: an account may be taken over by its address.
ConflictOfSubject(s, a) == \E b \in Addresses \ {a} : Owns(users[b], s)

\* The subject has another account, or the account another subject.
Conflict(s, a) ==
    \/ \E b \in Addresses \ {a} : Owns(users[b], s)
    \/ users[a] # NoUser /\ users[a].subject \notin {NoSubject, s}

FirstPoint(c) == IF c = NoCountry THEN "user" ELSE "country"

\* The token mirrors the groups of its address, and may or may not carry a country.
\* The rows of the subject and of the address must be one, and nobody else's.
Match(l) ==
    /\ tx[l].at = "idle"
    /\ \E s \in Subjects, a \in Addresses, c \in Countries \cup {NoCountry} :
         /\ <<s, a>> \in Tokens
         /\ directory[a].groups # {}
         /\ ~Conflict(s, a)
         /\ users[a] # NoUser => users[a].active
         /\ tx' = [tx EXCEPT
                     ![l].at = FirstPoint(c),
                     ![l].address = a,
                     ![l].existing = users[a],
                     ![l].subject = s,
                     ![l].desired = Wish(directory[a].groups, c),
                     ![l].unseen = Captured,
                     ![l].left = Addresses \ ListedIn(directory)]
    /\ UNCHANGED <<directory, users, roles, countries, flips, left, changes>>

--------------------------------------------------------------------------------
(* What both do to an account: upsertUserTx, assignUserRolesTx *)

\* Every statement below leaves the committed rows alone.
Uncommitted == UNCHANGED <<directory, users, roles, countries, flips, left, changes>>

\* What upsertUserTx wants the row to say.  The directory's country replaces the
\* stored one, a token without a country keeps it; only a sign-in has a subject.
DesiredCountry(t) ==
    IF t \in Logins /\ tx[t].desired.country = NoCountry /\ tx[t].existing # NoUser
    THEN tx[t].existing.country
    ELSE tx[t].desired.country

DesiredSubject(t) ==
    IF t \in Logins THEN tx[t].subject
    ELSE IF tx[t].existing = NoUser THEN NoSubject ELSE tx[t].existing.subject

\* The targeted UPDATE: only what differs from the row as it was read.
Patched(t, row) ==
    [row EXCEPT
       !.subject = IF DesiredSubject(t) = tx[t].existing.subject THEN @ ELSE DesiredSubject(t),
       !.country = IF DesiredCountry(t) = tx[t].existing.country THEN @ ELSE DesiredCountry(t)]

Unchanged(t) ==
    /\ tx[t].existing # NoUser
    /\ Patched(t, tx[t].existing) = tx[t].existing

\* Mutant: a pass that knows no country asks for one all the same.
NeedsSomeCountry(t) ==
    \/ t \in Logins
    \/ tx[t].existing = NoUser
    \/ tx[t].existing.country # DesiredCountry(t)

\* ensureCountry: a sign-in always, a pass when it writes the country.
NeedsCountry(t) ==
    /\ DesiredCountry(t) # NoCountry
    /\ \/ t \in Logins
       \/ tx[t].existing = NoUser
       \/ tx[t].existing.country # DesiredCountry(t)

EnsureCountry(t) ==
    /\ tx[t].at = "country"
    /\ IF NeedsCountry(t) /\ tx[t].desired.country \notin countries \cup tx[t].inserted
       THEN Move(t, "insertCountry")
       ELSE Move(t, "user")
    /\ Uncommitted

InsertCountry(t) ==
    /\ tx[t].at = "insertCountry"
    /\ HasCountry(t, tx[t].desired.country) = {}
    /\ IF tx[t].desired.country \in countries
       THEN Rollback(t)
       ELSE /\ tx' = [tx EXCEPT ![t].at = "user", ![t].inserted = @ \cup {tx[t].desired.country}]
            /\ Uncommitted

NewRow(t) ==
    [active |-> TRUE, subject |-> tx[t].subject, country |-> tx[t].desired.country,
     unseen |-> tx[t].unseen]

\* INSERT or UPDATE; a unique index may refuse either.
UpsertUser(t) ==
    LET a == tx[t].address
    IN /\ tx[t].at = "user"
       /\ \/ /\ Unchanged(t)
             /\ Move(t, "roles")
             /\ Uncommitted
          \/ /\ ~Unchanged(t)
             /\ HasRow(t, a) = {}
             /\ HasSubject(t, tx[t].subject) = {}
             /\ IF SubjectTaken(t, a) \/ (tx[t].existing = NoUser /\ users[a] # NoUser)
                THEN Rollback(t)
                ELSE /\ tx' = [tx EXCEPT
                                 ![t].at = "roles",
                                 ![t].wrote = [@ EXCEPT ![a] =
                                                 IF tx[t].existing = NoUser
                                                 THEN NewRow(t) ELSE Patched(t, users[a])]]
                     /\ Uncommitted

\* The prior set, read without a lock
ReadRoles(t) ==
    /\ tx[t].at = "roles"
    /\ IF RolesOf(t, tx[t].address) = tx[t].desired.groups
       THEN tx' = [tx EXCEPT ![t] = AccountDone(t)]
       ELSE tx' = [tx EXCEPT ![t].at = "diff", ![t].before = RolesOf(t, tx[t].address)]
    /\ Uncommitted

\* The DELETE and the INSERT ... ON CONFLICT DO NOTHING of the difference.  Both
\* touch this account's rows alone, and are one step.
WriteRoles(t) ==
    LET a == tx[t].address
        removed == tx[t].before \ tx[t].desired.groups
        added == tx[t].desired.groups \ tx[t].before
    IN /\ tx[t].at = "diff"
       /\ HasRole(t, a, removed \cup added) = {}
       /\ tx' = [tx EXCEPT ![t] =
                   [AccountDone(t) EXCEPT
                      !.revoked = @ \cup ({a} \X (removed \cap RolesOf(t, a))),
                      !.granted = @ \cup ({a} \X (added \ RolesOf(t, a)))]]
       /\ Uncommitted

--------------------------------------------------------------------------------
(* Outside: the directory, the administrators, the server *)

Disturbance == changes < MaxChanges /\ changes' = changes + 1

ChangeDirectory(a) ==
    /\ Disturbance
    /\ \E e \in Entries :
         /\ e # directory[a]
         /\ directory' = [directory EXCEPT ![a] = e]
         /\ left' = [left EXCEPT ![a] = @ \/ e.groups = {}]
         /\ tx' = [t \in Workers |->
                     IF e.groups = {} /\ Working(t)
                     THEN [tx[t] EXCEPT !.left = @ \cup {a}] ELSE tx[t]]
    /\ UNCHANGED <<users, roles, countries, flips>>

\* The UPDATE names the row and the prior value; it waits for whoever has it.
SetEmployeeActive(by, a, active) ==
    /\ Disturbance
    /\ active \/ by # a
    /\ "administrator" \in roles[by]
    /\ users[a] # NoUser
    /\ HasRow(NoUser, a) = {}
    /\ users[a].active # active
    /\ users' = [users EXCEPT ![a].active = active]
    /\ flips' = [flips EXCEPT ![a] = @ + (IF active THEN -1 ELSE 1)]
    /\ UNCHANGED <<directory, roles, countries, tx, left>>

\* The server stops, or the database ends the connection.
Crash(t) ==
    /\ tx[t].at # "idle"
    /\ Disturbance
    /\ End(t)
    /\ UNCHANGED <<directory, users, roles, countries, flips, left>>

(* Two transactions that wait for each other: PostgreSQL rolls one back.     *)
WaitsFor(t) ==
    CASE tx[t].at = "insertCountry" -> HasCountry(t, tx[t].desired.country)
      [] tx[t].at = "user" ->
           IF Unchanged(t) THEN {}
           ELSE HasRow(t, tx[t].address) \cup HasSubject(t, tx[t].subject)
      [] tx[t].at = "diff" ->
           HasRole(t, tx[t].address, (tx[t].before \ tx[t].desired.groups)
                                       \cup (tx[t].desired.groups \ tx[t].before))
      [] tx[t].at = "retire" ->
           IF \E a \in tx[t].todo : HasRow(t, a) = {} THEN {}
           ELSE UNION {HasRow(t, a) : a \in tx[t].todo}
      [] OTHER -> {}

Deadlocked(t) == \E u \in WaitsFor(t) : t \in WaitsFor(u)

BreakDeadlock(t) == Deadlocked(t) /\ Rollback(t)

--------------------------------------------------------------------------------

\* The first administrator has an account; whoever else is listed has one too.
Init ==
    /\ directory \in {d \in [Addresses -> {Unlisted, Staff, Listing(Roles)}] :
                         \A a \in Addresses : (a = Root) <=> (d[a].groups = Roles)}
    /\ users = [a \in Addresses |->
                  IF directory[a] = Unlisted THEN NoUser
                  ELSE [active |-> TRUE, subject |-> NoSubject, country |-> NoCountry, unseen |-> {}]]
    /\ roles = [a \in Addresses |-> directory[a].groups]
    /\ countries = {}
    /\ tx = [t \in Workers |-> Idle]
    /\ flips = [a \in Addresses |-> 0]
    /\ left = [a \in Addresses |-> FALSE]
    /\ changes = 0

\* The next statement of a transaction in progress
Statement(t) ==
    \/ EnsureCountry(t)
    \/ InsertCountry(t)
    \/ UpsertUser(t)
    \/ ReadRoles(t)
    \/ WriteRoles(t)
    \/ Commit(t)
    \/ BreakDeadlock(t)

PassStep(p) ==
    \/ CaptureTime(p)
    \/ ReadDirectory(p)
    \/ BeginPass(p)
    \/ NextEntry(p)
    \/ Scan(p)
    \/ Retire(p)
    \/ Statement(p)

Outside ==
    \/ \E a \in Addresses : ChangeDirectory(a)
    \/ \E by, a \in Addresses, active \in BOOLEAN : SetEmployeeActive(by, a, active)
    \/ \E t \in Workers : Crash(t)

Next ==
    \/ \E p \in Passes : PassStep(p)
    \/ \E l \in Logins : Match(l) \/ Statement(l)
    \/ Outside

Spec == Init /\ [][Next]_vars

\* The schedule starts a pass again and again (LdapSyncScheduler), a transaction
\* that has begun goes on until it ends.
FairSpec ==
    /\ Spec
    /\ \A p \in Passes : WF_vars(PassStep(p))
    /\ \A l \in Logins : WF_vars(Statement(l))

--------------------------------------------------------------------------------
(* Properties *)

\* Every variable has its type.
TypeOK ==
    /\ directory \in [Addresses -> Entries]
    /\ users \in [Addresses -> Rows \cup {NoUser}]
    /\ roles \in [Addresses -> SUBSET Roles]
    /\ countries \subseteq Countries
    /\ tx \in [Workers -> Transactions]
    /\ flips \in [Addresses -> Int]
    /\ left \in [Addresses -> BOOLEAN]
    /\ changes \in 0..MaxChanges

\* What the audit trail tells of an account is what its row says: no pass, sign-in
\* or administrator switches it without a trace, and none records a switch that
\* somebody else made.  In particular no sign-in brings an account back.
FlipsAreAudited ==
    \A a \in Addresses :
        users[a] # NoUser => flips[a] = IF users[a].active THEN 0 ELSE 1

\* A pass switches off only those whom its own reading of the directory misses, and
\* whom the directory has been without at some moment since their account was
\* created: neither the newcomer its snapshot could not show, nor anybody whose entry
\* it could not read, nor whoever was switched off when it came to their entry and
\* was switched on again before it looked for the departed.
NobodyPresentIsRetired ==
    \A p \in Passes : \A a \in tx[p].retired : left[a] /\ a \in tx[p].missed

\* Once a subject has signed in, its account is its own, whatever addresses the
\* identity provider moves about afterwards.  Only a sign-in that had found the
\* account before anybody's, and was overtaken since, can put another in its place:
\* the row is not locked when it is read.
LinksAreForLife ==
    [][\A a \in Addresses :
         users[a] # NoUser /\ users[a].subject # NoSubject
           => \/ users'[a].subject = users[a].subject
              \/ \E l \in Logins :
                   /\ tx[l].at = "commit"
                   /\ tx[l].address = a
                   /\ Owns(tx[l].existing, NoSubject)]_vars

\* What the code says of its lock order: a pass and a sign-in take countries
\* before users, and so never wait for each other.
NoDeadlock == \A t \in Workers : ~Deadlocked(t)

Mirrored(a) ==
    /\ users[a] = NoUser => directory[a].groups = {}
    /\ users[a] # NoUser /\ users[a].active =>
          directory[a].groups # {} /\ roles[a] = directory[a].groups

\* When the directory comes to rest readable, so do the accounts: whoever has gone
\* is switched off, whoever is listed has an account, and active accounts have
\* the roles of their groups, in spite of the passes that crashed, were refused,
\* lost a race to a sign-in or acted on an older snapshot.  Only a deadlock that
\* came back with every pass could prevent it.
EventuallyMirrored ==
    <>[](Usable(directory) /\ Trustworthy(directory) /\ NoDeadlock)
      => <>[](\A a \in Addresses : Mirrored(a))
================================================================================
