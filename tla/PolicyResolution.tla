-------------------------- MODULE PolicyResolution --------------------------
(***************************************************************************)
(* Which policy a row of an import file lands on (policy-resolution.ts),   *)
(* asked twice: by the validation report, for a whole file at once over a  *)
(* catalogue that grows in memory, and by the import itself, one           *)
(* transaction per employee over the catalogue in the database.            *)
(*                                                                         *)
(* Terms stand for deals up to their fingerprint.  A name is a stem and    *)
(* its place on the ladder "stem", "stem (2)", "stem (3)", and case is     *)
(* left out.  The name derived from terms has these terms for its stem.    *)
(***************************************************************************)
EXTENDS Integers, FiniteSets, Sequences, FiniteSetsExt, SequencesExt

CONSTANTS
  PolicyIds,   \* Ids of policies in the database; catalogues are read in their order
  Terms,       \* Deals
  Typed,       \* Names that people give
  NoName

NoDate   == -1   \* effectiveTo of a policy in force, and of an open membership
NoPolicy == 0

Stems == Typed \cup Terms
Names == Stems \X (Nat \ {0})

ASSUME ResolutionAssumption ==
  /\ PolicyIds \subseteq Nat \ {NoPolicy} /\ IsFiniteSet(PolicyIds) /\ PolicyIds # {}
  /\ Typed \cap Terms = {} /\ NoName \notin Stems

Policy == [name : Names, terms : Terms, from : Nat, to : Nat \cup {NoDate}]

\* A row of the file: the employee, their start date, the name and the terms.
FileRows(Users) ==
  [user : Users, hire : Nat, name : Stems \cup {NoName}, terms : Terms]

-----------------------------------------------------------------------------
(* A catalogue is a function from ids to policies. *)

Taken(catalogue) == {catalogue[p].name : p \in DOMAIN catalogue}

Retired(catalogue, p) == catalogue[p].to # NoDate

\* sortPolicyCatalog: in force first, then the latest to close, then by id.
Precedes(catalogue, p, q) ==
  LET P == catalogue[p]  Q == catalogue[q]
  IN  \/ P.to # Q.to /\ (P.to = NoDate \/ (Q.to # NoDate /\ P.to > Q.to))
      \/ P.to = Q.to /\ p < q

FirstOf(catalogue, S) ==
  CHOOSE p \in S : \A q \in S \ {p} : Precedes(catalogue, p, q)

\* firstFreePolicyName
FirstFree(stem, taken) ==
  <<stem, Min({n \in 1..(Cardinality(taken) + 1) : <<stem, n>> \notin taken})>>

Named(catalogue, row) ==
  {p \in DOMAIN catalogue : row.name # NoName /\ catalogue[p].name = <<row.name, 1>>}

WithTerms(catalogue, terms) == {p \in DOMAIN catalogue : catalogue[p].terms = terms}

InForce(catalogue, row) ==
  {p \in WithTerms(catalogue, row.terms) : ~Retired(catalogue, p)}

\* Those that createPolicyTx would refuse to mint beside.
StillCovering(catalogue, row) ==
  {p \in WithTerms(catalogue, row.terms) :
     Retired(catalogue, p) /\ catalogue[p].to >= row.hire}

\* resolvePolicy, when there is something to join: the name the file gives
\* decides, then the terms in force, then terms that still cover the start date.
Joined(catalogue, row) ==
  IF Named(catalogue, row) # {} THEN FirstOf(catalogue, Named(catalogue, row))
  ELSE IF InForce(catalogue, row) # {} THEN FirstOf(catalogue, InForce(catalogue, row))
  ELSE IF StillCovering(catalogue, row) # {} THEN FirstOf(catalogue, StillCovering(catalogue, row))
  ELSE NoPolicy

\* Mutant: the terms decide, as they once did in the preview.
JoinedByTerms(catalogue, row) ==
  IF InForce(catalogue, row) # {} THEN FirstOf(catalogue, InForce(catalogue, row))
  ELSE IF StillCovering(catalogue, row) # {} THEN FirstOf(catalogue, StillCovering(catalogue, row))
  ELSE NoPolicy

\* resolvePolicy, when the policy is minted: the name of the file goes before
\* the operator's, and the operator's before the derived one.
Minted(catalogue, row, chosen) ==
  LET stem == IF row.name # NoName THEN row.name
              ELSE IF chosen # NoName THEN chosen ELSE row.terms
  IN  [name  |-> FirstFree(stem, Taken(catalogue)), terms |-> row.terms,
       from  |-> row.hire, to |-> NoDate]

Added(catalogue, p, policy) ==
  [q \in DOMAIN catalogue \cup {p} |-> IF q = p THEN policy ELSE catalogue[q]]

\* The history import opens the window of a policy backwards.
Backdated(catalogue, p, date) ==
  [catalogue EXCEPT ![p].from = IF @ > date THEN date ELSE @]

-----------------------------------------------------------------------------
(* The report and the run: each is a walk over the file, in its order.     *)
(* lands tells where each row has ended up, and what a walk mints is       *)
(* numbered beyond the ids of the database.                                *)

Start(catalogue) == [policies |-> catalogue, lands |-> <<>>, fixed |-> {}]

NextId(catalogue) == Max(DOMAIN catalogue \cup PolicyIds) + 1

Landed(walk, p) == [walk EXCEPT !.lands = Append(@, p)]

\* Asked for by name, a policy may not be renamed by the operator.
Fixed(walk, row, p) ==
  IF row.name # NoName /\ walk.policies[p].name = <<row.name, 1>>
  THEN [walk EXCEPT !.fixed = @ \cup {p}] ELSE walk

\* Mutant: the report decides by the terms alone.
PlannedByTerms(walk, row) ==
  LET p   == JoinedByTerms(walk.policies, row)
      new == NextId(walk.policies)
  IN  IF p # NoPolicy THEN Landed(walk, p)
      ELSE Landed([walk EXCEPT !.policies = Added(@, new, Minted(@, row, NoName))], new)

\* groupPolicies, one row: what the run will mint is appended to the catalogue.
Planned(walk, row) ==
  LET p   == Joined(walk.policies, row)
      new == NextId(walk.policies)
      grown == [walk EXCEPT !.policies = Added(@, new, Minted(@, row, NoName))]
  IN  IF p # NoPolicy THEN Fixed(Landed(walk, p), row, p)
      ELSE IF row.name = NoName THEN Landed(grown, new)
      ELSE [Landed(grown, new) EXCEPT !.fixed = @ \cup {new}]

Plan(catalogue, file) == FoldLeft(Planned, Start(catalogue), file)

\* The groups whose name the operator may type over.
Renameable(catalogue, plan) ==
  (DOMAIN plan.policies \ DOMAIN catalogue) \ plan.fixed

\* chosenPolicyNameByEmail: the name typed for the group this row was put in.
ChosenFor(plan, chosen, i) ==
  IF plan.lands[i] \in DOMAIN chosen THEN chosen[plan.lands[i]] ELSE NoName

\* applyUserData, as far as the catalogue goes: the transaction of row i, and
\* none of it when the policy it comes to is retired.
Applied(walk, row, chosen) ==
  LET p   == Joined(walk.policies, row)
      new == NextId(walk.policies)
  IN  IF p = NoPolicy
      THEN Landed([walk EXCEPT !.policies = Added(@, new, Minted(@, row, chosen))], new)
      ELSE IF Retired(walk.policies, p) THEN Landed(walk, NoPolicy)
      ELSE Landed([walk EXCEPT !.policies = Backdated(@, p, row.hire)], p)

CarriedOut(catalogue, file, plan, chosen) ==
  FoldLeftDomain(LAMBDA walk, i : Applied(walk, file[i], ChosenFor(plan, chosen, i)),
                 Start(catalogue), file)

\* Names that no row of the file gives.
Unstated(file) == Stems \ {file[i].name : i \in DOMAIN file}

\* What the report said of each row is what becomes of it: the same policy, or
\* the one minted in its place with the same terms, or a refusal where it
\* warned of one.  A renamed group stays a group, and when the operator renames
\* none, each has the name the report gave.
AsPlanned(catalogue, file, chosen) ==
  LET plan == Plan(catalogue, file)
      done == CarriedOut(catalogue, file, plan, chosen)
      Untouched == \A g \in DOMAIN chosen : chosen[g] = NoName
  IN  \A i \in DOMAIN file :
        LET p == plan.lands[i]  q == done.lands[i]
        IN  IF Retired(plan.policies, p) THEN q = NoPolicy
            ELSE /\ q = p
                 /\ done.policies[q].terms = plan.policies[p].terms
                 /\ Untouched => done.policies[q].name = plan.policies[p].name
=============================================================================
