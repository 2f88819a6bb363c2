---------------------------- MODULE CapabilityStore ----------------------------
(***************************************************************************)
(* The authority store's capability graph: principals, the capabilities    *)
(* issued to them, derivation (delegation and renewal), revocation, expiry *)
(* and bearer verification.                                                *)
(*                                                                         *)
(* One action per exported operation of src/store/capabilities.js and      *)
(* src/store/principals.js that changes state.  Every operation is one     *)
(* step: better-sqlite3 is synchronous and one process writes the store,   *)
(* so nothing runs between a statement and the next.  A capability row     *)
(* never changes after its INSERT except for revoked_at, so the rows and   *)
(* the set of revoked ids are kept apart.                                  *)
(***************************************************************************)
EXTENDS Integers, FiniteSets

CONSTANTS
  Principal,      \* principal ids the host may mint
  Cap,            \* capability ids the host may mint
  Scope,          \* the scope vocabulary (SCOPES)
  MaxTime,        \* bound on the wall clock, in ticks
  MaxTtl,         \* MAX_TTL_SECONDS, in ticks
  MaxChainDepth,  \* MAX_CHAIN_DEPTH, the longest ancestry a verification walks
  None            \* SQL NULL in parent_capability_id and renewed_from

ASSUME TimeAssumption  == MaxTime \in Nat /\ MaxTtl \in Nat /\ MaxChainDepth \in Nat
ASSUME NoneAssumption  == None \notin Cap

VARIABLES
  clock,       \* now(): the host's wall clock, which an operator may step back
  principals,  \* ids with a row in table principal
  retired,     \* principals whose revoked_at is set
  rows,        \* table capability: a function from the issued ids to their row
  revoked      \* capabilities whose revoked_at is set

vars == <<clock, principals, retired, rows, revoked>>

Time    == 0 .. MaxTime
Expiry  == 0 .. MaxTime + MaxTtl
Scopes  == SUBSET Scope \ {{}}

Row == [owner : Principal, scopes : Scopes, notBefore : Time, expires : Expiry,
        parent : Cap \cup {None}, renewedFrom : Cap \cup {None}]

issued == DOMAIN rows

--------------------------------------------------------------------------------
(***************************************************************************)
(* The derivation graph.  A reachability set is the intersection of the    *)
(* closed sets that contain its seeds, which is what the recursive query   *)
(* of revokeCapabilityClosure computes and what a proof can use directly.  *)
(***************************************************************************)

\* d was minted from c, as a delegation or as a renewal.
DerivedFrom(d, c) == rows[d].parent = c \/ rows[d].renewedFrom = c

\* Mutant: the recursive query follows parent_capability_id and not renewed_from.
DownClosedByParent(X) == \A c \in X, d \in issued : rows[d].parent = c => d \in X

DownClosed(X) == \A c \in X, d \in issued : DerivedFrom(d, c) => d \in X

\* The blast radius of a set of capabilities: itself and all it led to.
Closure(seeds) ==
  {c \in issued : \A X \in SUBSET issued : (seeds \subseteq X /\ DownClosed(X)) => c \in X}

UpClosed(X) == \A c \in X : rows[c].parent \in X \cup {None}

\* Every capability above c: its parent, its parent's parent, and so on.
Ancestors(c) ==
  {a \in issued : \A X \in SUBSET issued :
                    (rows[c].parent \in X \cup {None} /\ UpClosed(X)) => a \in X}

--------------------------------------------------------------------------------
IsLive(c, at) == c \notin revoked /\ at < rows[c].expires

\* What one row says of itself, without the walk over its ancestors.
SelfValid(c, at) ==
  /\ IsLive(c, at)
  /\ rows[c].notBefore =< at
  /\ rows[c].owner \notin retired

\* A bearer token resolves to capability c at an instant.  The cycle guard of
\* the walk has no counterpart: a parent exists before its child is inserted.
VerifyCapability(c, at) ==
  /\ c \in issued
  /\ SelfValid(c, at)
  /\ Cardinality(Ancestors(c)) =< MaxChainDepth
  /\ \A a \in Ancestors(c) : IsLive(a, at) /\ rows[a].owner \notin retired

--------------------------------------------------------------------------------
Init ==
  /\ clock \in Time
  /\ principals = {}
  /\ retired = {}
  /\ rows = [c \in {} |-> None]
  /\ revoked = {}

CreatePrincipal(p) ==
  /\ p \notin principals
  /\ principals' = principals \cup {p}
  /\ UNCHANGED <<clock, retired, rows, revoked>>

\* Mutant: issueCapability without the subset test on the parent's scopes.
MayDeriveWider(parent, scopes, expires) ==
  parent # None => /\ parent \in issued
                   /\ IsLive(parent, clock)
                   /\ expires =< rows[parent].expires

\* Mutant: issueCapability without the bound on the parent's expiry.
MayDeriveLonger(parent, scopes, expires) ==
  parent # None => /\ parent \in issued
                   /\ IsLive(parent, clock)
                   /\ scopes \subseteq rows[parent].scopes

\* The refusals of issueCapability that concern the parent.
MayDerive(parent, scopes, expires) ==
  parent # None =>
    /\ parent \in issued
    /\ parent \notin revoked
    /\ clock < rows[parent].expires
    /\ scopes \subseteq rows[parent].scopes
    /\ expires =< rows[parent].expires

\* The INSERT at the end of issueCapability.
Insert(id, row) ==
  rows' = [c \in issued \cup {id} |-> IF c = id THEN row ELSE rows[c]]

IssueCapability(id, p, scopes, ttl, parent, predecessor) ==
  /\ id \notin issued
  /\ p \in principals \ retired
  /\ MayDerive(parent, scopes, clock + ttl)
  /\ Insert(id, [owner |-> p, scopes |-> scopes, notBefore |-> clock,
                 expires |-> clock + ttl, parent |-> parent,
                 renewedFrom |-> predecessor])
  /\ UNCHANGED <<clock, principals, retired, revoked>>

\* Mutant: renewal moves the predecessor's own expiry, expired or not.
RenewInPlace(id, old, scopes, ttl) ==
  /\ old \in issued
  /\ old \notin revoked
  /\ MayDerive(rows[old].parent, scopes, clock + ttl)
  /\ rows' = [rows EXCEPT ![old].expires = clock + ttl]
  /\ UNCHANGED <<clock, principals, retired, revoked>>

\* A fresh token and TTL for a live capability, under the same parent; the
\* rules of issueCapability apply again.
RenewCapability(id, old, scopes, ttl) ==
  /\ old \in issued
  /\ IsLive(old, clock)
  /\ scopes \subseteq rows[old].scopes
  /\ IssueCapability(id, rows[old].owner, scopes, ttl, rows[old].parent, old)

RevokeCapability(c) ==
  /\ c \in issued
  /\ revoked' = revoked \cup Closure({c})
  /\ UNCHANGED <<clock, principals, retired, rows>>

RevokePrincipal(p) ==
  /\ p \in principals \ retired
  /\ retired' = retired \cup {p}
  /\ revoked' = revoked \cup Closure({c \in issued : rows[c].owner = p})
  /\ UNCHANGED <<clock, principals, rows>>

\* The wall clock moves, in either direction: nothing in the store makes
\* now() monotonic.
ClockMoves ==
  /\ clock' \in Time
  /\ UNCHANGED <<principals, retired, rows, revoked>>

Next ==
  \/ \E p \in Principal : CreatePrincipal(p)
  \/ \E id \in Cap, p \in Principal, scopes \in Scopes, ttl \in 1 .. MaxTtl,
        parent \in issued \cup {None} :
       IssueCapability(id, p, scopes, ttl, parent, None)
  \/ \E id \in Cap, old \in issued, scopes \in Scopes, ttl \in 1 .. MaxTtl :
       RenewCapability(id, old, scopes, ttl)
  \/ \E c \in issued : RevokeCapability(c)
  \/ \E p \in Principal : RevokePrincipal(p)
  \/ ClockMoves

Spec == Init /\ [][Next]_vars

--------------------------------------------------------------------------------
\* Types, and the foreign keys of the schema: an owner, a parent and a
\* predecessor are rows that exist.
TypeOK ==
  /\ clock \in Time
  /\ principals \subseteq Principal
  /\ retired \subseteq principals
  /\ issued \subseteq Cap
  /\ rows \in [issued -> Row]
  /\ revoked \subseteq issued
  /\ \A c \in issued : /\ rows[c].owner \in principals
                       /\ rows[c].parent \in issued \cup {None}
                       /\ rows[c].renewedFrom \in issued \cup {None}

\* Revocation reaches everything derived from what it revokes, whenever it was
\* derived: no child and no renewal of a revoked capability is unrevoked
\* (revokeCapabilityClosure, and the refusals of issue and renew).
RevocationReachesDescendants ==
  \A c \in issued, d \in issued : DerivedFrom(d, c) /\ c \in revoked => d \in revoked

\* A revoked principal is left with no unrevoked capability of its own
\* (revokePrincipal's sweep, and issueCapability's refusal of a revoked owner).
RevokedPrincipalHoldsNothing ==
  \A c \in issued : rows[c].owner \in retired => c \in revoked

\* Authority only narrows down a derivation: no capability has a scope, or an
\* instant of life, that some ancestor lacks; a renewal keeps its
\* predecessor's principal and parent and adds no scope.
AuthorityOnlyNarrows ==
  \A c \in issued :
    /\ \A a \in Ancestors(c) : /\ rows[c].scopes \subseteq rows[a].scopes
                               /\ rows[c].expires =< rows[a].expires
    /\ rows[c].renewedFrom # None =>
         LET old == rows[rows[c].renewedFrom] IN
           /\ rows[c].owner = old.owner
           /\ rows[c].parent = old.parent
           /\ rows[c].scopes \subseteq old.scopes

\* What issue and revoke write already implies what verification walks for: a
\* capability that is live by its own row has a live ancestry, held by live
\* principals.  The walk is a second line, not the only one.
LiveMeansLineageLive ==
  \A c \in issued : SelfValid(c, clock) =>
    \A a \in Ancestors(c) : IsLive(a, clock) /\ rows[a].owner \notin retired

\* A capability that verification refuses comes back only with the clock:
\* whatever is issued, renewed or revoked, no refusal is undone by a write.
RefusalOnlyEndsWithClock ==
  [][\A c \in issued :
       VerifyCapability(c, clock)' /\ ~VerifyCapability(c, clock) => clock' # clock]_vars
================================================================================
