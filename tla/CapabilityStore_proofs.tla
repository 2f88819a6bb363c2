------------------------- MODULE CapabilityStore_proofs -------------------------
(***************************************************************************)
(* Proofs about the tables of capabilities, for any ids, scopes, clock and *)
(* depth (CapabilityStore), and about the transactions that carry every    *)
(* write of the store, for any units and rows (StoreTx, further down).     *)
(***************************************************************************)
EXTENDS CapabilityStore, StoreTx, TLAPS

\* One derivation step narrows: what IssueCapability and RenewCapability check
\* against the parent and the predecessor when a row is inserted.
StepNarrows ==
  \A c \in issued :
    /\ rows[c].parent # None =>
         /\ rows[c].scopes \subseteq rows[rows[c].parent].scopes
         /\ rows[c].expires =< rows[rows[c].parent].expires
    /\ rows[c].renewedFrom # None =>
         /\ rows[c].owner = rows[rows[c].renewedFrom].owner
         /\ rows[c].parent = rows[rows[c].renewedFrom].parent
         /\ rows[c].scopes \subseteq rows[rows[c].renewedFrom].scopes

IInv ==
  /\ TypeOK
  /\ RevocationReachesDescendants
  /\ RevokedPrincipalHoldsNothing
  /\ StepNarrows

--------------------------------------------------------------------------------
(* Facts about the operators. *)

\* A revocation closure holds its seeds and everything derived from its members.
LEMMA ClosureFacts ==
  ASSUME NEW seeds \in SUBSET issued
  PROVE  /\ Closure(seeds) \subseteq issued
         /\ seeds \subseteq Closure(seeds)
         /\ DownClosed(Closure(seeds))
<1>1. Closure(seeds) \subseteq issued /\ seeds \subseteq Closure(seeds)
  BY DEF Closure
<1>2. ASSUME NEW c \in Closure(seeds), NEW d \in issued, DerivedFrom(d, c)
      PROVE  d \in Closure(seeds)
  <2>1. ASSUME NEW X \in SUBSET issued, seeds \subseteq X, DownClosed(X)
        PROVE  d \in X
    <3>1. c \in X
      BY <1>2, <2>1 DEF Closure
    <3>2. QED
      BY <1>2, <2>1, <3>1 DEF DownClosed
  <2>2. QED
    BY <1>2, <2>1 DEF Closure
<1>3. QED
  BY <1>1, <1>2 DEF DownClosed

\* To bound the ancestry of c, exhibit an up-closed set that holds its parent.
LEMMA AncestorsWithin ==
  ASSUME NEW c \in issued, NEW X \in SUBSET issued,
         rows[c].parent \in X \cup {None}, UpClosed(X)
  PROVE  Ancestors(c) \subseteq X
BY DEF Ancestors

--------------------------------------------------------------------------------
(* What the inductive invariant gives. *)

\* Narrowing at each step is narrowing along the whole ancestry.
LEMMA NarrowsAlongAncestry ==
  ASSUME TypeOK, StepNarrows
  PROVE  AuthorityOnlyNarrows
<1> SUFFICES ASSUME NEW c \in issued
             PROVE  \A a \in Ancestors(c) : /\ rows[c].scopes \subseteq rows[a].scopes
                                            /\ rows[c].expires =< rows[a].expires
  BY DEF AuthorityOnlyNarrows, StepNarrows
<1> DEFINE Wider == {a \in issued : /\ rows[c].scopes \subseteq rows[a].scopes
                                    /\ rows[c].expires =< rows[a].expires}
<1>1. \A a \in issued : rows[a].expires \in Int /\ rows[a].parent \in issued \cup {None}
  BY TimeAssumption DEF TypeOK, Row, Expiry
<1>2. rows[c].parent \in Wider \cup {None}
  BY <1>1 DEF StepNarrows
<1>3. UpClosed(Wider)
  <2>1. ASSUME NEW a \in Wider, rows[a].parent # None
        PROVE  rows[a].parent \in Wider
    <3>1. rows[a].parent \in issued
      BY <1>1, <2>1
    <3>2. /\ rows[a].scopes \subseteq rows[rows[a].parent].scopes
          /\ rows[a].expires =< rows[rows[a].parent].expires
      BY <2>1 DEF StepNarrows
    <3>3. rows[c].expires =< rows[rows[a].parent].expires
      BY <1>1, <3>1, <3>2
    <3>4. QED
      BY <3>1, <3>2, <3>3
  <2>2. QED
    BY <2>1 DEF UpClosed
<1>4. Ancestors(c) \subseteq Wider
  BY <1>2, <1>3, AncestorsWithin
<1>5. QED
  BY <1>4

\* The write-time rules make every live row's ancestry live.
LEMMA LineageLive ==
  ASSUME IInv
  PROVE  LiveMeansLineageLive
<1> SUFFICES ASSUME NEW c \in issued, SelfValid(c, clock)
             PROVE  \A a \in Ancestors(c) : IsLive(a, clock) /\ rows[a].owner \notin retired
  BY DEF LiveMeansLineageLive
<1> DEFINE Live == {a \in issued : IsLive(a, clock)}
<1>1. \A a \in issued : rows[a].expires \in Int /\ rows[a].parent \in issued \cup {None}
  BY TimeAssumption DEF IInv, TypeOK, Row, Expiry
<1>2. clock \in Int
  BY TimeAssumption DEF IInv, TypeOK, Time
<1>3. ASSUME NEW a \in Live, rows[a].parent # None
      PROVE  rows[a].parent \in Live
  <2>1. rows[a].parent \in issued /\ rows[a].expires =< rows[rows[a].parent].expires
    BY <1>1, <1>3 DEF IInv, StepNarrows
  <2>2. clock < rows[rows[a].parent].expires
    BY <1>1, <1>2, <2>1 DEF IsLive
  <2>3. rows[a].parent \notin revoked
    BY <2>1 DEF IInv, RevocationReachesDescendants, DerivedFrom, IsLive
  <2>4. QED
    BY <2>1, <2>2, <2>3 DEF IsLive
<1>4. c \in Live
  BY DEF SelfValid
<1>5. rows[c].parent \in Live \cup {None} /\ UpClosed(Live)
  BY <1>3, <1>4 DEF UpClosed
<1>6. Ancestors(c) \subseteq Live
  BY <1>5, AncestorsWithin
<1>7. QED
  BY <1>6 DEF IInv, RevokedPrincipalHoldsNothing, IsLive

--------------------------------------------------------------------------------
(* The inductive invariant. *)

LEMMA InitInv == Init => IInv
BY DEF Init, IInv, TypeOK, RevocationReachesDescendants, RevokedPrincipalHoldsNothing,
       StepNarrows, issued, Row

\* Inserting a row: the one step that grows the graph.
LEMMA IssueInv ==
  ASSUME IInv,
         NEW id \in Cap, NEW p \in Principal, NEW scopes \in Scopes, NEW ttl \in 1 .. MaxTtl,
         NEW parent \in issued \cup {None}, NEW predecessor \in issued \cup {None},
         predecessor # None => /\ predecessor \notin revoked
                               /\ rows[predecessor].owner = p
                               /\ rows[predecessor].parent = parent
                               /\ scopes \subseteq rows[predecessor].scopes,
         IssueCapability(id, p, scopes, ttl, parent, predecessor)
  PROVE  IInv'
<1> DEFINE row == [owner |-> p, scopes |-> scopes, notBefore |-> clock,
                   expires |-> clock + ttl, parent |-> parent, renewedFrom |-> predecessor]
<1>1. /\ id \notin issued
      /\ p \in principals
      /\ p \notin retired
      /\ MayDerive(parent, scopes, clock + ttl)
      /\ rows' = [c \in issued \cup {id} |-> IF c = id THEN row ELSE rows[c]]
      /\ clock' = clock /\ principals' = principals /\ retired' = retired /\ revoked' = revoked
  BY DEF IssueCapability, Insert
<1>2. /\ issued' = issued \cup {id}
      /\ rows'[id] = row
      /\ \A c \in issued : rows'[c] = rows[c] /\ c # id
  BY <1>1 DEF issued
<1>3. row \in Row
  BY <1>1, TimeAssumption DEF IInv, TypeOK, Row, Time, Expiry
<1>4. TypeOK'
  <2>1. rows' \in [issued' -> Row]
    BY <1>1, <1>2, <1>3 DEF IInv, TypeOK
  <2>2. \A c \in issued' : /\ rows'[c].owner \in principals
                           /\ rows'[c].parent \in issued' \cup {None}
                           /\ rows'[c].renewedFrom \in issued' \cup {None}
    BY <1>1, <1>2 DEF IInv, TypeOK
  <2>3. QED
    BY <1>1, <1>2, <2>1, <2>2 DEF IInv, TypeOK
<1>5. RevocationReachesDescendants'
  <2> SUFFICES ASSUME NEW c \in issued', NEW d \in issued', DerivedFrom(d, c)', c \in revoked
               PROVE  d \in revoked
    BY <1>1 DEF RevocationReachesDescendants
  <2>1. c \in issued
    BY <1>1 DEF IInv, TypeOK
  <2>2. CASE d = id
    <3>1. c = parent \/ c = predecessor
      BY <1>2, <2>2 DEF DerivedFrom
    <3>2. QED
      BY <1>1, <2>1, <3>1, NoneAssumption DEF MayDerive, IInv, TypeOK
  <2>3. CASE d # id
    BY <1>2, <2>1, <2>3 DEF IInv, RevocationReachesDescendants, DerivedFrom
  <2>4. QED
    BY <2>2, <2>3
<1>6. RevokedPrincipalHoldsNothing'
  BY <1>1, <1>2 DEF IInv, RevokedPrincipalHoldsNothing
<1>7. StepNarrows'
  <2> SUFFICES ASSUME NEW c \in issued'
               PROVE  /\ rows'[c].parent # None =>
                           /\ rows'[c].scopes \subseteq rows'[rows'[c].parent].scopes
                           /\ rows'[c].expires =< rows'[rows'[c].parent].expires
                      /\ rows'[c].renewedFrom # None =>
                           /\ rows'[c].owner = rows'[rows'[c].renewedFrom].owner
                           /\ rows'[c].parent = rows'[rows'[c].renewedFrom].parent
                           /\ rows'[c].scopes \subseteq rows'[rows'[c].renewedFrom].scopes
    BY DEF StepNarrows
  <2>1. CASE c = id
    BY <1>1, <1>2, <2>1 DEF MayDerive
  <2>2. CASE c # id
    <3>1. /\ c \in issued
          /\ rows'[c] = rows[c]
          /\ rows[c].parent \in issued \cup {None}
          /\ rows[c].renewedFrom \in issued \cup {None}
      BY <1>2, <2>2 DEF IInv, TypeOK
    <3>2. QED
      BY <1>2, <3>1 DEF IInv, StepNarrows
  <2>3. QED
    BY <2>1, <2>2
<1>8. QED
  BY <1>4, <1>5, <1>6, <1>7 DEF IInv

\* Revoking a closed set keeps the invariant, whatever principals retire with it.
LEMMA SweepInv ==
  ASSUME IInv, NEW seeds \in SUBSET issued, NEW gone \in SUBSET principals,
         \A c \in issued : rows[c].owner \in gone => c \in seeds,
         revoked' = revoked \cup Closure(seeds),
         retired' = retired \cup gone,
         UNCHANGED <<clock, principals, rows>>
  PROVE  IInv'
<1>1. issued' = issued
  BY DEF issued
<1>2. Closure(seeds) \subseteq issued /\ seeds \subseteq Closure(seeds) /\ DownClosed(Closure(seeds))
  BY ClosureFacts
<1>3. TypeOK'
  BY <1>1, <1>2 DEF IInv, TypeOK
<1>4. RevocationReachesDescendants'
  BY <1>1, <1>2 DEF IInv, RevocationReachesDescendants, DerivedFrom, DownClosed
<1>5. RevokedPrincipalHoldsNothing'
  BY <1>1, <1>2 DEF IInv, RevokedPrincipalHoldsNothing
<1>6. StepNarrows'
  BY <1>1 DEF IInv, StepNarrows
<1>7. QED
  BY <1>3, <1>4, <1>5, <1>6 DEF IInv

LEMMA NextInv == IInv /\ [Next]_vars => IInv'
<1> SUFFICES ASSUME IInv, [Next]_vars
             PROVE  IInv'
  OBVIOUS
<1>1. ASSUME NEW p \in Principal, CreatePrincipal(p)
      PROVE  IInv'
  BY <1>1 DEF CreatePrincipal, IInv, TypeOK, RevocationReachesDescendants, DerivedFrom,
              RevokedPrincipalHoldsNothing, StepNarrows, issued
<1>2. ASSUME NEW id \in Cap, NEW p \in Principal, NEW scopes \in Scopes, NEW ttl \in 1 .. MaxTtl,
             NEW parent \in issued \cup {None},
             IssueCapability(id, p, scopes, ttl, parent, None)
      PROVE  IInv'
  BY <1>2, IssueInv
<1>3. ASSUME NEW id \in Cap, NEW old \in issued, NEW scopes \in Scopes, NEW ttl \in 1 .. MaxTtl,
             RenewCapability(id, old, scopes, ttl)
      PROVE  IInv'
  <2>1. rows[old].owner \in Principal /\ rows[old].parent \in issued \cup {None}
    BY DEF IInv, TypeOK, Row
  <2>2. /\ IssueCapability(id, rows[old].owner, scopes, ttl, rows[old].parent, old)
        /\ old \notin revoked /\ scopes \subseteq rows[old].scopes
    BY <1>3 DEF RenewCapability, IsLive
  <2>3. QED
    BY <2>1, <2>2, IssueInv
<1>4. ASSUME NEW c \in issued, RevokeCapability(c)
      PROVE  IInv'
  BY <1>4, SweepInv, {c} \in SUBSET issued, {} \in SUBSET principals DEF RevokeCapability
<1>5. ASSUME NEW p \in Principal, RevokePrincipal(p)
      PROVE  IInv'
  <2> DEFINE own == {c \in issued : rows[c].owner = p}
  <2>1. own \in SUBSET issued /\ {p} \in SUBSET principals
    BY <1>5 DEF RevokePrincipal
  <2>2. \A c \in issued : rows[c].owner \in {p} => c \in own
    OBVIOUS
  <2>3. QED
    BY <1>5, <2>1, <2>2, SweepInv DEF RevokePrincipal
<1>6. CASE ClockMoves
  BY <1>6 DEF ClockMoves, IInv, TypeOK, RevocationReachesDescendants, DerivedFrom,
              RevokedPrincipalHoldsNothing, StepNarrows, issued
<1>7. CASE UNCHANGED vars
  BY <1>7 DEF vars, IInv, TypeOK, RevocationReachesDescendants, DerivedFrom,
              RevokedPrincipalHoldsNothing, StepNarrows, issued
<1>8. QED
  BY <1>1, <1>2, <1>3, <1>4, <1>5, <1>6, <1>7 DEF Next

LEMMA Invariance == Spec => []IInv
BY InitInv, NextInv, PTL DEF Spec

--------------------------------------------------------------------------------
(* What no step undoes. *)

\* Rows are only added, and what is revoked or retired stays so.
OnlyGrows ==
  /\ issued \subseteq issued'
  /\ \A c \in issued : rows'[c] = rows[c]
  /\ revoked \subseteq revoked'
  /\ retired \subseteq retired'

LEMMA StepOnlyGrows ==
  ASSUME [Next]_vars
  PROVE  OnlyGrows
<1>1. ASSUME NEW id \in Cap, NEW p, NEW scopes, NEW ttl, NEW parent, NEW predecessor,
             IssueCapability(id, p, scopes, ttl, parent, predecessor)
      PROVE  OnlyGrows
  BY <1>1 DEF IssueCapability, Insert, OnlyGrows, issued
<1>2. ASSUME NEW id \in Cap, NEW old \in issued, NEW scopes, NEW ttl,
             RenewCapability(id, old, scopes, ttl)
      PROVE  OnlyGrows
  BY <1>1, <1>2 DEF RenewCapability
<1>3. ASSUME NEW p \in Principal, CreatePrincipal(p)
      PROVE  OnlyGrows
  BY <1>3 DEF CreatePrincipal, OnlyGrows, issued
<1>4. ASSUME NEW c \in issued, RevokeCapability(c)
      PROVE  OnlyGrows
  BY <1>4 DEF RevokeCapability, OnlyGrows, issued
<1>5. ASSUME NEW p \in Principal, RevokePrincipal(p)
      PROVE  OnlyGrows
  BY <1>5 DEF RevokePrincipal, OnlyGrows, issued
<1>6. CASE ClockMoves \/ UNCHANGED vars
  BY <1>6 DEF ClockMoves, vars, OnlyGrows, issued
<1>7. QED
  BY <1>1, <1>2, <1>3, <1>4, <1>5, <1>6 DEF Next

\* The ancestry of a row is settled when it is inserted.
LEMMA AncestryFixed ==
  ASSUME TypeOK, OnlyGrows, NEW c \in issued
  PROVE  Ancestors(c)' = Ancestors(c)
<1>1. \A a \in issued : /\ a \in issued'
                        /\ rows'[a] = rows[a]
                        /\ rows[a].parent \in issued \cup {None}
  BY DEF TypeOK, OnlyGrows
<1>2. ASSUME NEW a \in Ancestors(c)'
      PROVE  a \in Ancestors(c)
  <2>1. ASSUME NEW X \in SUBSET issued, rows[c].parent \in X \cup {None}, UpClosed(X)
        PROVE  a \in X
    <3>1. X \in SUBSET issued' /\ rows'[c].parent \in X \cup {None} /\ UpClosed(X)'
      BY <1>1, <2>1 DEF UpClosed
    <3>2. QED
      BY <1>2, <3>1 DEF Ancestors
  <2>2. UpClosed(issued) /\ rows[c].parent \in issued \cup {None}
    BY <1>1 DEF UpClosed
  <2>3. QED
    BY <2>1, <2>2 DEF Ancestors
<1>3. ASSUME NEW a \in Ancestors(c)
      PROVE  a \in Ancestors(c)'
  <2>1. ASSUME NEW X \in SUBSET issued', rows'[c].parent \in X \cup {None}, UpClosed(X)'
        PROVE  a \in X
    <3>1. /\ rows[c].parent \in (X \cap issued) \cup {None}
          /\ UpClosed(X \cap issued)
      BY <1>1, <2>1 DEF UpClosed
    <3>2. QED
      BY <1>3, <3>1 DEF Ancestors
  <2>2. a \in issued'
    BY <1>1, <1>3 DEF Ancestors
  <2>3. QED
    BY <2>1, <2>2 DEF Ancestors
<1>4. QED
  BY <1>2, <1>3

\* While the clock stands still, a capability that verifies after a step
\* verified before it.
LEMMA RefusalStays ==
  ASSUME TypeOK, [Next]_vars
  PROVE  \A c \in issued :
           VerifyCapability(c, clock)' /\ ~VerifyCapability(c, clock) => clock' # clock
<1> SUFFICES ASSUME NEW c \in issued, VerifyCapability(c, clock)', clock' = clock
             PROVE  VerifyCapability(c, clock)
  OBVIOUS
<1>1. OnlyGrows
  BY StepOnlyGrows
<1>2. Ancestors(c)' = Ancestors(c) /\ Ancestors(c) \subseteq issued
  BY <1>1, AncestryFixed DEF Ancestors
<1>3. SelfValid(c, clock)
  BY <1>1 DEF VerifyCapability, SelfValid, IsLive, OnlyGrows
<1>4. \A a \in Ancestors(c) : IsLive(a, clock) /\ rows[a].owner \notin retired
  BY <1>1, <1>2 DEF VerifyCapability, IsLive, OnlyGrows
<1>5. Cardinality(Ancestors(c)) =< MaxChainDepth
  BY <1>2 DEF VerifyCapability
<1>6. QED
  BY <1>3, <1>4, <1>5 DEF VerifyCapability

--------------------------------------------------------------------------------
(* The results. *)

\* The tables keep their types and foreign keys.
THEOREM TypeCorrect == Spec => []TypeOK
<1>1. IInv => TypeOK
  BY DEF IInv
<1>2. QED
  BY <1>1, Invariance, PTL

\* Nothing derived from a revoked capability is left unrevoked, whenever and
\* however it was derived.
THEOREM RevocationReaches == Spec => []RevocationReachesDescendants
<1>1. IInv => RevocationReachesDescendants
  BY DEF IInv
<1>2. QED
  BY <1>1, Invariance, PTL

\* A revoked principal keeps no unrevoked capability.
THEOREM PrincipalRevocationComplete == Spec => []RevokedPrincipalHoldsNothing
<1>1. IInv => RevokedPrincipalHoldsNothing
  BY DEF IInv
<1>2. QED
  BY <1>1, Invariance, PTL

\* No derivation, however long, widens a scope or outlives an ancestor.
THEOREM NarrowingHolds == Spec => []AuthorityOnlyNarrows
<1>1. IInv => AuthorityOnlyNarrows
  BY NarrowsAlongAncestry DEF IInv
<1>2. QED
  BY <1>1, Invariance, PTL

\* Verification's walk over the ancestry never finds what the writes missed.
THEOREM WalkNeverNeeded == Spec => []LiveMeansLineageLive
<1>1. IInv => LiveMeansLineageLive
  BY LineageLive
<1>2. QED
  BY <1>1, Invariance, PTL

\* No write ever turns a refused capability into an accepted one.
THEOREM RefusalIsFinal == Spec => RefusalOnlyEndsWithClock
<1>1. TypeOK /\ [Next]_vars =>
        [\A c \in issued :
           VerifyCapability(c, clock)' /\ ~VerifyCapability(c, clock) => clock' # clock]_vars
  BY RefusalStays
<1>2. QED
  BY <1>1, TypeCorrect, PTL DEF Spec, RefusalOnlyEndsWithClock

--------------------------------------------------------------------------------
(* StoreTx.  The units under way are a stack: their savepoints grow towards    *)
(* the top, each has been called from the one below it, and all but the top    *)
(* are in their bodies.                                                        *)

Stacked ==
  /\ top = NoUnit <=> Active = {}
  /\ top # NoUnit => top \in Active /\ \A v \in Active : save[v] =< save[top]
  /\ \A v \in Active : v # top => at[v] = "body"
  /\ \A v, w \in Active : save[v] = save[w] => v = w
  /\ \A v \in Active : save[v] =< seq

CallersBelow ==
  \A v \in Active :
    IF caller[v] = NoUnit THEN save[v] = 0
    ELSE /\ caller[v] \in Active
         /\ save[caller[v]] < save[v]
         /\ \A w \in Active : save[w] < save[v] => save[w] =< save[caller[v]]

\* SQLite's transaction and its savepoints are those of the units on the stack.
Connected ==
  /\ inTx => top # NoUnit /\ at[top] # "committed"
  /\ top # NoUnit /\ at[top] = "body" => inTx
  /\ top # NoUnit /\ at[top] = "committed" => save[top] = 0
  /\ inTx => \A n \in Nat : n \in DOMAIN saves <=> n # 0 /\ \E v \in Active : save[v] = n
  /\ ~ inTx => work = disk /\ DOMAIN saves = {}

Holds(S, u) == S \cap Rows(u)

Whole(S, u) == /\ Holds(S, u) \in {{}, wrote[u]}
               /\ told[u] = "error" => Holds(S, u) = {}

\* Where the rows of a unit may be, at each stage of it.
Accounted(u) ==
  /\ at[u] = "idle" => wrote[u] = {}
  /\ at[u] # "over" => told[u] = "none"
  /\ Holds(disk, u) \subseteq wrote[u] /\ Holds(work, u) \subseteq wrote[u]
  /\ \A n \in DOMAIN saves : Holds(saves[n], u) \subseteq wrote[u]
  /\ at[u] = "over" => /\ Whole(disk, u) /\ Whole(work, u)
                       /\ \A n \in DOMAIN saves : Whole(saves[n], u)
  /\ at[u] \in {"body", "raised"} => Holds(disk, u) = {}
  /\ at[u] = "committed" => Holds(disk, u) = wrote[u]
  /\ at[u] = "body" /\ inTx => Holds(work, u) = wrote[u]
  /\ u \in Active => \A n \in DOMAIN saves :
       Holds(saves[n], u) = IF n =< save[u] THEN {} ELSE wrote[u]

TxInv == TxTypeOK /\ Stacked /\ CallersBelow /\ Connected /\ \A u \in Unit : Accounted(u)

--------------------------------------------------------------------------------
\* A unit's rows are its own.
LEMMA RowsApart ==
  ASSUME NEW u \in Unit, NEW v \in Unit, u # v, NEW r \in Rows(u)
  PROVE  r \in AllRows /\ r \notin Rows(v)
BY DEF Rows, AllRows

LEMMA TxInitInv == TxInit => TxInv
<1> SUFFICES ASSUME TxInit PROVE TxInv
  OBVIOUS
<1>1. Active = {}
  BY DEF TxInit, Active
<1>2. TxTypeOK
  BY DEF TxInit, TxTypeOK
<1>3. Stacked /\ CallersBelow /\ Connected
  BY <1>1 DEF TxInit, Stacked, CallersBelow, Connected
<1>4. \A u \in Unit : Accounted(u)
  BY <1>1 DEF TxInit, Accounted, Holds
<1>5. QED
  BY <1>2, <1>3, <1>4 DEF TxInv

\* What a return does to the stack: u goes, and what is below it is the top.
LEMMA ReturnFacts ==
  ASSUME TxTypeOK, Stacked, CallersBelow, NEW u \in Unit, u = top,
         NEW result \in {"ok", "error"}, NEW a \in {"body", "raised"},
         Return(u, caller[u], result, a), UNCHANGED <<seq, caller, save>>
  PROVE  /\ top' \in Unit \cup {NoUnit}
         /\ at' \in [Unit -> {"idle", "body", "raised", "committed", "over"}]
         /\ told' \in [Unit -> {"none", "ok", "error"}]
         /\ u \in Active /\ u \notin Active' /\ u # caller[u]
         /\ Active' = Active \ {u}
         /\ at'[u] = "over" /\ told'[u] = result
         /\ \A v \in Unit : v # u => told'[v] = told[v]
         /\ \A v \in Unit : v # u /\ v # caller[u] => at'[v] = at[v]
         /\ caller[u] # NoUnit => at[caller[u]] = "body" /\ at'[caller[u]] = a
         /\ Stacked' /\ CallersBelow'
<1> USE UnitAssumption
<1>1. u \in Active /\ caller[u] \in Unit \cup {NoUnit} /\ u # NoUnit
  BY DEF Stacked, TxTypeOK
<1>2. caller[u] # NoUnit => caller[u] \in Active /\ save[caller[u]] < save[u]
  BY <1>1 DEF CallersBelow
<1>3. u # caller[u]
  BY <1>1, <1>2 DEF TxTypeOK
<1>4. caller[u] # NoUnit => at[caller[u]] = "body"
  BY <1>2, <1>3 DEF Stacked
<1>5. /\ top' = caller[u] /\ at'[u] = "over" /\ told'[u] = result
      /\ \A v \in Unit : v # u => told'[v] = told[v]
      /\ \A v \in Unit : v # u /\ v # caller[u] => at'[v] = at[v]
      /\ caller[u] # NoUnit => at'[caller[u]] = a
      /\ at' \in [Unit -> {"idle", "body", "raised", "committed", "over"}]
      /\ told' \in [Unit -> {"none", "ok", "error"}]
  BY <1>1, <1>3 DEF Return, TxTypeOK
<1>6. Active' = Active \ {u}
  BY <1>1, <1>2, <1>4, <1>5 DEF Active, TxTypeOK
<1>7. Stacked'
  <2>1. CASE caller[u] = NoUnit
    <3>1. \A v \in Active : save[v] = 0
      BY <1>1, <2>1 DEF CallersBelow, Stacked, TxTypeOK, Active
    <3>2. Active' = {}
      BY <1>1, <1>6, <3>1 DEF Stacked
    <3>3. QED
      BY <1>5, <2>1, <3>2 DEF Stacked
  <2>2. CASE caller[u] # NoUnit
    <3>1. \A v \in Active' : save[v] =< save[caller[u]]
      <4>1. TAKE v \in Active'
      <4>2. v \in Active /\ v # u /\ v \in Unit
        BY <1>6 DEF Active
      <4>3. save[v] < save[u]
        BY <1>1, <4>2 DEF Stacked, TxTypeOK
      <4>4. QED
        BY <1>1, <2>2, <4>2, <4>3 DEF CallersBelow
    <3>2. \A v \in Active' : v # top' => at'[v] = "body"
      BY <1>5, <1>6 DEF Stacked, Active
    <3>3. QED
      BY <1>2, <1>3, <1>5, <1>6, <2>2, <3>1, <3>2 DEF Stacked
  <2>3. QED
    BY <2>1, <2>2
<1>8. CallersBelow'
  <2>1. \A v \in Active' : caller[v] # u
    <3>1. SUFFICES ASSUME NEW v \in Active', caller[v] = u PROVE FALSE
      OBVIOUS
    <3>2. v \in Active /\ v \in Unit /\ save[u] < save[v]
      BY <1>1, <1>6, <3>1 DEF CallersBelow, Active
    <3>3. QED
      BY <1>1, <3>2 DEF Stacked, TxTypeOK
  <2>2. QED
    BY <1>6, <2>1 DEF CallersBelow
<1>9. QED
  BY <1>1, <1>3, <1>4, <1>5, <1>6, <1>7, <1>8

\* A call that enters its body is the new top.
LEMMA PushFacts ==
  ASSUME TxTypeOK, Stacked, CallersBelow, NEW u \in Unit, NEW n \in Nat,
         MayCall(u), Push(u, n),
         top = NoUnit => n = 0, top # NoUnit => n > seq,
         seq' \in Nat, seq =< seq', n =< seq'
  PROVE  /\ top' = u /\ u \notin Active /\ Active' = Active \cup {u}
         /\ caller' \in [Unit -> Unit \cup {NoUnit}]
         /\ save' \in [Unit -> Nat]
         /\ at' \in [Unit -> {"idle", "body", "raised", "committed", "over"}]
         /\ at'[u] = "body" /\ save'[u] = n
         /\ \A v \in Unit : v # u => at'[v] = at[v] /\ save'[v] = save[v]
         /\ Stacked' /\ CallersBelow'
<1> USE UnitAssumption
<1>1. /\ top' = u /\ caller'[u] = top /\ at'[u] = "body" /\ save'[u] = n
      /\ \A v \in Unit : v # u =>
           at'[v] = at[v] /\ save'[v] = save[v] /\ caller'[v] = caller[v]
      /\ caller' \in [Unit -> Unit \cup {NoUnit}]
      /\ save' \in [Unit -> Nat]
      /\ at' \in [Unit -> {"idle", "body", "raised", "committed", "over"}]
  BY DEF Push, TxTypeOK
<1>2. at[u] = "idle" /\ u \notin Active /\ (top # NoUnit => at[top] = "body")
  BY DEF MayCall, Active
<1>3. Active' = Active \cup {u}
  BY <1>1 DEF Active
<1>4. \A v \in Active : v \in Unit /\ v # u /\ save[v] \in Nat /\ save[v] =< seq /\ save[v] < n
  BY <1>2 DEF Stacked, TxTypeOK, Active
<1>5. Stacked'
  <2>1. \A v \in Active' : save'[v] =< n /\ save'[v] =< seq'
    BY <1>1, <1>3, <1>4 DEF TxTypeOK
  <2>2. \A v \in Active' : v # top' => at'[v] = "body"
    BY <1>1, <1>2, <1>3, <1>4 DEF Stacked
  <2>3. \A v, w \in Active' : save'[v] = save'[w] => v = w
    BY <1>1, <1>3, <1>4 DEF Stacked
  <2>4. QED
    BY <1>1, <1>3, <2>1, <2>2, <2>3 DEF Stacked
<1>6. CallersBelow'
  <2>1. CASE top = NoUnit
    BY <1>1, <1>3, <2>1 DEF CallersBelow, Stacked
  <2>2. CASE top # NoUnit
    <3>1. top \in Active /\ \A v \in Active : save[v] =< save[top]
      BY <2>2 DEF Stacked
    <3>2. ASSUME NEW v \in Active'
          PROVE  (IF caller[v] = NoUnit THEN save[v] = 0
                  ELSE /\ caller[v] \in Active
                       /\ save[caller[v]] < save[v]
                       /\ \A w \in Active : save[w] < save[v] => save[w] =< save[caller[v]])'
      <4>1. CASE v = u
        BY <1>1, <1>3, <1>4, <2>2, <3>1, <4>1
      <4>2. CASE v # u
        <5>1. v \in Active /\ v \in Unit
          BY <1>3, <4>2 DEF Active
        <5>2. caller'[v] = caller[v] /\ save'[v] = save[v]
          BY <1>1, <4>2, <5>1
        <5>3. CASE caller[v] = NoUnit
          BY <5>1, <5>2, <5>3 DEF CallersBelow
        <5>4. CASE caller[v] # NoUnit
          <6>1. /\ caller[v] \in Active /\ save[caller[v]] < save[v]
                /\ \A w \in Active : save[w] < save[v] => save[w] =< save[caller[v]]
            BY <5>1, <5>4 DEF CallersBelow
          <6>2. save'[caller[v]] = save[caller[v]] /\ caller[v] \in Active'
            BY <1>1, <1>3, <1>4, <6>1
          <6>3. ASSUME NEW w \in Active', save'[w] < save'[v]
                PROVE  save'[w] =< save'[caller'[v]]
            <7>1. w # u
              BY <1>1, <1>4, <5>1, <5>2, <6>3
            <7>2. w \in Active /\ save'[w] = save[w]
              BY <1>1, <1>3, <1>4, <7>1
            <7>3. QED
              BY <5>2, <6>1, <6>2, <6>3, <7>2
          <6>4. QED
            BY <5>2, <5>4, <6>1, <6>2, <6>3
        <5>5. QED
          BY <5>3, <5>4
      <4>3. QED
        BY <4>1, <4>2
    <3>3. QED
      BY <3>2 DEF CallersBelow
  <2>3. QED
    BY <2>1, <2>2
<1>7. QED
  BY <1>1, <1>2, <1>3, <1>5, <1>6


\* A unit that began the transaction is alone on the stack while it is the top.
LEMMA Alone ==
  ASSUME TxTypeOK, Stacked, CallersBelow, top # NoUnit, save[top] = 0
  PROVE  Active = {top} /\ caller[top] = NoUnit
<1>1. top \in Active /\ top \in Unit
  BY DEF Stacked, TxTypeOK
<1>2. \A v \in Active : save[v] \in Nat /\ save[v] =< 0
  BY DEF Stacked, TxTypeOK, Active
<1>3. \A v \in Active : v = top
  BY <1>1, <1>2 DEF Stacked
<1>4. caller[top] = NoUnit
  BY <1>1, <1>2 DEF CallersBelow
<1>5. QED
  BY <1>1, <1>3, <1>4

LEMMA CallInv ==
  ASSUME TxInv, ~ Heedless, NEW u \in Unit, Begin(u) \/ Savepoint(u) \/ FailToBegin(u)
  PROVE  TxInv'
<1> USE UnitAssumption
<1>0. TxTypeOK /\ Stacked /\ CallersBelow /\ Connected /\ \A v \in Unit : Accounted(v)
  BY DEF TxInv
<1>1. CASE Begin(u)
  <2>1. ~ inTx /\ inTx' /\ saves' = saves /\ work' = work /\ disk' = disk
        /\ MayCall(u) /\ Push(u, 0) /\ wrote' = wrote /\ told' = told /\ seq' = seq /\ open' = open
    BY <1>1 DEF Begin
  <2>2. top = NoUnit /\ Active = {} /\ DOMAIN saves = {} /\ work = disk
    BY <1>0, <2>1 DEF Connected, MayCall, Stacked
  <2>3. /\ top' = u /\ u \notin Active /\ Active' = Active \cup {u}
        /\ caller' \in [Unit -> Unit \cup {NoUnit}]
        /\ save' \in [Unit -> Nat]
        /\ at' \in [Unit -> {"idle", "body", "raised", "committed", "over"}]
        /\ at'[u] = "body" /\ save'[u] = 0
        /\ \A v \in Unit : v # u => at'[v] = at[v] /\ save'[v] = save[v]
        /\ Stacked' /\ CallersBelow'
    BY <1>0, <2>1, <2>2, PushFacts DEF TxTypeOK
  <2>4. TxTypeOK'
    BY <1>0, <2>1, <2>3 DEF TxTypeOK
  <2>5. Connected'
    BY <2>1, <2>2, <2>3 DEF Connected
  <2>6. ASSUME NEW v \in Unit
        PROVE  Accounted(v)'
    <3>1. CASE v = u
      <4>1. wrote[u] = {} /\ told[u] = "none" /\ Holds(disk, u) = {} /\ Holds(work, u) = {}
        BY <1>0, <2>1 DEF Accounted, MayCall
      <4>2. QED
        BY <2>1, <2>2, <2>3, <3>1, <4>1 DEF Accounted, Holds
    <3>2. CASE v # u
      <4>1. v \notin Active /\ v \notin Active' /\ at'[v] = at[v] /\ at[v] # "body"
        BY <2>2, <2>3, <3>2 DEF Active
      <4>2. QED
        BY <1>0, <2>1, <2>2, <4>1 DEF Accounted, Holds, Whole
    <3>3. QED
      BY <3>1, <3>2
  <2>7. QED
    BY <2>3, <2>4, <2>5, <2>6 DEF TxInv
<1>2. CASE Savepoint(u)
  <2>1. /\ inTx /\ inTx' /\ work' = work /\ disk' = disk /\ open' = open
        /\ DOMAIN saves' = DOMAIN saves \cup {seq + 1}
        /\ saves'[seq + 1] = work
        /\ MayCall(u) /\ Push(u, seq + 1) /\ wrote' = wrote /\ told' = told /\ seq' = seq + 1
        /\ saves' = [m \in DOMAIN saves \cup {seq + 1} |-> IF m = seq + 1 THEN work ELSE saves[m]]
    BY <1>2 DEF Savepoint
  <2>2. /\ top # NoUnit /\ seq \in Nat /\ DOMAIN saves \subseteq 1 .. seq
        /\ \A n \in DOMAIN saves : saves'[n] = saves[n] /\ n =< seq /\ n \in Nat
    BY <1>0, <2>1 DEF Connected, TxTypeOK
  <2>3. /\ top' = u /\ u \notin Active /\ Active' = Active \cup {u}
        /\ caller' \in [Unit -> Unit \cup {NoUnit}]
        /\ save' \in [Unit -> Nat]
        /\ at' \in [Unit -> {"idle", "body", "raised", "committed", "over"}]
        /\ at'[u] = "body" /\ save'[u] = seq + 1
        /\ \A v \in Unit : v # u => at'[v] = at[v] /\ save'[v] = save[v]
        /\ Stacked' /\ CallersBelow'
    <3>1. seq + 1 \in Nat /\ seq + 1 > seq /\ seq =< seq + 1
      BY <2>2
    <3>2. QED
      BY <1>0, <2>1, <2>2, <3>1, PushFacts
  <2>4. TxTypeOK'
    <3>1. DOMAIN saves' \subseteq 1 .. seq' /\ saves' \in [DOMAIN saves' -> SUBSET AllRows]
      BY <1>0, <2>1, <2>2 DEF TxTypeOK
    <3>2. QED
      BY <1>0, <2>1, <2>2, <2>3, <3>1 DEF TxTypeOK
  <2>5. Connected'
    <3>1. ASSUME NEW n \in Nat
          PROVE  n \in DOMAIN saves' <=> n # 0 /\ \E v \in Active' : save'[v] = n
      <4>1. CASE n = seq + 1
        BY <2>1, <2>2, <2>3, <4>1
      <4>2. CASE n # seq + 1
        <5>1. n \in DOMAIN saves' <=> n \in DOMAIN saves
          BY <2>1, <4>2
        <5>2. (\E v \in Active' : save'[v] = n) <=> (\E v \in Active : save[v] = n)
          BY <2>3, <4>2 DEF Active
        <5>3. QED
          BY <1>0, <2>1, <5>1, <5>2 DEF Connected
      <4>3. QED
        BY <4>1, <4>2
    <3>2. QED
      BY <2>1, <2>3, <3>1 DEF Connected
  <2>6. ASSUME NEW v \in Unit
        PROVE  Accounted(v)'
    <3>1. CASE v = u
      <4>1. wrote[u] = {} /\ told[u] = "none" /\ Holds(disk, u) = {} /\ Holds(work, u) = {}
            /\ \A n \in DOMAIN saves : Holds(saves[n], u) = {}
        BY <1>0, <2>1 DEF Accounted, MayCall
      <4>2. \A n \in DOMAIN saves' : Holds(saves'[n], u) = {}
        BY <2>1, <2>2, <4>1
      <4>3. QED
        BY <2>1, <2>2, <2>3, <3>1, <4>1, <4>2 DEF Accounted, Holds
    <3>2. CASE v # u
      <4>1. at'[v] = at[v] /\ save'[v] = save[v] /\ (v \in Active' <=> v \in Active)
        BY <2>3, <3>2
      <4>2. v \in Active => at[v] = "body" /\ save[v] =< seq /\ save[v] \in Nat
        BY <1>0, <2>1, <2>2 DEF Stacked, MayCall, TxTypeOK
      <4>3. v \in Active => Holds(work, v) = wrote[v]
        BY <1>0, <2>1, <4>2 DEF Accounted
      <4>4. v \in Active => \A n \in DOMAIN saves' :
              Holds(saves'[n], v) = IF n =< save[v] THEN {} ELSE wrote[v]
        <5>1. SUFFICES ASSUME v \in Active, NEW n \in DOMAIN saves'
                       PROVE  Holds(saves'[n], v) = IF n =< save[v] THEN {} ELSE wrote[v]
          OBVIOUS
        <5>2. CASE n = seq + 1
          <6>1. ~ (n =< save[v])
            BY <2>2, <4>2, <5>1, <5>2
          <6>2. QED
            BY <2>1, <4>3, <5>1, <5>2, <6>1
        <5>3. CASE n # seq + 1
          BY <1>0, <2>1, <2>2, <5>1, <5>3 DEF Accounted
        <5>4. QED
          BY <5>2, <5>3
      <4>5. \A n \in DOMAIN saves' : Holds(saves'[n], v) \subseteq wrote[v]
        BY <1>0, <2>1, <2>2 DEF Accounted
      <4>6. at[v] = "over" => \A n \in DOMAIN saves' : Whole(saves'[n], v)
        BY <1>0, <2>1, <2>2 DEF Accounted
      <4>7. QED
        BY <1>0, <2>1, <4>1, <4>4, <4>5, <4>6 DEF Accounted, Whole
    <3>3. QED
      BY <3>1, <3>2
  <2>7. QED
    BY <2>3, <2>4, <2>5, <2>6 DEF TxInv
<1>3. CASE FailToBegin(u)
  <2>1. PICK a \in {"raised"} \cup (IF inTx' THEN {"body"} ELSE {}) : Return(u, top, "error", a)
    BY <1>3 DEF FailToBegin, Raise
  <2>2. /\ MayCall(u) /\ UNCHANGED <<connection, seq, caller, save, wrote>>
        /\ disk' = disk /\ work' = work /\ saves' = saves /\ inTx' = inTx /\ open' = open
        /\ a = "raised" \/ (a = "body" /\ inTx)
    BY <1>3, <2>1 DEF FailToBegin, connection
  <2>3. /\ top' = top /\ at[u] = "idle" /\ top # u
        /\ at'[u] = "over" /\ told'[u] = "error"
        /\ \A v \in Unit : v # u => told'[v] = told[v]
        /\ \A v \in Unit : v # u /\ v # top => at'[v] = at[v]
        /\ top # NoUnit => at[top] = "body" /\ at'[top] = a
        /\ at' \in [Unit -> {"idle", "body", "raised", "committed", "over"}]
        /\ told' \in [Unit -> {"none", "ok", "error"}]
    BY <1>0, <2>1, <2>2 DEF Return, MayCall, TxTypeOK
  <2>4. Active' = Active /\ u \notin Active
    BY <1>0, <2>2, <2>3 DEF Active, TxTypeOK
  <2>5. Stacked' /\ CallersBelow'
    <3>1. \A v \in Active : v # u /\ v \in Unit
      BY <2>3 DEF Active
    <3>2. Stacked'
      BY <1>0, <2>2, <2>3, <2>4, <3>1 DEF Stacked
    <3>3. CallersBelow'
      BY <1>0, <2>2, <2>4 DEF CallersBelow
    <3>4. QED
      BY <3>2, <3>3
  <2>6. Connected'
    BY <1>0, <2>2, <2>3, <2>4 DEF Connected
  <2>7. TxTypeOK'
    BY <1>0, <2>2, <2>3 DEF TxTypeOK
  <2>8. ASSUME NEW v \in Unit
        PROVE  Accounted(v)'
    <3>1. CASE v = u
      <4>1. /\ wrote[u] = {} /\ Holds(disk, u) = {} /\ Holds(work, u) = {}
            /\ \A n \in DOMAIN saves : Holds(saves[n], u) = {}
        BY <1>0, <2>3 DEF Accounted
      <4>2. QED
        BY <2>2, <2>3, <2>4, <3>1, <4>1 DEF Accounted, Whole, Holds
    <3>2. CASE v # u /\ v = top
      BY <1>0, <2>2, <2>3, <2>4, <3>2 DEF Accounted, Whole, Holds
    <3>3. CASE v # u /\ v # top
      BY <1>0, <2>2, <2>3, <2>4, <3>3 DEF Accounted, Whole, Holds
    <3>4. QED
      BY <3>1, <3>2, <3>3
  <2>9. QED
    BY <2>5, <2>6, <2>7, <2>8 DEF TxInv
<1>4. QED
  BY <1>1, <1>2, <1>3


LEMMA NoSavepoints ==
  ASSUME NEW s, s = [n \in {} |-> {}], NEW k
  PROVE  DOMAIN s = {} /\ DOMAIN s \subseteq 1 .. k /\ s \in [DOMAIN s -> SUBSET AllRows]
<1>1. DOMAIN s = {}
  OBVIOUS
<1>2. s \in [{} -> SUBSET AllRows]
  OBVIOUS
<1>3. QED
  BY <1>1, <1>2

\* What changes of the stack while a unit stays the top is where that unit is.
LEMMA InPlace ==
  ASSUME TxTypeOK, Stacked, CallersBelow, NEW u \in Unit, u = top,
         NEW x \in {"body", "raised", "committed"},
         at' = [at EXCEPT ![u] = x], UNCHANGED <<seq, top, caller, save>>
  PROVE  /\ Stacked' /\ CallersBelow' /\ Active' = Active /\ u \in Active
         /\ at' \in [Unit -> {"idle", "body", "raised", "committed", "over"}]
         /\ at'[u] = x /\ \A v \in Unit : v # u => at'[v] = at[v]
<1> USE UnitAssumption
<1>1. at'[u] = x /\ \A v \in Unit : v # u => at'[v] = at[v]
  BY DEF TxTypeOK
<1>2. u \in Active /\ Active' = Active
  BY <1>1 DEF Stacked, Active
<1>3. \A v \in Active : v \in Unit
  BY DEF Active
<1>4. Stacked'
  BY <1>1, <1>2, <1>3 DEF Stacked
<1>5. CallersBelow'
  BY <1>2 DEF CallersBelow
<1>6. QED
  BY <1>1, <1>2, <1>4, <1>5 DEF TxTypeOK

LEMMA BodyInv ==
  ASSUME TxInv, NEW u \in Unit, InBody(u),
         \/ Throw(u) \/ Abandon(u) \/ Commit(u) \/ FailToCommit(u)
         \/ \E r \in AllRows : Write(u, r)
  PROVE  TxInv'
<1> USE UnitAssumption
<1>0. /\ TxTypeOK /\ Stacked /\ CallersBelow /\ Connected /\ \A v \in Unit : Accounted(v)
      /\ u = top /\ u # NoUnit /\ at[u] = "body" /\ inTx /\ u \in Active
  BY DEF TxInv, InBody, Connected, Active
<1>r. ASSUME at' = [at EXCEPT ![u] = "raised"], UNCHANGED <<seq, top, caller, save>>,
             UNCHANGED <<disk, open, wrote, told>>, RolledBack \/ UNCHANGED <<inTx, work, saves>>
      PROVE  TxInv'
  <2>1. /\ Stacked' /\ CallersBelow' /\ Active' = Active
        /\ at' \in [Unit -> {"idle", "body", "raised", "committed", "over"}]
        /\ at'[u] = "raised" /\ \A v \in Unit : v # u => at'[v] = at[v]
    BY <1>0, <1>r, InPlace
  <2>2. CASE RolledBack
    <3>1. inTx' = FALSE /\ work' = disk /\ saves' = [n \in {} |-> {}] /\ DOMAIN saves' = {}
      BY <2>2 DEF RolledBack
    <3>t. DOMAIN saves' \subseteq 1 .. seq' /\ saves' \in [DOMAIN saves' -> SUBSET AllRows]
      BY <3>1, NoSavepoints
    <3>2. TxTypeOK' /\ Connected'
      <4>1. TxTypeOK'
        BY <1>0, <1>r, <2>1, <3>1, <3>t DEF TxTypeOK
      <4>2. Connected'
        BY <1>0, <1>r, <2>1, <3>1 DEF Connected
      <4>3. QED
        BY <4>1, <4>2
    <3>3. ASSUME NEW v \in Unit
          PROVE  Accounted(v)'
      <4>1. CASE v = u
        BY <1>0, <1>r, <2>1, <3>1, <4>1 DEF Accounted, Whole, Holds
      <4>2. CASE v # u
        BY <1>0, <1>r, <2>1, <3>1, <4>2 DEF Accounted, Whole, Holds
      <4>3. QED
        BY <4>1, <4>2
    <3>4. QED
      BY <2>1, <3>2, <3>3 DEF TxInv
  <2>3. CASE UNCHANGED <<inTx, work, saves>>
    <3>1. TxTypeOK' /\ Connected'
      BY <1>0, <1>r, <2>1, <2>3 DEF TxTypeOK, Connected
    <3>2. ASSUME NEW v \in Unit
          PROVE  Accounted(v)'
      <4>1. CASE v = u
        BY <1>0, <1>r, <2>1, <2>3, <4>1 DEF Accounted, Whole, Holds
      <4>2. CASE v # u
        BY <1>0, <1>r, <2>1, <2>3, <4>2 DEF Accounted, Whole, Holds
      <4>3. QED
        BY <4>1, <4>2
    <3>3. QED
      BY <2>1, <3>1, <3>2 DEF TxInv
  <2>4. QED
    BY <1>r, <2>2, <2>3
<1>1. CASE Throw(u)
  BY <1>1, <1>r DEF Throw, RaisedIn, connection
<1>2. CASE Abandon(u)
  BY <1>2, <1>r DEF Abandon, RaisedIn
<1>3. CASE FailToCommit(u)
  BY <1>3, <1>r DEF FailToCommit, RaisedIn
<1>4. CASE Commit(u)
  <2>1. /\ disk' = work /\ work' = work /\ inTx' = FALSE /\ saves' = [n \in {} |-> {}] /\ DOMAIN saves' = {}
        /\ save[u] = 0 /\ at' = [at EXCEPT ![u] = "committed"]
        /\ UNCHANGED <<open, seq, top, caller, save, wrote, told>>
    BY <1>4 DEF Commit
  <2>2. /\ Stacked' /\ CallersBelow' /\ Active' = Active
        /\ at' \in [Unit -> {"idle", "body", "raised", "committed", "over"}]
        /\ at'[u] = "committed" /\ \A v \in Unit : v # u => at'[v] = at[v]
    BY <1>0, <2>1, InPlace
  <2>3. Active = {u}
    BY <1>0, <2>1, Alone
  <2>t. DOMAIN saves' \subseteq 1 .. seq' /\ saves' \in [DOMAIN saves' -> SUBSET AllRows]
    BY <2>1, NoSavepoints
  <2>4. TxTypeOK' /\ Connected'
    <3>1. TxTypeOK'
      BY <1>0, <2>1, <2>2, <2>t DEF TxTypeOK
    <3>2. Connected'
      BY <1>0, <2>1, <2>2 DEF Connected
    <3>3. QED
      BY <3>1, <3>2
  <2>5. ASSUME NEW v \in Unit
        PROVE  Accounted(v)'
    <3>1. CASE v = u
      BY <1>0, <2>1, <2>2, <3>1 DEF Accounted, Whole, Holds
    <3>2. CASE v # u
      <4>1. v \notin Active /\ at[v] \in {"idle", "over"} /\ at'[v] = at[v]
        BY <1>0, <2>2, <2>3, <3>2 DEF Active, TxTypeOK
      <4>2. QED
        BY <1>0, <2>1, <2>2, <4>1 DEF Accounted, Whole, Holds
    <3>3. QED
      BY <3>1, <3>2
  <2>6. QED
    BY <2>2, <2>4, <2>5 DEF TxInv
<1>5. ASSUME NEW r \in AllRows, Write(u, r)
      PROVE  TxInv'
  <2>1. /\ work' = work \cup {r} /\ disk' = disk /\ inTx' /\ saves' = saves
        /\ r \in Rows(u) /\ wrote' = [wrote EXCEPT ![u] = @ \cup {r}]
        /\ UNCHANGED <<open, seq, top, caller, at, save, told>>
    BY <1>0, <1>5 DEF Write, frames
  <2>2. /\ Stacked' /\ CallersBelow' /\ Active' = Active /\ Connected'
    BY <1>0, <2>1 DEF Stacked, CallersBelow, Active, Connected
  <2>3. TxTypeOK'
    BY <1>0, <2>1 DEF TxTypeOK
  <2>4. ASSUME NEW v \in Unit
        PROVE  Accounted(v)'
    <3>1. CASE v = u
      <4>1. wrote'[u] = wrote[u] \cup {r} /\ Holds(work', u) = Holds(work, u) \cup {r}
        BY <2>1 DEF TxTypeOK, Holds, TxInv
      <4>2. \A n \in DOMAIN saves : n =< save[u]
        <5>1. SUFFICES ASSUME NEW n \in DOMAIN saves PROVE n =< save[u]
          OBVIOUS
        <5>2. n \in Nat
          BY <1>0 DEF TxTypeOK
        <5>3. \E w \in Active : save[w] = n
          BY <1>0, <5>2 DEF Connected
        <5>4. QED
          BY <1>0, <5>3 DEF Stacked
      <4>3. QED
        BY <1>0, <2>1, <2>2, <3>1, <4>1, <4>2 DEF Accounted, Holds
    <3>2. CASE v # u
      <4>1. wrote'[v] = wrote[v] /\ Holds(work', v) = Holds(work, v)
        BY <1>0, <2>1, <3>2, RowsApart DEF TxTypeOK, Holds
      <4>2. QED
        BY <1>0, <2>1, <2>2, <4>1 DEF Accounted, Whole, Holds
    <3>3. QED
      BY <3>1, <3>2
  <2>5. QED
    BY <2>2, <2>3, <2>4 DEF TxInv
<1>6. QED
  BY <1>1, <1>2, <1>3, <1>4, <1>5


LEMMA ReturnInv ==
  ASSUME TxInv, ~ Heedless, NEW u \in Unit,
         Leave(u) \/ Rollback(u) \/ CloseHandle(u) \/ Release(u) \/ RollbackTo(u)
  PROVE  TxInv'
<1> USE UnitAssumption
<1>0. /\ TxTypeOK /\ Stacked /\ CallersBelow /\ Connected /\ \A v \in Unit : Accounted(v)
      /\ u = top /\ u # NoUnit /\ u \in Active
  <2>1. u = top
    BY DEF Leave, Rollback, CloseHandle, Release, RollbackTo, AtEnd, InBody
  <2>2. QED
    BY <2>1 DEF TxInv, Stacked
<1> DEFINE c == caller[u]
<1>f. ASSUME NEW result \in {"ok", "error"}, NEW a \in {"body", "raised"},
             Return(u, c, result, a), UNCHANGED <<seq, caller, save>>
      PROVE  /\ top' \in Unit \cup {NoUnit} /\ top' = c
             /\ at' \in [Unit -> {"idle", "body", "raised", "committed", "over"}]
             /\ told' \in [Unit -> {"none", "ok", "error"}]
             /\ u \in Active /\ u \notin Active' /\ u # c
             /\ Active' = Active \ {u}
             /\ at'[u] = "over" /\ told'[u] = result
             /\ \A v \in Unit : v # u => told'[v] = told[v]
             /\ \A v \in Unit : v # u /\ v # c => at'[v] = at[v]
             /\ c # NoUnit => at[c] = "body" /\ at'[c] = a
             /\ Stacked' /\ CallersBelow'
  BY <1>0, <1>f, ReturnFacts DEF Return
\* A unit that began the transaction leaves the stack empty.
<1>o. ASSUME NEW result \in {"ok", "error"}, NEW a \in {"body", "raised"},
             Return(u, c, result, a), UNCHANGED <<seq, caller, save>>,
             save[u] = 0, UNCHANGED <<disk, wrote>>, inTx' = FALSE, work' = disk,
             saves' = [n \in {} |-> {}], open' \in BOOLEAN,
             IF result = "ok" THEN at[u] = "committed" ELSE at[u] = "raised"
      PROVE  TxInv'
  <2>1. Active = {u} /\ c = NoUnit
    BY <1>0, <1>o, Alone
  <2>2. /\ top' = NoUnit /\ Active' = {} /\ Stacked' /\ CallersBelow'
        /\ at' \in [Unit -> {"idle", "body", "raised", "committed", "over"}]
        /\ told' \in [Unit -> {"none", "ok", "error"}]
        /\ at'[u] = "over" /\ told'[u] = result
        /\ \A v \in Unit : v # u => told'[v] = told[v] /\ at'[v] = at[v]
    BY <1>f, <1>o, <2>1
  <2>3. DOMAIN saves' = {}
    BY <1>o
  <2>t. DOMAIN saves' \subseteq 1 .. seq' /\ saves' \in [DOMAIN saves' -> SUBSET AllRows]
    BY <1>o, NoSavepoints
  <2>4. TxTypeOK' /\ Connected'
    <3>1. TxTypeOK'
      BY <1>0, <1>o, <2>2, <2>t DEF TxTypeOK
    <3>2. Connected'
      BY <1>0, <1>o, <2>2, <2>3 DEF Connected
    <3>3. QED
      BY <3>1, <3>2
  <2>5. ASSUME NEW v \in Unit
        PROVE  Accounted(v)'
    <3>1. CASE v = u
      BY <1>0, <1>o, <2>2, <2>3, <3>1 DEF Accounted, Whole, Holds
    <3>2. CASE v # u
      <4>1. at[v] \in {"idle", "over"}
        BY <1>0, <2>1, <3>2 DEF Active, TxTypeOK
      <4>2. QED
        BY <1>0, <1>o, <2>2, <2>3, <3>2, <4>1 DEF Accounted, Whole, Holds
    <3>3. QED
      BY <3>1, <3>2
  <2>6. QED
    BY <2>2, <2>4, <2>5 DEF TxInv
<1>1. CASE Leave(u)
  <2>1. /\ at[u] = "committed" /\ Return(u, c, "ok", "body")
        /\ UNCHANGED <<disk, work, inTx, open, saves, seq, caller, save, wrote>>
    BY <1>1 DEF Leave, connection
  <2>2. save[u] = 0 /\ ~ inTx /\ work = disk /\ DOMAIN saves = {}
    BY <1>0, <2>1 DEF Connected
  <2>3. saves = [n \in {} |-> {}]
    BY <1>0, <2>2 DEF TxTypeOK
  <2>4. QED
    BY <1>0, <1>o, <2>1, <2>2, <2>3 DEF TxTypeOK
<1>2. CASE Rollback(u) \/ CloseHandle(u)
  <2>1. PICK a \in {"body", "raised"} : Return(u, c, "error", a)
    BY <1>2 DEF Rollback, CloseHandle, Raise
  <2>2. /\ at[u] = "raised" /\ save[u] = 0 /\ open' \in BOOLEAN
        /\ UNCHANGED <<disk, seq, caller, save, wrote>>
    BY <1>0, <1>2 DEF Rollback, CloseHandle, TxTypeOK
  <2>3. inTx' = FALSE /\ work' = disk /\ saves' = [n \in {} |-> {}]
    <3>1. CASE inTx
      BY <1>2, <3>1 DEF Rollback, CloseHandle, RolledBack
    <3>2. CASE ~ inTx
      <4>1. UNCHANGED <<work, inTx, saves>>
        BY <1>2, <3>2 DEF Rollback, CloseHandle
      <4>2. work = disk /\ saves = [n \in {} |-> {}]
        BY <1>0, <3>2 DEF Connected, TxTypeOK
      <4>3. QED
        BY <3>2, <4>1, <4>2
    <3>3. QED
      BY <3>1, <3>2
  <2>4. QED
    BY <1>o, <2>1, <2>2, <2>3
\* A savepoint of the stack goes with its unit, and those below it stay.
<1>s. ASSUME NEW result \in {"ok", "error"}, NEW a \in {"body", "raised"},
             Return(u, c, result, a), UNCHANGED <<seq, caller, save>>,
             inTx, save[u] \in DOMAIN saves, saves' = Below(save[u]),
             inTx', UNCHANGED <<disk, open, wrote>>, work' \in SUBSET AllRows,
             \A v \in Unit : Holds(work', v) \subseteq wrote[v],
             \A v \in Unit : v \in Active /\ v # u => Holds(work', v) = wrote[v],
             \A v \in Unit : at[v] = "over" => Whole(work', v),
             Holds(work', u) = IF result = "error" THEN {} ELSE wrote[u],
             at[u] # "committed"
      PROVE  TxInv'
  <2>1. /\ top' = c /\ top' \in Unit \cup {NoUnit}
        /\ at' \in [Unit -> {"idle", "body", "raised", "committed", "over"}]
        /\ told' \in [Unit -> {"none", "ok", "error"}]
        /\ u \notin Active' /\ u # c /\ Active' = Active \ {u}
        /\ at'[u] = "over" /\ told'[u] = result
        /\ \A v \in Unit : v # u => told'[v] = told[v]
        /\ \A v \in Unit : v # u /\ v # c => at'[v] = at[v]
        /\ c # NoUnit => at[c] = "body" /\ at'[c] = a
        /\ Stacked' /\ CallersBelow'
    BY <1>f, <1>s
  <2>2. save[u] # 0 /\ save[u] \in Nat
    BY <1>0, <1>s DEF TxTypeOK
  <2>3. c # NoUnit
    BY <1>0, <2>2 DEF CallersBelow
  <2>4. /\ DOMAIN saves' = {k \in DOMAIN saves : k < save[u]}
        /\ \A n \in DOMAIN saves' : saves'[n] = saves[n] /\ n \in DOMAIN saves /\ n < save[u] /\ n \in Nat
    BY <1>0, <1>s DEF Below, TxTypeOK
  <2>5. TxTypeOK'
    <3>1. DOMAIN saves' \subseteq 1 .. seq' /\ saves' \in [DOMAIN saves' -> SUBSET AllRows]
      BY <1>0, <1>s, <2>4 DEF TxTypeOK, Below
    <3>2. QED
      BY <1>0, <1>s, <2>1, <3>1 DEF TxTypeOK
  <2>6. Connected'
    <3>1. ASSUME NEW n \in Nat
          PROVE  n \in DOMAIN saves' <=> n # 0 /\ \E v \in Active' : save[v] = n
      <4>1. (\E v \in Active' : save[v] = n) <=> (\E v \in Active : save[v] = n) /\ n < save[u]
        <5>1. \A v \in Active : save[v] \in Nat /\ save[v] =< save[u]
          BY <1>0 DEF Stacked, TxTypeOK, Active
        <5>2. \A v \in Active : v # u <=> save[v] # save[u]
          BY <1>0 DEF Stacked
        <5>3. QED
          BY <2>1, <2>2, <5>1, <5>2
      <4>2. QED
        BY <1>0, <1>s, <2>4, <4>1 DEF Connected
    <3>2. QED
      BY <1>s, <2>1, <2>3, <3>1 DEF Connected
  <2>7. ASSUME NEW v \in Unit
        PROVE  Accounted(v)'
    <3>1. CASE v = u
      <4>1. Holds(disk, u) = {} /\ \A n \in DOMAIN saves' : Holds(saves'[n], u) = {}
        BY <1>0, <1>s, <2>2, <2>4 DEF Accounted, Active
      <4>2. QED
        BY <1>0, <1>s, <2>1, <3>1, <4>1 DEF Accounted, Whole, Holds
    <3>2. CASE v # u
      <4>1. /\ v \in Active' <=> v \in Active
            /\ v \in Active => at[v] = "body"
            /\ v \notin Active => at'[v] = at[v] /\ v # c
            /\ v \in Active => at'[v] \in {"body", "raised"}
        BY <1>0, <2>1, <2>3, <3>2 DEF Stacked, Active
      <4>2. /\ at'[v] = "idle" <=> at[v] = "idle"
            /\ at'[v] = "over" <=> at[v] = "over"
            /\ at'[v] # "committed"
        BY <1>0, <2>1, <4>1 DEF Active, TxTypeOK
      <4>3. v \in Active => \A n \in DOMAIN saves' :
              Holds(saves'[n], v) = IF n =< save[v] THEN {} ELSE wrote[v]
        BY <1>0, <2>4 DEF Accounted
      <4>4. \A n \in DOMAIN saves' : /\ Holds(saves'[n], v) \subseteq wrote[v]
                                     /\ at[v] = "over" => Whole(saves'[n], v)
        BY <1>0, <2>4 DEF Accounted
      <4>5. /\ told'[v] = told[v] /\ save'[v] = save[v] /\ wrote'[v] = wrote[v] /\ disk' = disk
            /\ Holds(work', v) \subseteq wrote[v]
            /\ v \in Active => Holds(work', v) = wrote[v]
            /\ at[v] = "over" => Whole(work', v) /\ Whole(disk, v)
            /\ at[v] # "over" => told[v] = "none"
            /\ at[v] = "idle" => wrote[v] = {}
            /\ Holds(disk, v) \subseteq wrote[v]
            /\ v \in Active => Holds(disk, v) = {}
        BY <1>0, <1>s, <2>1, <3>2, <4>1 DEF Accounted
      <4>6. at'[v] \in {"body", "raised"} <=> v \in Active
        BY <4>1, <4>2 DEF Active
      <4>7. QED
        BY <4>1, <4>2, <4>3, <4>4, <4>5, <4>6 DEF Accounted, Whole
    <3>3. QED
      BY <3>1, <3>2
  <2>8. QED
    BY <2>1, <2>5, <2>6, <2>7 DEF TxInv
<1>3. CASE Release(u)
  <2>1. /\ at[u] = "body" /\ save[u] \in DOMAIN saves /\ saves' = Below(save[u])
        /\ Return(u, c, "ok", "body")
        /\ UNCHANGED <<disk, work, inTx, open, seq, caller, save, wrote>>
    BY <1>3 DEF Release, AtEnd, InBody
  <2>2. inTx
    BY <1>0, <2>1 DEF Connected
  <2>3. /\ \A v \in Unit : Holds(work, v) \subseteq wrote[v]
        /\ \A v \in Unit : v \in Active => Holds(work, v) = wrote[v]
        /\ \A v \in Unit : at[v] = "over" => Whole(work, v)
    BY <1>0, <2>1, <2>2 DEF Accounted, Stacked
  <2>4. QED
    BY <1>0, <1>s, <2>1, <2>2, <2>3 DEF TxTypeOK
<1>4. CASE RollbackTo(u)
  <2>1. /\ at[u] = "raised" /\ save[u] # 0
        /\ UNCHANGED <<disk, inTx, open, seq, caller, save, wrote>>
    BY <1>4 DEF RollbackTo
  <2>2. PICK a \in {"raised"} \cup (IF inTx' THEN {"body"} ELSE {}) : Return(u, c, "error", a)
    BY <1>4 DEF RollbackTo, Raise
  <2>3. save[u] \in Nat
    BY <1>0 DEF TxTypeOK
  <2>4. CASE inTx
    <3>1. save[u] \in DOMAIN saves
      BY <1>0, <2>1, <2>3, <2>4 DEF Connected
    <3>2. work' = saves[save[u]] /\ saves' = Below(save[u])
      BY <1>4, <3>1 DEF RollbackTo
    <3>3. \A v \in Unit : Holds(work', v) \subseteq wrote[v] /\ (at[v] = "over" => Whole(work', v))
      BY <1>0, <3>1, <3>2 DEF Accounted
    <3>4. Holds(work', u) = {}
      BY <1>0, <2>3, <3>1, <3>2 DEF Accounted
    <3>5. ASSUME NEW v \in Unit, v \in Active, v # u
          PROVE  Holds(work', v) = wrote[v]
      <4>1. save[v] \in Nat /\ ~ (save[u] =< save[v])
        BY <1>0, <2>3, <3>5 DEF Stacked, TxTypeOK
      <4>2. QED
        BY <1>0, <3>1, <3>2, <3>5, <4>1 DEF Accounted
    <3>6. work' \in SUBSET AllRows
      BY <1>0, <3>1, <3>2 DEF TxTypeOK
    <3>7. QED
      BY <1>s, <2>1, <2>2, <2>4, <3>1, <3>2, <3>3, <3>4, <3>5, <3>6
  <2>5. CASE ~ inTx
    <3>1. work' = work /\ saves' = saves /\ ~ inTx' /\ DOMAIN saves = {} /\ work = disk /\ a = "raised"
      BY <1>0, <1>4, <2>1, <2>2, <2>5 DEF RollbackTo, Connected
    <3>2. /\ top' = c /\ top' \in Unit \cup {NoUnit}
          /\ at' \in [Unit -> {"idle", "body", "raised", "committed", "over"}]
          /\ told' \in [Unit -> {"none", "ok", "error"}]
          /\ u \notin Active' /\ u # c /\ Active' = Active \ {u}
          /\ at'[u] = "over" /\ told'[u] = "error"
          /\ \A v \in Unit : v # u => told'[v] = told[v]
          /\ \A v \in Unit : v # u /\ v # c => at'[v] = at[v]
          /\ c # NoUnit => at[c] = "body" /\ at'[c] = "raised"
          /\ Stacked' /\ CallersBelow'
      BY <1>f, <2>1, <2>2, <3>1
    <3>3. TxTypeOK' /\ Connected'
      BY <1>0, <2>1, <3>1, <3>2 DEF TxTypeOK, Connected
    <3>4. ASSUME NEW v \in Unit
          PROVE  Accounted(v)'
      <4>1. CASE v = u
        BY <1>0, <2>1, <3>1, <3>2, <4>1 DEF Accounted, Whole, Holds
      <4>2. CASE v # u /\ v = c
        BY <1>0, <2>1, <3>1, <3>2, <4>2 DEF Accounted, Whole, Holds
      <4>3. CASE v # u /\ v # c
        BY <1>0, <2>1, <3>1, <3>2, <4>3 DEF Accounted, Whole, Holds
      <4>4. QED
        BY <4>1, <4>2, <4>3
    <3>5. QED
      BY <3>2, <3>3, <3>4 DEF TxInv
  <2>6. QED
    BY <2>4, <2>5
<1>5. QED
  BY <1>1, <1>2, <1>3, <1>4

LEMMA CrashInv ==
  ASSUME TxInv, Crash
  PROVE  TxInv'
<1> USE UnitAssumption
<1>0. TxTypeOK /\ \A v \in Unit : Accounted(v)
  BY DEF TxInv
<1>1. /\ inTx' = FALSE /\ work' = disk /\ saves' = [n \in {} |-> {}] /\ DOMAIN saves' = {}
      /\ open' = TRUE /\ seq' = 0 /\ top' = NoUnit
      /\ at' = [u \in Unit |-> IF u \in Active THEN "over" ELSE at[u]]
      /\ UNCHANGED <<disk, caller, save, wrote, told>>
  BY DEF Crash, RolledBack
<1>2. Active' = {} /\ at' \in [Unit -> {"idle", "body", "raised", "committed", "over"}]
  BY <1>0, <1>1 DEF Active, TxTypeOK
<1>3. TxTypeOK' /\ Stacked' /\ CallersBelow' /\ Connected'
  <2>1. DOMAIN saves' \subseteq 1 .. seq' /\ saves' \in [DOMAIN saves' -> SUBSET AllRows]
    BY <1>1, NoSavepoints
  <2>2. TxTypeOK'
    BY <1>0, <1>1, <1>2, <2>1 DEF TxTypeOK
  <2>3. Stacked' /\ CallersBelow' /\ Connected'
    BY <1>1, <1>2 DEF Stacked, CallersBelow, Connected
  <2>4. QED
    BY <2>2, <2>3
<1>4. ASSUME NEW v \in Unit
      PROVE  Accounted(v)'
  <2>1. CASE v \in Active
    BY <1>0, <1>1, <1>2, <2>1 DEF Accounted, Whole, Holds, Active
  <2>2. CASE v \notin Active
    BY <1>0, <1>1, <1>2, <2>2 DEF Accounted, Whole, Holds, Active, TxTypeOK
  <2>3. QED
    BY <2>1, <2>2
<1>5. QED
  BY <1>3, <1>4 DEF TxInv

LEMMA TxNextInv ==
  ASSUME ~ Heedless, TxInv, [TxNext]_txVars
  PROVE  TxInv'
<1>1. CASE UNCHANGED txVars
  <2>1. Active' = Active /\ UNCHANGED <<connection, frames, wrote, told>>
    BY <1>1 DEF Active, txVars, frames
  <2>2. (TxTypeOK /\ Connected)' /\ (Stacked /\ CallersBelow)'
    BY <2>1 DEF TxInv, TxTypeOK, Stacked, CallersBelow, Connected, connection, frames
  <2>3. \A u \in Unit : Accounted(u)'
    BY <2>1 DEF TxInv, Accounted, Whole, Holds, connection, frames
  <2>4. QED
    BY <2>2, <2>3 DEF TxInv
<1>2. ASSUME NEW u \in Unit, Begin(u) \/ Savepoint(u) \/ FailToBegin(u)
      PROVE  TxInv'
  BY <1>2, CallInv
<1>3. ASSUME NEW u \in Unit, Throw(u) \/ Abandon(u) \/ Commit(u) \/ FailToCommit(u)
      PROVE  TxInv'
  <2>1. InBody(u)
    BY <1>3 DEF Throw, Abandon, Commit, FailToCommit, AtEnd
  <2>2. QED
    BY <1>3, <2>1, BodyInv
<1>4. ASSUME NEW u \in Unit, NEW r \in AllRows, Write(u, r)
      PROVE  TxInv'
  <2>1. InBody(u)
    BY <1>4 DEF Write
  <2>2. QED
    BY <1>4, <2>1, BodyInv
<1>5. ASSUME NEW u \in Unit,
             Leave(u) \/ Rollback(u) \/ CloseHandle(u) \/ Release(u) \/ RollbackTo(u)
      PROVE  TxInv'
  BY <1>5, ReturnInv
<1>6. CASE Crash
  BY <1>6, CrashInv
<1>7. QED
  BY <1>1, <1>2, <1>3, <1>4, <1>5, <1>6 DEF TxNext

LEMMA TxInvariance ==
  ASSUME ~ Heedless
  PROVE  TxSpec => []TxInv
<1>1. TxInit => TxInv
  BY TxInitInv
<1>2. TxInv /\ [TxNext]_txVars => TxInv'
  BY TxNextInv
<1>3. QED
  BY <1>1, <1>2, PTL DEF TxSpec

--------------------------------------------------------------------------------
\* runTx and runSavepoint: a unit of work, nested or not, lands whole or not at all, at
\* any depth, whatever fails, if no body goes on after SQLite has ended the transaction.
THEOREM UnitsAreWhole ==
  ASSUME ~ Heedless
  PROVE  TxSpec => []UnitsLandWhole
<1>1. TxInv => UnitsLandWhole
  <2>1. SUFFICES ASSUME TxInv, NEW u \in Unit \ Active
                 PROVE  /\ disk \cap Rows(u) \in {{}, wrote[u]}
                        /\ told[u] = "error" => disk \cap Rows(u) = {}
    BY DEF UnitsLandWhole
  <2>2. Accounted(u) /\ at[u] \in {"idle", "over"}
    BY <2>1 DEF TxInv, TxTypeOK, Active
  <2>3. QED
    BY <2>2 DEF Accounted, Whole, Holds
<1>2. QED
  BY <1>1, TxInvariance, PTL

\* runTx: no transaction is left open for a later unit to join, whichever of COMMIT,
\* ROLLBACK and the statements between them fail.
THEOREM NothingLeftOpen ==
  ASSUME ~ Heedless
  PROVE  TxSpec => []NeverLeftOpen
<1>1. TxInv => NeverLeftOpen
  BY DEF TxInv, NeverLeftOpen, Connected, CallersBelow
<1>2. QED
  BY <1>1, TxInvariance, PTL

--------------------------------------------------------------------------------
(* UnitsAreAtomic: what a COMMIT makes durable is what the unit kept.          *)

\* X has every unit that was completed within a unit of X.
Inclusive(X) == \A w \in Unit : told[w] = "ok" /\ caller[w] \in X => w \in X

\* What rows of S are not durable are of units completed within those of A, or of A.
Led(S, A) ==
  \A X \in SUBSET Unit : A \subseteq X /\ Inclusive(X) =>
    \A v \in Unit : wrote[v] \subseteq S /\ ~ (wrote[v] \subseteq disk) => v \in X

Under(n) == {v \in Active : save[v] < n}

AllLed == Led(work, Active) /\ \A n \in DOMAIN saves : Led(saves[n], Under(n))

\* A unit that was completed is in S with the unit around it.
Goes(S, w) == wrote[caller[w]] # {} /\ wrote[caller[w]] \subseteq S => wrote[w] \subseteq S

Follows(w) ==
  /\ wrote[w] # {}
  /\ caller[w] # NoUnit =>
       /\ at[caller[w]] # "idle"
       /\ at[caller[w]] \in {"committed", "over"} =>
            Goes(disk, w) /\ Goes(work, w) /\ \A n \in DOMAIN saves : Goes(saves[n], w)
       /\ at[caller[w]] = "body" /\ inTx => wrote[w] \subseteq work
       /\ caller[w] \in Active =>
            \A n \in DOMAIN saves : n > save[caller[w]] => wrote[w] \subseteq saves[n]

Own(u) == wrote[u] \subseteq Rows(u) /\ (at[u] = "committed" => wrote[u] # {})

\* What is durable is in the transaction, whatever it is rolled back to.
Durable == disk \subseteq work /\ \A n \in DOMAIN saves : disk \subseteq saves[n]

KeptInv ==
  /\ \A u \in Unit : Own(u)
  /\ \A w \in Unit : told[w] = "ok" => Follows(w)
  /\ AllLed
  /\ Durable

LEMMA OwnStep ==
  ASSUME ~ Heedless, TxInv, TxNext, KeptInv, NEW w \in Unit
  PROVE  Own(w)'
<1>0. Own(w) /\ TxTypeOK /\ Stacked
  BY DEF KeptInv, TxInv
<1>1. ASSUME NEW u \in Unit, NEW r \in AllRows, Write(u, r)
      PROVE  Own(w)'
  BY <1>0, <1>1 DEF Write, InBody, frames, Own, TxTypeOK
<1>2. ASSUME NEW u \in Unit, Commit(u)
      PROVE  Own(w)'
  BY <1>0, <1>2 DEF Commit, AtEnd, Own, TxTypeOK
<1>3. ASSUME wrote' = wrote, at'[w] = "committed" => at[w] = "committed"
      PROVE  Own(w)'
  BY <1>0, <1>3 DEF Own
<1>4. ASSUME NEW u \in Unit, Begin(u) \/ Savepoint(u)
      PROVE  Own(w)'
  BY <1>0, <1>3, <1>4 DEF Begin, Savepoint, Push, TxTypeOK
<1>5. ASSUME NEW u \in Unit, FailToBegin(u)
      PROVE  Own(w)'
  BY <1>0, <1>3, <1>5 DEF FailToBegin, Raise, Return
<1>6. ASSUME NEW u \in Unit, Throw(u) \/ Abandon(u) \/ FailToCommit(u)
      PROVE  Own(w)'
  BY <1>0, <1>3, <1>6 DEF Throw, Abandon, FailToCommit, RaisedIn, TxTypeOK
<1>7. ASSUME NEW u \in Unit, Leave(u) \/ Release(u)
      PROVE  Own(w)'
  BY <1>0, <1>3, <1>7 DEF Leave, Release, Return
<1>8. ASSUME NEW u \in Unit, Rollback(u) \/ CloseHandle(u) \/ RollbackTo(u)
      PROVE  Own(w)'
  BY <1>0, <1>3, <1>8 DEF Rollback, CloseHandle, RollbackTo, Raise, Return
<1>9. CASE Crash
  BY <1>0, <1>3, <1>9 DEF Crash, Active
<1>10. QED
  BY <1>1, <1>2, <1>4, <1>5, <1>6, <1>7, <1>8, <1>9 DEF TxNext

\* What may have been durable, or in the transaction, or in a savepoint, of a unit that
\* was completed and of the unit around it.
LEMMA FollowsStep ==
  ASSUME ~ Heedless, TxInv, TxInv', TxNext, KeptInv, NEW w \in Unit, told'[w] = "ok"
  PROVE  Follows(w)'
<1> USE UnitAssumption
<1>0. /\ TxTypeOK /\ Stacked /\ CallersBelow /\ Connected /\ Accounted(w)
      /\ \A v \in Unit : Accounted(v) /\ Own(v) /\ (told[v] = "ok" => Follows(v))
  BY DEF KeptInv, TxInv
<1>p. /\ TxTypeOK' /\ Stacked' /\ Connected' /\ CallersBelow'
      /\ \A v \in Unit : Accounted(v)'
  BY DEF TxInv
<1>i. told[w] = "ok" => at[w] = "over"
  BY <1>0 DEF Accounted
\* A unit takes its place at the top of the stack.
<1>1. ASSUME NEW u \in Unit, Begin(u)
      PROVE  Follows(w)'
  <2>1. /\ at[u] = "idle" /\ told' = told /\ UNCHANGED <<disk, work, saves, wrote>>
        /\ at'[u] = "body" /\ \A v \in Unit : v # u => at'[v] = at[v] /\ save'[v] = save[v] /\ caller'[v] = caller[v]
        /\ ~ inTx
    BY <1>0, <1>1 DEF Begin, MayCall, Push, TxTypeOK
  <2>2. w # u /\ Follows(w) /\ DOMAIN saves = {} /\ Active = {} /\ work = disk
    BY <1>0, <1>i, <2>1, <1>1 DEF Begin, MayCall, Connected, Stacked
  <2>3. QED
    BY <1>0, <2>1, <2>2 DEF Follows, Goes, Active, TxTypeOK
<1>2. ASSUME NEW u \in Unit, Savepoint(u)
      PROVE  Follows(w)'
  <2>1. /\ at[u] = "idle" /\ told' = told /\ UNCHANGED <<disk, work, wrote>> /\ inTx /\ inTx'
        /\ saves' = [m \in DOMAIN saves \cup {seq + 1} |-> IF m = seq + 1 THEN work ELSE saves[m]]
        /\ at'[u] = "body" /\ \A v \in Unit : v # u => at'[v] = at[v] /\ save'[v] = save[v] /\ caller'[v] = caller[v]
    BY <1>0, <1>2 DEF Savepoint, MayCall, Push, TxTypeOK
  <2>2. w # u /\ Follows(w) /\ wrote[w] # {}
    BY <1>0, <1>i, <2>1 DEF Follows
  <2>3. CASE caller[w] = NoUnit
    BY <2>1, <2>2, <2>3 DEF Follows
  <2>4. CASE caller[w] # NoUnit
    <3> DEFINE x == caller[w]
    <3>1. x \in Unit /\ x # u /\ caller'[w] = x /\ at'[x] = at[x] /\ save'[x] = save[x] /\ at[x] # "idle"
      BY <1>0, <2>1, <2>2, <2>4 DEF Follows, TxTypeOK
    <3>2. \A n \in DOMAIN saves' : (n \in DOMAIN saves /\ saves'[n] = saves[n]) \/ saves'[n] = work
      BY <2>1
    <3>3. x \in Active => at[x] = "body"
      BY <1>0, <1>2 DEF Savepoint, MayCall, Stacked
    <3>4. x \in Active' <=> x \in Active
      BY <3>1 DEF Active
    <3>5. QED
      BY <2>1, <2>2, <2>4, <3>1, <3>2, <3>3, <3>4 DEF Follows, Goes
  <2>5. QED
    BY <2>3, <2>4
<1>3. ASSUME NEW u \in Unit, FailToBegin(u)
      PROVE  Follows(w)'
  <2>1. /\ at[u] = "idle" /\ told' = [told EXCEPT ![u] = "error"]
        /\ UNCHANGED <<disk, work, wrote, inTx, saves, caller, save>>
        /\ \A v \in Unit : v # u => at'[v] = at[v] \/ (at[v] = "body" /\ at'[v] \in {"body", "raised"})
    BY <1>0, <1>3, Zenon DEF FailToBegin, MayCall, Raise, Return, connection, TxTypeOK
  <2>2. w # u /\ told[w] = "ok" /\ Follows(w)
    BY <1>0, <1>i, <2>1 DEF TxTypeOK
  <2>3. CASE caller[w] = NoUnit
    BY <2>1, <2>2, <2>3 DEF Follows
  <2>4. CASE caller[w] # NoUnit
    <3> DEFINE x == caller[w]
    <3>1. x \in Unit /\ x # u /\ at[x] # "idle"
      BY <1>0, <2>1, <2>2, <2>4 DEF Follows, TxTypeOK
    <3>2. at'[x] = at[x] \/ (at[x] = "body" /\ at'[x] \in {"body", "raised"})
      BY <2>1, <3>1
    <3>3. QED
      BY <2>1, <2>2, <2>4, <3>1, <3>2 DEF Follows, Goes, Active
  <2>5. QED
    BY <2>3, <2>4
<1>4. ASSUME NEW u \in Unit, NEW r \in AllRows, Write(u, r)
      PROVE  Follows(w)'
  <2>1. /\ at[u] = "body" /\ u = top /\ r \in Rows(u) /\ work' = work \cup {r}
        /\ wrote' = [wrote EXCEPT ![u] = wrote[u] \cup {r}]
        /\ UNCHANGED <<inTx, saves, caller, save, at, told>>
    BY <1>4 DEF Write, InBody, frames
  <2>2. inTx /\ disk' = disk /\ w # u /\ Follows(w)
    BY <1>0, <1>i, <1>4, <2>1 DEF Write, Connected
  <2>3. CASE caller[w] = NoUnit
    BY <1>0, <2>1, <2>2, <2>3 DEF Follows, TxTypeOK
  <2>4. CASE caller[w] # NoUnit
    <3> DEFINE x == caller[w]
    <3>1. x \in Unit /\ wrote'[w] = wrote[w] /\ (x # u => wrote'[x] = wrote[x] /\ r \notin wrote[x])
      BY <1>0, <2>1, <2>2, <2>4, RowsApart DEF TxTypeOK, Own
    <3>2. QED
      BY <2>1, <2>2, <2>4, <3>1 DEF Follows, Goes, Active
  <2>5. QED
    BY <2>3, <2>4
\* A unit stays at the top of the stack, its body done.
<1>5. ASSUME NEW u \in Unit, Throw(u) \/ Abandon(u) \/ FailToCommit(u) \/ Commit(u)
      PROVE  Follows(w)'
  <2>1. /\ at[u] = "body" /\ u = top /\ UNCHANGED <<wrote, caller, save, told>>
        /\ at'[u] \in {"raised", "committed"} /\ \A v \in Unit : v # u => at'[v] = at[v]
    BY <1>0, <1>5 DEF Throw, Abandon, FailToCommit, Commit, AtEnd, InBody, RaisedIn, TxTypeOK
  <2>2. inTx /\ Follows(w)
    BY <1>0, <2>1, <1>5 DEF Connected, Stacked
  <2>3. \/ Commit(u) /\ disk' = work /\ work' = work /\ DOMAIN saves' = {} /\ at'[u] = "committed" /\ inTx' = FALSE
        \/ disk' = disk /\ at'[u] = "raised" /\ (UNCHANGED <<work, saves, inTx>> \/ (work' = disk /\ DOMAIN saves' = {} /\ inTx' = FALSE))
    BY <1>0, <1>5 DEF Throw, Abandon, FailToCommit, Commit, RolledBack, connection, RaisedIn, TxTypeOK
  <2>4. CASE caller[w] = NoUnit
    BY <2>1, <2>2, <2>4 DEF Follows
  <2>5. CASE caller[w] # NoUnit
    <3> DEFINE x == caller[w]
    <3>1. x \in Unit /\ (x \in Active' <=> x \in Active) /\ (x # u => at'[x] = at[x])
      BY <1>0, <2>1, <2>5 DEF Active, TxTypeOK
    <3>2. QED
      BY <2>1, <2>2, <2>3, <2>5, <3>1 DEF Follows, Goes
  <2>6. QED
    BY <2>4, <2>5
\* A unit leaves the stack.
<1>6. ASSUME NEW u \in Unit, Leave(u) \/ Rollback(u) \/ CloseHandle(u) \/ Release(u) \/ RollbackTo(u)
      PROVE  Follows(w)'
  <2>0. u = top /\ u # NoUnit /\ u \in Active /\ at[u] # "over"
    BY <1>0, <1>6 DEF Leave, Rollback, CloseHandle, Release, RollbackTo, AtEnd, InBody, Stacked
  <2>1. PICK result \in {"ok", "error"}, a \in {"body", "raised"} :
          /\ Return(u, caller[u], result, a) /\ UNCHANGED <<caller, save, seq, wrote, disk>>
          /\ result = "ok" <=> Leave(u) \/ Release(u)
          /\ result = "error" => at[u] = "raised"
    <3>1. CASE Leave(u) \/ Release(u)
      BY <1>0, <3>1 DEF Leave, Release, connection
    <3>2. CASE ~ (Leave(u) \/ Release(u))
      <4>1. PICK a \in {"body", "raised"} : Return(u, caller[u], "error", a)
        BY <1>6, <3>2 DEF Rollback, CloseHandle, RollbackTo, Raise
      <4>2. UNCHANGED <<caller, save, seq, wrote, disk>> /\ at[u] = "raised"
        BY <1>6, <3>2 DEF Rollback, CloseHandle, RollbackTo
      <4>3. QED
        BY <3>2, <4>1, <4>2
    <3>3. QED
      BY <3>1, <3>2
  <2>2. /\ Active' = Active \ {u} /\ at'[u] = "over" /\ told'[u] = result
        /\ \A v \in Unit : v # u => told'[v] = told[v]
        /\ \A v \in Unit : v # u /\ v # caller[u] => at'[v] = at[v]
        /\ caller[u] # NoUnit => at[caller[u]] = "body" /\ at'[caller[u]] = a
        /\ u # caller[u]
    BY <1>0, <2>0, <2>1, ReturnFacts
  <2>3. wrote'[w] # {} /\ wrote' = wrote
    BY <1>0, <1>6, <2>1, <2>2 DEF Follows, Leave, Release, Own, AtEnd
  <2>4. CASE caller[w] = NoUnit
    BY <2>1, <2>3, <2>4 DEF Follows
  \* The unit that is over is the one around w.
  <2>5. CASE caller[w] = u
    <3>1. w # u /\ Follows(w)
      BY <1>0, <2>2, <2>5
    <3>2. CASE result = "error"
      <4>1. Holds(disk', u) = {} /\ Holds(work', u) = {} /\ \A n \in DOMAIN saves' : Holds(saves'[n], u) = {}
        BY <1>p, <2>2, <3>2 DEF Accounted, Whole
      <4>2. \A S : Holds(S, u) = {} /\ wrote[u] # {} => ~ (wrote[u] \subseteq S)
        BY <1>0 DEF Holds, Own
      <4>3. QED
        BY <2>0, <2>1, <2>2, <2>3, <2>5, <4>1, <4>2, UnitAssumption DEF Follows, Goes
    <3>3. CASE Leave(u)
      BY <2>0, <2>1, <2>2, <2>3, <2>5, <3>1, <3>3 DEF Leave, connection, Follows, Goes, Active
    <3>4. CASE Release(u)
      <4>1. inTx /\ at[u] = "body" /\ work' = work /\ saves' = Below(save[u]) /\ save[u] \in Nat
        BY <1>0, <3>4 DEF Release, AtEnd, InBody, Connected, TxTypeOK
      <4>2. Holds(disk, u) = {} /\ \A n \in DOMAIN saves' : Holds(saves'[n], u) = {}
        BY <1>0, <2>0, <4>1 DEF Accounted, Below, TxTypeOK
      <4>3. \A S : Holds(S, u) = {} /\ wrote[u] # {} => ~ (wrote[u] \subseteq S)
        BY <1>0 DEF Holds, Own
      <4>4. wrote[w] \subseteq work
        BY <2>5, <3>1, <4>1, UnitAssumption DEF Follows
      <4>5. QED
        BY <2>0, <2>1, <2>2, <2>3, <2>5, <4>1, <4>2, <4>3, <4>4 DEF Follows, Goes
    <3>5. QED
      BY <2>1, <3>2, <3>3, <3>4
  \* It is another.
  <2>6. CASE caller[w] # NoUnit /\ caller[w] # u
    <3> DEFINE x == caller[w]
    <3>1. /\ x \in Unit /\ (x \in Active' <=> x \in Active) /\ x # u
          /\ at'[x] = at[x] \/ (x = caller[u] /\ at[x] = "body" /\ at'[x] \in {"body", "raised"})
      BY <1>0, <2>2, <2>6 DEF TxTypeOK
    <3>2. x \in Active => save[x] \in Nat /\ save[x] < save[u] /\ at[x] = "body"
      <4>1. x \in Active => save[x] =< save[u] /\ save[x] # save[u] /\ at[x] = "body"
        BY <1>0, <2>0, <2>6 DEF Stacked
      <4>2. QED
        BY <1>0, <3>1, <4>1 DEF TxTypeOK
    <3>3. CASE w = u
      <4>1. Release(u)
        <5>1. ASSUME Leave(u) PROVE FALSE
          BY <1>0, <2>0, <3>3, <2>6, <5>1, Alone DEF Leave, Connected
        <5>2. QED
          BY <2>1, <2>2, <3>3, <5>1
      <4>2. inTx /\ at[u] = "body" /\ work' = work /\ saves' = Below(save[u]) /\ save[u] \in Nat /\ x \in Active
        BY <1>0, <2>0, <2>6, <3>3, <4>1 DEF Release, AtEnd, InBody, Connected, TxTypeOK, CallersBelow
      <4>3. wrote[u] \subseteq work
        BY <1>0, <4>2 DEF Accounted, Holds
      <4>4. \A n \in DOMAIN saves' : n =< save[x]
        <5>1. TAKE n \in DOMAIN saves'
        <5>2. n \in DOMAIN saves /\ n < save[u] /\ n \in Nat
          BY <1>0, <4>2 DEF Below, TxTypeOK
        <5>3. PICK v \in Active : save[v] = n
          BY <1>0, <4>2, <5>2 DEF Connected
        <5>4. QED
          BY <1>0, <2>0, <2>6, <3>3, <5>2, <5>3 DEF CallersBelow
      <4>5. at'[x] \in {"body", "raised"} /\ save'[x] \in Nat /\ save'[x] = save[x]
        BY <2>1, <3>1, <3>2, <4>2
      <4>6. \A n \in DOMAIN saves' : ~ (n > save[x])
        <5>1. \A n \in DOMAIN saves' : n \in Nat
          BY <1>p DEF TxTypeOK
        <5>2. QED
          BY <4>4, <4>5, <5>1
      <4>7. QED
        BY <2>1, <2>3, <2>6, <3>3, <4>2, <4>3, <4>5, <4>6 DEF Follows
    <3>4. CASE w # u
      <4>1. told[w] = "ok" /\ Follows(w)
        BY <1>0, <2>2, <3>4
      <4>2. CASE Leave(u)
        BY <2>1, <2>3, <2>6, <3>1, <4>1, <4>2 DEF Leave, connection, Follows, Goes
      <4>3. CASE Rollback(u) \/ CloseHandle(u)
        <5>1. inTx' = FALSE /\ work' = disk /\ DOMAIN saves' = {}
          BY <1>0, <4>3 DEF Rollback, CloseHandle, RolledBack, Connected
        <5>2. QED
          BY <2>1, <2>3, <2>6, <3>1, <4>1, <5>1 DEF Follows, Goes, Active
      <4>4. CASE Release(u)
        <5>1. /\ work' = work /\ inTx' = inTx
              /\ \A n \in DOMAIN saves' : n \in DOMAIN saves /\ saves'[n] = saves[n]
          BY <4>4 DEF Release, Below
        <5>2. QED
          BY <2>1, <2>3, <2>6, <3>1, <4>1, <5>1 DEF Follows, Goes
      <4>5. CASE RollbackTo(u) /\ save[u] \in DOMAIN saves
        <5>1. /\ work' = saves[save[u]] /\ inTx' = inTx
              /\ \A n \in DOMAIN saves' : n \in DOMAIN saves /\ saves'[n] = saves[n]
          BY <4>5 DEF RollbackTo, Below
        <5>2. x \in Active => wrote[w] \subseteq saves[save[u]]
          BY <2>6, <3>2, <4>1, <4>5 DEF Follows
        <5>3. at'[x] = "body" => x \in Active
          BY <3>1 DEF Active
        <5>4. QED
          BY <2>1, <2>3, <2>6, <3>1, <4>1, <4>5, <5>1, <5>2, <5>3 DEF Follows, Goes
      <4>6. CASE RollbackTo(u) /\ save[u] \notin DOMAIN saves
        <5>1. UNCHANGED <<work, saves, inTx>>
          BY <4>6 DEF RollbackTo
        <5>2. QED
          BY <2>1, <2>3, <2>6, <3>1, <4>1, <5>1 DEF Follows, Goes
      <4>7. QED
        BY <1>6, <4>2, <4>3, <4>4, <4>5, <4>6
    <3>5. QED
      BY <3>3, <3>4
  <2>7. QED
    BY <2>4, <2>5, <2>6
<1>7. CASE Crash
  <2>1. /\ UNCHANGED <<disk, caller, save, wrote, told>> /\ work' = disk /\ DOMAIN saves' = {}
        /\ at' = [v \in Unit |-> IF v \in Active THEN "over" ELSE at[v]]
    BY <1>7 DEF Crash, RolledBack
  <2>2. Follows(w)
    BY <1>0, <2>1
  <2>3. CASE caller[w] = NoUnit
    BY <2>1, <2>2, <2>3 DEF Follows
  <2>4. CASE caller[w] # NoUnit
    <3> DEFINE x == caller[w]
    <3>1. x \in Unit /\ at[x] # "idle" /\ at'[x] = "over"
      BY <1>0, <2>1, <2>2, <2>4 DEF Follows, Active, TxTypeOK
    <3>2. Goes(disk, w)
      <4>1. CASE at[x] \in {"committed", "over"}
        BY <2>2, <2>4, <4>1 DEF Follows
      <4>2. CASE at[x] \in {"body", "raised"}
        <5>1. Holds(disk, x) = {} /\ wrote[x] \subseteq Rows(x)
          BY <1>0, <3>1, <4>2 DEF Accounted, Own
        <5>2. QED
          BY <5>1 DEF Goes, Holds
      <4>3. QED
        BY <1>0, <3>1, <4>1, <4>2 DEF TxTypeOK
    <3>3. x \notin Active'
      BY <3>1 DEF Active
    <3>4. QED
      BY <2>1, <2>2, <2>4, <3>1, <3>2, <3>3 DEF Follows, Goes
  <2>5. QED
    BY <2>3, <2>4
<1>8. QED
  BY <1>1, <1>2, <1>3, <1>4, <1>5, <1>6, <1>7 DEF TxNext

LEMMA KeptInitially == ASSUME TxInit PROVE KeptInv
<1>1. \A u \in Unit : Own(u)
  BY DEF TxInit, Own
<1>2. \A w \in Unit : told[w] # "ok"
  BY DEF TxInit
<1>3. AllLed
  BY DEF TxInit, AllLed, Led
<1>4. Durable
  BY DEF TxInit, Durable
<1>5. QED
  BY <1>1, <1>2, <1>3, <1>4 DEF KeptInv

LEMMA AllLedStep ==
  ASSUME ~ Heedless, TxInv, TxInv', TxNext, KeptInv
  PROVE  AllLed'
<1> USE UnitAssumption
<1>0. /\ TxTypeOK /\ Stacked /\ CallersBelow /\ Connected /\ AllLed
      /\ \A v \in Unit : Accounted(v) /\ Own(v)
  BY DEF KeptInv, TxInv
<1>n. \A v \in Unit : at[v] # "over" => told[v] = "none"
  BY <1>0 DEF Accounted
<1>1. CASE ~ inTx'
  <2>1. work' = disk' /\ DOMAIN saves' = {}
    BY <1>1 DEF TxInv, Connected
  <2>2. QED
    BY <2>1 DEF AllLed, Led
<1>2. CASE inTx'
  <2> SUFFICES ASSUME NEW X \in SUBSET Unit, NEW v \in Unit,
                      \A w \in Unit : told'[w] = "ok" /\ caller'[w] \in X => w \in X,
                      ~ (wrote'[v] \subseteq disk')
               PROVE  /\ Active' \subseteq X /\ wrote'[v] \subseteq work' => v \in X
                      /\ \A n \in DOMAIN saves' :
                           Under(n)' \subseteq X /\ wrote'[v] \subseteq saves'[n] => v \in X
    BY DEF AllLed, Led, Inclusive
  <2>0. Inclusive(X) /\ ~ (wrote[v] \subseteq disk) =>
          /\ Active \subseteq X /\ wrote[v] \subseteq work => v \in X
          /\ \A n \in DOMAIN saves : Under(n) \subseteq X /\ wrote[v] \subseteq saves[n] => v \in X
    BY <1>0 DEF AllLed, Led
  <2>1. ASSUME NEW u \in Unit, Begin(u)
        PROVE  work' = disk' /\ DOMAIN saves' = {}
    BY <1>0, <2>1 DEF Begin, Connected
  <2>2. ASSUME NEW u \in Unit, Savepoint(u)
        PROVE  /\ Active' \subseteq X /\ wrote'[v] \subseteq work' => v \in X
               /\ \A n \in DOMAIN saves' :
                    Under(n)' \subseteq X /\ wrote'[v] \subseteq saves'[n] => v \in X
    <3>1. /\ at[u] = "idle" /\ told' = told /\ UNCHANGED <<disk, work, wrote>> /\ inTx
          /\ saves' = [m \in DOMAIN saves \cup {seq + 1} |-> IF m = seq + 1 THEN work ELSE saves[m]]
          /\ at'[u] = "body"
          /\ \A w \in Unit : w # u => at'[w] = at[w] /\ save'[w] = save[w] /\ caller'[w] = caller[w]
      BY <1>0, <2>2 DEF Savepoint, MayCall, Push, TxTypeOK
    <3>2. Inclusive(X)
      BY <1>n, <3>1 DEF Inclusive
    <3>3. Active \subseteq Active' /\ \A w \in Active : w # u /\ w \in Unit
      BY <3>1 DEF Active
    <3>4. \A n : Under(n) \subseteq Under(n)'
      BY <3>1, <3>3 DEF Under
    <3>5. PICK k \in Nat : k = seq + 1
      BY <1>0 DEF TxTypeOK
    <3>6. ASSUME NEW w \in Active
          PROVE  w \in Under(k)'
      <4>1. w \in Unit /\ w # u /\ w \in Active'
        BY <3>3
      <4>2. save[w] \in Nat /\ save[w] =< seq /\ seq \in Nat /\ save'[w] = save[w]
        BY <1>0, <3>1, <4>1 DEF Stacked, TxTypeOK
      <4>3. save'[w] < k
        BY <3>5, <4>2
      <4>4. QED
        BY <4>1, <4>3 DEF Under
    <3>7. Active \subseteq Under(k)'
      BY <3>6
    <3>8. \A n \in DOMAIN saves' : (n \in DOMAIN saves /\ saves'[n] = saves[n]) \/ (n = k /\ saves'[n] = work)
      BY <3>1, <3>5
    <3>9. Active' \subseteq X /\ wrote'[v] \subseteq work' => v \in X
      BY <2>0, <3>1, <3>2, <3>3
    <3>10. ASSUME NEW n \in DOMAIN saves', Under(n)' \subseteq X, wrote'[v] \subseteq saves'[n]
           PROVE  v \in X
      <4>1. CASE n \in DOMAIN saves /\ saves'[n] = saves[n]
        BY <2>0, <3>1, <3>2, <3>4, <3>10, <4>1
      <4>2. CASE n = k /\ saves'[n] = work
        BY <2>0, <3>1, <3>2, <3>7, <3>10, <4>2
      <4>3. QED
        BY <3>8, <4>1, <4>2
    <3>11. QED
      BY <3>9, <3>10
  <2>3. ASSUME NEW u \in Unit, FailToBegin(u)
        PROVE  /\ Active' \subseteq X /\ wrote'[v] \subseteq work' => v \in X
               /\ \A n \in DOMAIN saves' :
                    Under(n)' \subseteq X /\ wrote'[v] \subseteq saves'[n] => v \in X
    <3>0. PICK a \in {"body", "raised"} : Return(u, top, "error", a)
      BY <2>3 DEF FailToBegin, Raise
    <3>1. /\ at[u] = "idle" /\ told' = [told EXCEPT ![u] = "error"]
          /\ UNCHANGED <<disk, work, wrote, inTx, saves, caller, save>> /\ at'[u] = "over"
          /\ \A w \in Unit : w # u => at'[w] = at[w] \/ (at[w] = "body" /\ at'[w] \in {"body", "raised"})
      BY <1>0, <2>3, <3>0 DEF FailToBegin, MayCall, Return, connection, TxTypeOK
    <3>2. Inclusive(X)
      BY <1>0, <1>n, <3>1 DEF Inclusive, TxTypeOK
    <3>3. Active' = Active
      BY <3>1 DEF Active
    <3>4. \A n : Under(n)' = Under(n)
      BY <3>1, <3>3 DEF Under
    <3>5. QED
      BY <2>0, <3>1, <3>2, <3>3, <3>4
  <2>4. ASSUME NEW u \in Unit, NEW r \in AllRows, Write(u, r)
        PROVE  /\ Active' \subseteq X /\ wrote'[v] \subseteq work' => v \in X
               /\ \A n \in DOMAIN saves' :
                    Under(n)' \subseteq X /\ wrote'[v] \subseteq saves'[n] => v \in X
    <3>1. /\ at[u] = "body" /\ r \in Rows(u) /\ work' = work \cup {r}
          /\ wrote' = [wrote EXCEPT ![u] = wrote[u] \cup {r}]
          /\ UNCHANGED <<inTx, saves, caller, save, at, told>> /\ disk' = disk
      BY <1>2, <2>4 DEF Write, InBody, frames
    <3>2. Inclusive(X) /\ Active' = Active /\ u \in Active /\ \A n : Under(n)' = Under(n)
      BY <3>1 DEF Inclusive, Active, Under
    <3>3. CASE v # u
      <4>1. r \notin wrote[v] /\ wrote'[v] = wrote[v]
        BY <1>0, <3>1, <3>3, RowsApart DEF Own, TxTypeOK
      <4>2. QED
        BY <2>0, <3>1, <3>2, <4>1
    <3>4. CASE v = u
      <4>1. r \in wrote'[u]
        BY <1>0, <3>1 DEF TxTypeOK
      <4>2. \A n \in DOMAIN saves : n =< save[u] => r \notin saves[n]
        BY <1>0, <3>1, <3>2 DEF Accounted, Holds
      <4>3. \A n \in DOMAIN saves : ~ (n =< save[u]) => u \in Under(n)
        BY <1>0, <3>2 DEF Under, TxTypeOK
      <4>4. QED
        BY <3>1, <3>2, <3>4, <4>1, <4>2, <4>3
    <3>5. QED
      BY <3>3, <3>4
  <2>5. ASSUME NEW u \in Unit, Throw(u) \/ FailToCommit(u)
        PROVE  /\ Active' \subseteq X /\ wrote'[v] \subseteq work' => v \in X
               /\ \A n \in DOMAIN saves' :
                    Under(n)' \subseteq X /\ wrote'[v] \subseteq saves'[n] => v \in X
    <3>1. /\ at[u] = "body" /\ UNCHANGED <<disk, work, wrote, saves, caller, save, told>>
          /\ at' = [at EXCEPT ![u] = "raised"]
      BY <1>2, <2>5 DEF Throw, FailToCommit, AtEnd, InBody, RaisedIn, RolledBack, connection
    <3>2. Inclusive(X) /\ Active' = Active
      BY <1>0, <3>1 DEF Inclusive, Active, TxTypeOK
    <3>3. \A n : Under(n)' = Under(n)
      BY <3>1, <3>2 DEF Under
    <3>4. QED
      BY <2>0, <3>1, <3>2, <3>3
  <2>6. ASSUME NEW u \in Unit, Release(u) \/ RollbackTo(u)
        PROVE  /\ Active' \subseteq X /\ wrote'[v] \subseteq work' => v \in X
               /\ \A n \in DOMAIN saves' :
                    Under(n)' \subseteq X /\ wrote'[v] \subseteq saves'[n] => v \in X
    <3>1. PICK result \in {"ok", "error"}, a \in {"body", "raised"} :
            /\ Return(u, caller[u], result, a)
            /\ Release(u) => result = "ok"
      <4>1. CASE Release(u)
        BY <4>1 DEF Release
      <4>2. CASE ~ Release(u)
        BY <2>6, <4>2 DEF RollbackTo, Raise
      <4>3. QED
        BY <4>1, <4>2
    <3>2. /\ u = top /\ UNCHANGED <<disk, wrote, caller, save, seq>> /\ inTx
          /\ save[u] \in Nat /\ save[u] # 0 /\ u \in Active /\ at[u] # "over"
      <4>1. u = top /\ UNCHANGED <<disk, wrote, caller, save, seq>> /\ inTx
        BY <1>2, <2>6 DEF Release, RollbackTo, AtEnd, InBody
      <4>2. save[u] \in Nat /\ save[u] # 0
        BY <1>0, <2>6 DEF Release, RollbackTo, TxTypeOK
      <4>3. u \in Active /\ at[u] # "over"
        BY <1>0, <4>1 DEF Stacked, Active
      <4>4. QED
        BY <4>1, <4>2, <4>3
    <3>3. /\ Active' = Active \ {u} /\ told'[u] = result /\ u # caller[u]
          /\ \A w \in Unit : w # u => told'[w] = told[w]
      BY <1>0, <3>1, <3>2, ReturnFacts
    <3>4. Inclusive(X)
      BY <1>n, <3>2, <3>3 DEF Inclusive
    <3>5. save[u] \in DOMAIN saves /\ saves' = Below(save[u])
      BY <1>0, <2>6, <3>2 DEF Connected, Release, RollbackTo
    <3>6. \A n \in DOMAIN saves' : n \in DOMAIN saves /\ saves'[n] = saves[n] /\ n < save[u] /\ n \in Nat
      BY <1>0, <3>5 DEF Below, TxTypeOK
    <3>7. \A n \in DOMAIN saves' : Under(n) \subseteq Under(n)'
      BY <3>2, <3>3, <3>6 DEF Under
    <3>8. CASE Release(u)
      <4>1. caller[u] \in Active' /\ work' = work
        BY <1>0, <3>2, <3>3, <3>8 DEF CallersBelow, Release
      <4>2. Active' \subseteq X => Active \subseteq X
        BY <3>1, <3>2, <3>3, <3>8, <4>1
      <4>3. QED
        BY <2>0, <3>2, <3>4, <3>6, <3>7, <4>1, <4>2
    <3>9. CASE RollbackTo(u)
      <4>1. work' = saves[save[u]]
        BY <3>5, <3>9 DEF RollbackTo
      <4>2. Under(save[u]) \subseteq Active'
        BY <3>2, <3>3 DEF Under
      <4>3. QED
        BY <2>0, <3>2, <3>4, <3>5, <3>6, <3>7, <4>1, <4>2
    <3>10. QED
      BY <2>6, <3>8, <3>9
  <2>7. ASSUME NEW u \in Unit, Abandon(u) \/ Commit(u) \/ Leave(u) \/ Rollback(u) \/ CloseHandle(u)
        PROVE  FALSE
    BY <1>0, <1>2, <2>7 DEF Abandon, Commit, Leave, Rollback, CloseHandle, RolledBack, connection, Connected
  <2>8. ~ Crash
    BY <1>2 DEF Crash, RolledBack
  <2>9. QED
    BY <2>1, <2>2, <2>3, <2>4, <2>5, <2>6, <2>7, <2>8 DEF TxNext
<1>3. QED
  BY <1>1, <1>2

LEMMA DurableStep ==
  ASSUME ~ Heedless, TxInv, TxInv', TxNext, KeptInv
  PROVE  Durable'
<1>0. TxTypeOK /\ Connected /\ Durable
  BY DEF KeptInv, TxInv
<1>1. CASE ~ inTx'
  BY <1>1 DEF TxInv, Connected, Durable
<1>2. CASE inTx'
  <2>1. ASSUME NEW u \in Unit, Begin(u)
        PROVE  Durable'
    BY <1>0, <2>1 DEF Begin, Durable
  <2>2. ASSUME NEW u \in Unit, Savepoint(u)
        PROVE  Durable'
    BY <1>0, <2>2 DEF Savepoint, Durable
  <2>3. ASSUME NEW u \in Unit, FailToBegin(u)
        PROVE  Durable'
    BY <1>0, <2>3 DEF FailToBegin, connection, Durable
  <2>4. ASSUME NEW u \in Unit, NEW r \in AllRows, Write(u, r)
        PROVE  Durable'
    BY <1>0, <1>2, <2>4 DEF Write, Durable
  <2>5. ASSUME NEW u \in Unit, Throw(u) \/ FailToCommit(u)
        PROVE  Durable'
    BY <1>0, <1>2, <2>5 DEF Throw, FailToCommit, RolledBack, connection, Durable
  <2>6. ASSUME NEW u \in Unit, Release(u) \/ RollbackTo(u)
        PROVE  Durable'
    BY <1>0, <2>6 DEF Release, RollbackTo, Below, Durable
  <2>7. ASSUME NEW u \in Unit, Abandon(u) \/ Commit(u) \/ Leave(u) \/ Rollback(u) \/ CloseHandle(u)
        PROVE  FALSE
    BY <1>0, <1>2, <2>7 DEF Abandon, Commit, Leave, Rollback, CloseHandle, RolledBack, connection, Connected
  <2>8. ~ Crash
    BY <1>2 DEF Crash, RolledBack
  <2>9. QED
    BY <2>1, <2>2, <2>3, <2>4, <2>5, <2>6, <2>7, <2>8 DEF TxNext
<1>3. QED
  BY <1>1, <1>2

LEMMA KeptStep ==
  ASSUME ~ Heedless, TxInv, TxInv', [TxNext]_txVars, KeptInv
  PROVE  KeptInv'
<1>1. CASE TxNext
  <2>1. \A w \in Unit : Own(w)'
    BY <1>1, OwnStep
  <2>2. \A w \in Unit : told'[w] = "ok" => Follows(w)'
    BY <1>1, FollowsStep
  <2>3. AllLed' /\ Durable'
    BY <1>1, AllLedStep, DurableStep
  <2>4. QED
    BY <2>1, <2>2, <2>3 DEF KeptInv
<1>2. CASE UNCHANGED txVars
  BY <1>2 DEF txVars, connection, frames, KeptInv, Own, Follows, Goes, AllLed, Led, Inclusive,
     Under, Active, Durable
<1>3. QED
  BY <1>1, <1>2

LEMMA KeptInvariance ==
  ASSUME ~ Heedless
  PROVE  TxSpec => []KeptInv
<1>1. TxInit => KeptInv
  BY KeptInitially
<1>2. TxInv /\ TxInv' /\ KeptInv /\ [TxNext]_txVars => KeptInv'
  BY KeptStep
<1>3. QED
  BY <1>1, <1>2, TxInvariance, PTL DEF TxSpec

--------------------------------------------------------------------------------
\* The units whose work is durable.
Landed == {u \in Unit : wrote[u] # {} /\ wrote[u] \subseteq disk}

LEMMA LandedAtEnd ==
  ASSUME TxInv, KeptInv, NEW u \in Landed
  PROVE  u \in Unit /\ at[u] \in {"committed", "over"} /\ told[u] # "error"
<1>1. /\ u \in Unit /\ Accounted(u) /\ wrote[u] # {} /\ wrote[u] \subseteq disk
      /\ wrote[u] \subseteq Rows(u) /\ at[u] \in {"idle", "body", "raised", "committed", "over"}
  BY DEF TxInv, TxTypeOK, KeptInv, Own, Landed
<1>2. Holds(disk, u) # {}
  BY <1>1 DEF Holds
<1>3. QED
  BY <1>1, <1>2 DEF Accounted, Whole

\* COMMIT makes durable the rows of the unit and of what was completed within it.
LEMMA CommitLands ==
  ASSUME TxInv, KeptInv, NEW u \in Unit, Commit(u)
  PROVE  Abstract!Land(u)
<1>0. /\ TxTypeOK /\ Stacked /\ CallersBelow /\ AllLed /\ Durable
      /\ \A v \in Unit : Accounted(v) /\ Own(v) /\ (told[v] = "ok" => Follows(v))
  BY DEF TxInv, KeptInv
<1>1. /\ top = u /\ at[u] = "body" /\ wrote[u] # {} /\ save[u] = 0 /\ inTx
      /\ disk' = work /\ UNCHANGED <<caller, told, wrote>>
  BY DEF Commit, AtEnd, InBody
<1>2. Active = {u} /\ caller[u] = NoUnit /\ told[u] = "none"
  BY <1>0, <1>1, UnitAssumption, Alone DEF Accounted
<1> DEFINE In == {v \in Unit : wrote[v] # {} /\ wrote[v] \subseteq work}
<1>3. Landed' = In
  BY <1>1 DEF Landed
<1>4. Landed \subseteq In
  BY <1>0 DEF Landed, Durable
<1>5. ASSUME NEW v \in In, v \notin Landed
      PROVE  v \in Abstract!Kept(u)
  <2>1. \A X \in SUBSET Unit : u \in X /\ Inclusive(X) => v \in X
    BY <1>0, <1>2, <1>5 DEF AllLed, Led, Landed
  <2>2. QED
    BY <2>1 DEF Abstract!Kept, Inclusive
<1>6. Abstract!Kept(u) \subseteq In
  <2>1. u \in In
    BY <1>0, <1>1 DEF Accounted, Holds
  <2>2. ASSUME NEW w \in Unit, told[w] = "ok", caller[w] \in In
        PROVE  w \in In
    <3>1. /\ caller[w] \in Unit /\ caller[w] # NoUnit
          /\ wrote[caller[w]] # {} /\ wrote[caller[w]] \subseteq work /\ Follows(w)
      BY <1>0, <2>2, UnitAssumption
    <3>2. at[caller[w]] # "raised"
      BY <1>1, <1>2, <3>1 DEF Active
    <3>3. QED
      BY <1>0, <1>1, <3>1, <3>2 DEF Follows, Goes, TxTypeOK
  <2>3. QED
    BY <2>1, <2>2 DEF Abstract!Kept
<1>7. Landed' = Landed \cup Abstract!Kept(u)
  BY <1>3, <1>4, <1>5, <1>6
<1>8. QED
  BY <1>1, <1>2, <1>7 DEF Abstract!Land, Landed

LEMMA UnitStep ==
  ASSUME ~ Heedless, TxInv, TxInv', KeptInv, KeptInv', TxNext
  PROVE  [Abstract!Next]_<<caller, told, Landed>>
<1>0. /\ TxTypeOK /\ Stacked /\ CallersBelow /\ Connected
      /\ \A v \in Unit : Accounted(v) /\ Own(v) /\ (at[v] # "over" => told[v] = "none")
  BY DEF TxInv, KeptInv, Accounted
<1>a. \A v \in Landed : v \in Unit /\ at[v] \in {"committed", "over"}
  BY LandedAtEnd
<1>1. ASSUME NEW u \in Unit, Begin(u) \/ Savepoint(u)
      PROVE  Abstract!Call(u, top)
  <2>1. /\ at[u] = "idle" /\ caller' = [caller EXCEPT ![u] = top]
        /\ UNCHANGED <<disk, wrote, told>>
    BY <1>1 DEF Begin, Savepoint, MayCall, Push
  <2>2. u \notin Landed /\ told[u] = "none"
    BY <1>0, <1>a, <2>1
  <2>3. QED
    BY <2>1, <2>2 DEF Abstract!Call, Landed
<1>2. ASSUME NEW u \in Unit, FailToBegin(u) \/ Rollback(u) \/ CloseHandle(u) \/ RollbackTo(u)
      PROVE  Abstract!Fail(u)
  <2>1. /\ at[u] \in {"idle", "raised"} /\ UNCHANGED <<disk, wrote, caller>>
        /\ told' = [told EXCEPT ![u] = "error"]
    BY <1>2 DEF FailToBegin, Rollback, CloseHandle, RollbackTo, MayCall, Raise, Return, connection
  <2>2. u \notin Landed /\ told[u] = "none"
    BY <1>0, <1>a, <2>1
  <2>3. QED
    BY <2>1, <2>2 DEF Abstract!Fail, Landed
<1>3. ASSUME NEW u \in Unit, Leave(u) \/ Release(u)
      PROVE  Abstract!Succeed(u)
  <2>1. /\ at[u] # "over" /\ top = u /\ UNCHANGED <<disk, wrote, caller>>
        /\ told' = [told EXCEPT ![u] = "ok"]
    BY <1>3 DEF Leave, Release, AtEnd, InBody, Return, connection
  <2>2. caller[u] = NoUnit => u \in Landed
    <3>1. CASE Leave(u)
      BY <1>0, <3>1 DEF Leave, Accounted, Holds, Own, Landed
    <3>2. CASE Release(u)
      BY <1>0, <2>1, <3>2, UnitAssumption DEF Release, CallersBelow, Stacked, TxTypeOK
    <3>3. QED
      BY <1>3, <3>1, <3>2
  <2>3. QED
    BY <1>0, <2>1, <2>2 DEF Abstract!Succeed, Landed
<1>4. ASSUME NEW u \in Unit, Commit(u)
      PROVE  Abstract!Land(u)
  BY <1>4, CommitLands
<1>5. ASSUME NEW u \in Unit, NEW r \in AllRows, Write(u, r)
      PROVE  UNCHANGED <<caller, told, Landed>>
  <2>1. /\ at[u] = "body" /\ top = u /\ u # NoUnit /\ wrote' = [wrote EXCEPT ![u] = @ \cup {r}]
        /\ UNCHANGED <<caller, told, at>>
    BY <1>5, UnitAssumption DEF Write, InBody, frames
  <2>2. disk' = disk
    BY <1>0, <1>5, <2>1 DEF Write, Connected
  <2>3. u \notin Landed /\ u \notin Landed'
    <3>1. u \in Landed' => at'[u] # "body"
      BY DEF TxInv, Accounted, KeptInv, Own, Landed, Holds
    <3>2. QED
      BY <1>a, <2>1, <3>1
  <2>4. \A v \in Unit : v # u => wrote'[v] = wrote[v]
    BY <1>0, <2>1 DEF TxTypeOK
  <2>5. Landed' = Landed
    BY <2>2, <2>3, <2>4 DEF Landed
  <2>6. QED
    BY <2>1, <2>5
<1>6. ASSUME NEW u \in Unit, Throw(u) \/ Abandon(u) \/ FailToCommit(u)
      PROVE  UNCHANGED <<caller, told, Landed>>
  BY <1>6 DEF Throw, Abandon, FailToCommit, connection, Landed
<1>7. CASE Crash
  BY <1>7 DEF Crash, Landed
<1>8. ASSUME NEW u \in Unit, Begin(u) \/ Savepoint(u)
      PROVE  \E v \in Unit \cup {NoUnit} : Abstract!Call(u, v)
  <2>1. top \in Unit \cup {NoUnit}
    BY <1>0 DEF TxTypeOK
  <2>2. QED
    BY <1>1, <1>8, <2>1
<1>9. QED
  BY <1>2, <1>3, <1>4, <1>5, <1>6, <1>7, <1>8, Zenon DEF TxNext, Abstract!Next

\* What store.tx tells its callers agrees with what is durable at every moment: a unit
\* takes effect at one instant, with all that was completed within it, or never, so
\* StoreTx implements AtomicUnits, if no body goes on after SQLite has ended the transaction.
THEOREM UnitsImplementAtomic ==
  ASSUME ~ Heedless
  PROVE  TxSpec => UnitsAreAtomic
<1>1. TxInit => Abstract!Init
  BY DEF TxInit, Abstract!Init
<1>2. TxInv /\ TxInv' /\ KeptInv /\ KeptInv' /\ [TxNext]_txVars => [Abstract!Next]_<<caller, told, Landed>>
  <2>1. UNCHANGED txVars => UNCHANGED <<caller, told, Landed>>
    BY DEF txVars, connection, frames, Landed
  <2>2. QED
    BY <2>1, UnitStep
<1>3. QED
  BY <1>1, <1>2, TxInvariance, KeptInvariance, PTL DEF UnitsAreAtomic, TxSpec, Abstract!Spec, Landed
================================================================================
