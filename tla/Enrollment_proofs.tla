--------------------------- MODULE Enrollment_proofs ---------------------------
(***************************************************************************)
(* Proofs about Enrollment, for any calls, scopes, lifetimes and clock.    *)
(* The inductive invariant adds to the properties what a call has behind   *)
(* it at each stage: Progress, and Recorded for what the authority wrote.  *)
(***************************************************************************)
EXTENDS Enrollment, TLAPS

USE TtlAssumption, TimeAssumption, NoneAssumption

\* A request on the wire was approved and has no approval row yet; a code on its
\* way back, or in the tool call, has one.
Progress ==
  \A c \in Call :
    /\ hook[c] # "idle" /\ (hook[c] # "blocked" \/ c \in approved) => asked[c] \in Request
    /\ hook[c] \in {"idle", "dialog"} => c \notin approved
    /\ c \in wire => c \in approved /\ c \notin DOMAIN approval
    /\ c \in DOMAIN approval => c \in approved
    /\ reply[c] = "code" => c \in DOMAIN approval
    /\ hook[c] = "injected" => c \in DOMAIN approval

\* An approval row is the request of its call, with the lifetime it was granted.
Recorded ==
  \A c \in DOMAIN approval :
    /\ approval[c].scopes = asked[c].scopes
    /\ approval[c].ttl = TtlGranted(asked[c].ttl)

\* A capability comes of an approval row; a root principal of a capability.
Attested ==
  /\ \A i \in issued : rows[i].attestation \in DOMAIN approval
  /\ roots \subseteq issued

IInv == /\ TypeOK /\ Progress /\ Recorded /\ Attested
        /\ GrantsAreApproved /\ OnePerApproval /\ BurnsAreEarned /\ OneLiveRoot

--------------------------------------------------------------------------------
LEMMA TtlGrantedIsNat ==
  ASSUME NEW ttl \in Ttl \cup {None}
  PROVE  TtlGranted(ttl) \in Nat
BY DEF TtlGranted

LEMMA InitInv == Init => IInv
<1> SUFFICES ASSUME Init
             PROVE  IInv
  OBVIOUS
<1> USE DEF Init, issued
<1>1. TypeOK
  BY DEF TypeOK
<1>2. Progress
  BY DEF Progress
<1>3. Recorded /\ Attested
  BY DEF Recorded, Attested
<1>4. GrantsAreApproved /\ OnePerApproval /\ BurnsAreEarned /\ OneLiveRoot
  BY DEF GrantsAreApproved, OnePerApproval, BurnsAreEarned, OneLiveRoot, LiveRoots
<1>5. QED
  BY <1>1, <1>2, <1>3, <1>4 DEF IInv

\* What the store holds is kept by every step that leaves the store alone, keeps
\* what approved calls asked for and forgets no answer of the operator.
LEMMA StoreUnchanged ==
  ASSUME IInv, UNCHANGED store,
         \A c \in approved : asked'[c] = asked[c],
         approved \subseteq approved'
  PROVE  Recorded' /\ Attested' /\ GrantsAreApproved' /\ OnePerApproval'
         /\ BurnsAreEarned' /\ OneLiveRoot'
<1> USE DEF store, issued
<1>1. \A c \in DOMAIN approval : c \in approved
  BY DEF IInv, TypeOK, Progress
<1>2. Recorded'
  BY <1>1 DEF IInv, Recorded
<1>3. Attested' /\ OnePerApproval' /\ BurnsAreEarned' /\ OneLiveRoot'
  BY DEF IInv, Attested, OnePerApproval, BurnsAreEarned, OneLiveRoot, LiveRoots
<1>4. GrantsAreApproved'
  BY DEF IInv, GrantsAreApproved
<1>5. QED
  BY <1>2, <1>3, <1>4

--------------------------------------------------------------------------------
(* The hook's steps. *)

LEMMA HookInv ==
  ASSUME IInv, NEW c \in Call, HookStep(c)
  PROVE  IInv'
<1> USE DEF store, caller
<1>1. ASSUME NEW request \in Request, Prompt(c, request)
      PROVE  IInv'
  <2>1. TypeOK'
    BY <1>1 DEF IInv, TypeOK, Prompt, issued
  <2>2. c \notin approved
    BY <1>1 DEF IInv, Progress, Prompt
  <2>3. Progress'
    BY <1>1, <2>2 DEF IInv, TypeOK, Progress, Prompt
  <2>4. \A b \in approved : asked'[b] = asked[b]
    BY <1>1, <2>2 DEF IInv, TypeOK, Prompt
  <2>5. QED
    BY <1>1, <2>1, <2>3, <2>4, StoreUnchanged DEF IInv, Prompt
<1>2. ASSUME NEW configured \in BOOLEAN, Approve(c, configured)
      PROVE  IInv'
  <2>1. TypeOK'
    BY <1>2 DEF IInv, TypeOK, Approve, issued
  <2>2. Progress'
    BY <1>2 DEF IInv, TypeOK, Progress, Approve
  <2>3. QED
    BY <1>2, <2>1, <2>2, StoreUnchanged DEF IInv, Approve
<1>3. CASE BlockUnasked(c)
  <2>1. TypeOK' /\ Progress'
    BY <1>3 DEF IInv, TypeOK, Progress, BlockUnasked, issued
  <2>2. QED
    BY <1>3, <2>1, StoreUnchanged DEF IInv, BlockUnasked
<1>4. CASE Deny(c)
  <2>1. TypeOK' /\ Progress'
    BY <1>4 DEF IInv, TypeOK, Progress, Deny, issued
  <2>2. QED
    BY <1>4, <2>1, StoreUnchanged DEF IInv, Deny
<1>5. CASE HearReply(c)
  <2>1. TypeOK'
    BY <1>5 DEF IInv, TypeOK, HearReply, issued
  <2>2. Progress'
    BY <1>5 DEF IInv, TypeOK, Progress, HearReply
  <2>3. QED
    BY <1>5, <2>1, <2>2, StoreUnchanged DEF IInv, HearReply
<1>6. CASE GiveUp(c)
  <2>1. TypeOK' /\ Progress'
    BY <1>6 DEF IInv, TypeOK, Progress, GiveUp, issued
  <2>2. QED
    BY <1>6, <2>1, StoreUnchanged DEF IInv, GiveUp
<1>7. QED
  BY <1>1, <1>2, <1>3, <1>4, <1>5, <1>6 DEF HookStep

--------------------------------------------------------------------------------
(* The authority's answer, and the exchange. *)

LEMMA RequestInv ==
  ASSUME IInv, NEW c \in Call, HandleEnrollRequest(c)
  PROVE  IInv'
<1> DEFINE row == [scopes |-> asked[c].scopes, ttl |-> TtlGranted(asked[c].ttl),
                   codeExpires |-> clock + CodeTtl, codeSpent |-> FALSE, spent |-> FALSE]
<1>1. /\ c \in wire /\ c \in approved /\ c \notin DOMAIN approval
      /\ UNCHANGED <<clock, allowed, hook, asked, approved, roots, retired, rows>>
      /\ DOMAIN approval' = DOMAIN approval \cup {c}
      /\ approval'[c] = row
      /\ \A a \in DOMAIN approval : approval'[a] = approval[a]
  BY DEF IInv, Progress, HandleEnrollRequest, caller
<1>2. asked[c] \in Request
  BY <1>1 DEF IInv, TypeOK, Progress
<1>3. row \in Approval
  <2>1. asked[c].scopes \in Scopes /\ asked[c].ttl \in Ttl \cup {None}
    BY <1>2 DEF Request
  <2>2. clock + CodeTtl \in Nat
    BY DEF IInv, TypeOK, Time
  <2>3. QED
    BY <2>1, <2>2, TtlGrantedIsNat DEF Approval
<1>4. TypeOK'
  BY <1>1, <1>3 DEF IInv, TypeOK, HandleEnrollRequest, issued
<1>5. Progress'
  BY <1>1 DEF IInv, TypeOK, Progress, HandleEnrollRequest
<1>6. Recorded' /\ Attested' /\ GrantsAreApproved' /\ OnePerApproval' /\ OneLiveRoot'
  BY <1>1 DEF IInv, Recorded, Attested, GrantsAreApproved, OnePerApproval, OneLiveRoot,
              LiveRoots, issued
<1>7. BurnsAreEarned'
  BY <1>1 DEF IInv, Attested, BurnsAreEarned, issued
<1>8. QED
  BY <1>4, <1>5, <1>6, <1>7 DEF IInv

LEMMA RedeemInv ==
  ASSUME IInv, NEW c \in Call, NEW id \in Cap, Redeem(c, id)
  PROVE  IInv'
<1> DEFINE row == [owner |-> EnrollmentPrincipal(id), scopes |-> approval[c].scopes,
                   ttl |-> approval[c].ttl, attestation |-> c]
<1>1. /\ c \in DOMAIN approval /\ ~ approval[c].spent /\ id \notin issued
      /\ approval[c] \in Approval
      /\ UNCHANGED <<clock, allowed, hook, asked, approved, wire, reply, retired>>
  BY DEF IInv, TypeOK, Redeem, Burnable, caller
<1>2. /\ DOMAIN approval' = DOMAIN approval
      /\ \A a \in DOMAIN approval : a # c => approval'[a] = approval[a]
      /\ approval'[c] = [approval[c] EXCEPT !.codeSpent = TRUE, !.spent = TRUE]
  BY <1>1 DEF Redeem, Burn
<1>3. /\ approval'[c].scopes = approval[c].scopes
      /\ approval'[c].ttl = approval[c].ttl
      /\ approval'[c].codeSpent = TRUE /\ approval'[c].spent = TRUE
      /\ approval'[c] \in Approval
  BY <1>1, <1>2 DEF Approval
<1>4. /\ DOMAIN rows' = issued \cup {id}
      /\ rows'[id] = row
      /\ \A i \in issued : rows'[i] = rows[i]
      /\ roots' = roots \cup {EnrollmentPrincipal(id)}
  BY <1>1 DEF Redeem, Issue, issued
<1>5. EnrollmentPrincipal(id) \in LiveRoots \cup {id} /\ (LiveRoots # {} => EnrollmentPrincipal(id) \in LiveRoots)
  BY DEF EnrollmentPrincipal
<1>6. TypeOK'
  <2>1. EnrollmentPrincipal(id) \in Cap
    BY <1>5 DEF IInv, TypeOK, LiveRoots
  <2>2. row \in Row
    BY <1>1, <2>1 DEF Approval, Row
  <2>3. \A i \in DOMAIN rows' : rows'[i] \in Row
    BY <1>4, <2>2 DEF IInv, TypeOK
  <2>4. \A a \in DOMAIN approval' : approval'[a] \in Approval
    BY <1>2, <1>3 DEF IInv, TypeOK
  <2>5. QED
    BY <1>1, <1>2, <1>4, <2>1, <2>3, <2>4 DEF IInv, TypeOK, issued
<1>7. Progress'
  BY <1>1, <1>2 DEF IInv, Progress
<1>8. Recorded'
  BY <1>1, <1>2, <1>3 DEF IInv, Recorded
<1>9. Attested'
  BY <1>1, <1>2, <1>4, <1>5 DEF IInv, Attested, LiveRoots, issued
<1>10. \A i \in issued : rows[i].attestation # c
  BY <1>1 DEF IInv, BurnsAreEarned
<1>11. OnePerApproval'
  BY <1>4, <1>10 DEF IInv, OnePerApproval, issued
<1>12. BurnsAreEarned'
  <2>1. ASSUME NEW a \in DOMAIN approval, a # c
        PROVE  (\E i \in DOMAIN rows' : rows'[i].attestation = a)
               <=> (\E i \in issued : rows[i].attestation = a)
    BY <1>4, <2>1
  <2>2. \E i \in DOMAIN rows' : rows'[i].attestation = c
    BY <1>4
  <2>3. QED
    BY <1>2, <1>3, <2>1, <2>2 DEF IInv, BurnsAreEarned, issued
<1>13. GrantsAreApproved'
  <2>1. c \in approved /\ row.scopes = asked[c].scopes /\ row.ttl = TtlGranted(asked[c].ttl)
    BY <1>1 DEF IInv, Progress, Recorded
  <2>2. QED
    BY <1>1, <1>4, <2>1 DEF IInv, GrantsAreApproved, issued
<1>14. OneLiveRoot'
  BY <1>1, <1>4, <1>5 DEF IInv, OneLiveRoot, LiveRoots
<1>15. QED
  BY <1>6, <1>7, <1>8, <1>9, <1>11, <1>12, <1>13, <1>14 DEF IInv

LEMMA ServiceInv ==
  ASSUME IInv, ServiceStep
  PROVE  IInv'
<1> USE DEF store, caller
<1>1. ASSUME NEW c \in Call, RefuseEnrollRequest(c)
      PROVE  IInv'
  <2>1. TypeOK' /\ Progress'
    BY <1>1 DEF IInv, TypeOK, Progress, RefuseEnrollRequest, issued
  <2>2. QED
    BY <1>1, <2>1, StoreUnchanged DEF IInv, RefuseEnrollRequest
<1>2. ASSUME NEW p \in Cap, RevokePrincipal(p)
      PROVE  IInv'
  <2>1. TypeOK' /\ Progress'
    BY <1>2 DEF IInv, TypeOK, Progress, RevokePrincipal, LiveRoots, issued
  <2>2. Recorded' /\ Attested' /\ GrantsAreApproved' /\ OnePerApproval' /\ BurnsAreEarned'
    BY <1>2 DEF IInv, Recorded, Attested, GrantsAreApproved, OnePerApproval, BurnsAreEarned,
                RevokePrincipal, issued
  <2>3. OneLiveRoot'
    BY <1>2 DEF IInv, OneLiveRoot, RevokePrincipal, LiveRoots
  <2>4. QED
    BY <2>1, <2>2, <2>3 DEF IInv
<1>3. ASSUME NEW lost \in SUBSET Call, NEW policy \in SUBSET Scope, Restart(lost, policy)
      PROVE  IInv'
  <2>1. TypeOK' /\ Progress'
    BY <1>3 DEF IInv, TypeOK, Progress, Restart, issued
  <2>2. QED
    BY <1>3, <2>1, StoreUnchanged DEF IInv, Restart
<1>4. ASSUME NEW t \in Time, SetClock(t)
      PROVE  IInv'
  <2>1. TypeOK' /\ Progress'
    BY <1>4 DEF IInv, TypeOK, Progress, SetClock, issued
  <2>2. QED
    BY <1>4, <2>1, StoreUnchanged DEF IInv, SetClock
<1>5. QED
  BY <1>1, <1>2, <1>3, <1>4, RequestInv, RedeemInv DEF ServiceStep

LEMMA NextInv == IInv /\ [Next]_vars => IInv'
<1> SUFFICES ASSUME IInv, [Next]_vars
             PROVE  IInv'
  OBVIOUS
<1>1. CASE UNCHANGED vars
  <2>1. TypeOK' /\ Progress'
    BY <1>1 DEF IInv, TypeOK, Progress, vars, caller, store, issued
  <2>2. QED
    BY <1>1, <2>1, StoreUnchanged DEF IInv, vars, caller
<1>2. CASE Next
  BY <1>2, HookInv, ServiceInv DEF Next
<1>3. QED
  BY <1>1, <1>2

LEMMA Invariance == Spec => []IInv
<1>1. QED
  BY InitInv, NextInv, PTL DEF Spec

--------------------------------------------------------------------------------
(* The theorems. *)

\* Every state has the shape the schema and the hook's stages give it.
THEOREM TypeCorrect == Spec => []TypeOK
<1>1. IInv => TypeOK
  BY DEF IInv
<1>2. QED
  BY <1>1, Invariance, PTL

\* No capability without a human Approve for exactly its scopes and lifetime.
THEOREM EveryGrantApproved == Spec => []GrantsAreApproved
<1>1. IInv => GrantsAreApproved
  BY DEF IInv
<1>2. QED
  BY <1>1, Invariance, PTL

\* One approval, one capability: replayed codes, restarts and clock changes included.
THEOREM ApprovalsAreOneUse == Spec => []OnePerApproval
<1>1. IInv => OnePerApproval
  BY DEF IInv
<1>2. QED
  BY <1>1, Invariance, PTL

\* Approvals are burned exactly by the exchanges that issue.
THEOREM BurnsAreAtomic == Spec => []BurnsAreEarned
<1>1. IInv => BurnsAreEarned
  BY DEF IInv
<1>2. QED
  BY <1>1, Invariance, PTL

\* There is never a second live root principal.
THEOREM RootIsUnique == Spec => []OneLiveRoot
<1>1. IInv => OneLiveRoot
  BY DEF IInv
<1>2. QED
  BY <1>1, Invariance, PTL

\* A blocked call stays blocked and never yields a capability, whatever the
\* authority did after the hook gave up on it.
THEOREM BlockedForGood == Spec => BlockedIsFinal
<1> DEFINE Kept == \A c \in Call : hook[c] = "blocked" =>
                     /\ hook'[c] = "blocked"
                     /\ \A i \in DOMAIN rows' : rows'[i].attestation = c => i \in issued
<1>1. TypeOK /\ [Next]_vars => [Kept]_vars
  <2> SUFFICES ASSUME TypeOK, Next, NEW c \in Call, hook[c] = "blocked"
               PROVE  /\ hook'[c] = "blocked"
                      /\ \A i \in DOMAIN rows' : rows'[i].attestation = c => i \in issued
    OBVIOUS
  <2> USE DEF caller, store, issued
  <2>1. ASSUME NEW b \in Call, HookStep(b)
        PROVE  hook'[c] = "blocked" /\ rows' = rows
    BY <2>1 DEF HookStep, Prompt, BlockUnasked, Deny, Approve, HearReply, GiveUp, TypeOK
  <2>2. ASSUME NEW b \in Call, NEW id \in Cap, Redeem(b, id)
        PROVE  /\ hook'[c] = "blocked"
               /\ \A i \in DOMAIN rows' : rows'[i].attestation = c => i \in issued
    <3>1. b # c /\ hook' = hook
      BY <2>2 DEF Redeem
    <3>2. DOMAIN rows' = issued \cup {id} /\ rows'[id].attestation = b
      BY <2>2 DEF Redeem, Issue
    <3>3. QED
      BY <3>1, <3>2
  <2>3. CASE ServiceStep /\ ~ \E b \in Call, id \in Cap : Redeem(b, id)
    BY <2>3 DEF ServiceStep, HandleEnrollRequest, RefuseEnrollRequest, RevokePrincipal,
                Restart, SetClock
  <2>4. QED
    BY <2>1, <2>2, <2>3 DEF Next
<1>2. QED
  BY <1>1, TypeCorrect, PTL DEF Spec, BlockedIsFinal

\* What a capability may do is within the allowlist of the build that issued it.
THEOREM IssuedWithinPolicy == Spec => NothingBeyondPolicy
<1> DEFINE Within == \A i \in DOMAIN rows' \ issued : rows'[i].scopes \subseteq allowed
<1>1. [Next]_vars => [Within]_vars
  <2> SUFFICES ASSUME Next
               PROVE  Within
    OBVIOUS
  <2> USE DEF caller, store, issued
  <2>1. ASSUME NEW c \in Call, NEW id \in Cap, Redeem(c, id)
        PROVE  Within
    <3>1. DOMAIN rows' = issued \cup {id} /\ rows'[id].scopes = approval[c].scopes
      BY <2>1 DEF Redeem, Issue
    <3>2. QED
      BY <2>1, <3>1 DEF Redeem
  <2>2. CASE \E c \in Call : HookStep(c)
    BY <2>2 DEF HookStep, Prompt, BlockUnasked, Deny, Approve, HearReply, GiveUp
  <2>3. CASE ServiceStep /\ ~ \E c \in Call, id \in Cap : Redeem(c, id)
    BY <2>3 DEF ServiceStep, HandleEnrollRequest, RefuseEnrollRequest, RevokePrincipal,
                Restart, SetClock
  <2>4. QED
    BY <2>1, <2>2, <2>3 DEF Next
<1>2. QED
  BY <1>1, PTL DEF Spec, NothingBeyondPolicy

================================================================================
