------------------------------- MODULE Enrollment -------------------------------
(***************************************************************************)
(* How an agent gets a capability: the approval hook shows the operator    *)
(* what is asked, an approval makes it request a one-use code from the     *)
(* authority's socket, the code is injected into the tool call and the     *)
(* daemon exchanges it for a root capability.                              *)
(*                                                                         *)
(* The hook and the service are two processes.  The service's handlers are *)
(* one step each (synchronous code around one SQLite transaction); the     *)
(* hook's is not: it awaits the dialog and then the socket, with a timer   *)
(* running.  A call makes one request, a request at most one approval and  *)
(* an approval one code, so all of them are named by the call.             *)
(***************************************************************************)
EXTENDS Integers, FiniteSets

CONSTANTS
  Call,        \* collabcast_enroll calls that reach the hook
  Cap,         \* capability ids the service may mint
  Scope,       \* the scope names a call may ask for
  Ttl,         \* the lifetimes a call may ask for
  MinTtl,      \* MIN_ENROLL_TTL_SECONDS, in ticks
  MaxTtl,      \* MAX_ENROLL_TTL_SECONDS
  DefaultTtl,  \* DEFAULT_ENROLL_TTL_SECONDS, for a call that names no lifetime
  CodeTtl,     \* the lifetime of an enrollment code
  MaxTime,     \* bound on the wall clock
  None         \* an absent ttlSeconds, and nothing at all elsewhere

ASSUME TtlAssumption ==
  /\ Ttl \subseteq Nat
  /\ {MinTtl, MaxTtl, DefaultTtl} \subseteq Nat
  /\ MinTtl =< DefaultTtl /\ DefaultTtl =< MaxTtl
ASSUME TimeAssumption == CodeTtl \in Nat /\ MaxTime \in Nat
ASSUME NoneAssumption == None \notin Nat \cup {"code", "refused"}

VARIABLES
  clock,      \* now() of the service: a wall clock, which may be set back
  allowed,    \* ROLE_SCOPES.root of the build that is running
  hook,       \* per call, how far the hook's handler has got
  asked,      \* per call, what readRequest read and the dialog showed
  approved,   \* history: the calls the operator answered with Approve
  wire,       \* calls whose request is on its way to the authority's socket
  reply,      \* per call, the authority's answer on its way back
  approval,   \* tables approval and enrollment_code: a function from calls
  roots,      \* principals of role root
  retired,    \* those whose revoked_at is set
  rows        \* table capability: a function from ids

caller  == <<hook, asked, approved>>
store   == <<approval, roots, retired, rows>>
vars    == <<clock, allowed, caller, wire, reply, store>>

Time    == 0 .. MaxTime
Scopes  == SUBSET Scope \ {{}}
Request == [scopes : Scopes, ttl : Ttl \cup {None}]

\* A capability's principal is named by the first capability issued to it.
Row      == [owner : Cap, scopes : Scopes, ttl : Nat, attestation : Call]
Approval == [scopes : Scopes, ttl : Nat, codeExpires : Nat,
             codeSpent : BOOLEAN, spent : BOOLEAN]

issued == DOMAIN rows
LiveRoots == roots \ retired

--------------------------------------------------------------------------------
\* requireTtlSeconds: the default for none, and the range for the others.
TtlGranted(ttl) == IF ttl = None THEN DefaultTtl ELSE ttl

\* assertEnrollable.
Enrollable(request) ==
  /\ request.scopes \subseteq allowed
  /\ TtlGranted(request.ttl) \in MinTtl .. MaxTtl

--------------------------------------------------------------------------------
Init ==
  /\ clock \in Time
  /\ allowed \in SUBSET Scope
  /\ hook = [c \in Call |-> "idle"]
  /\ asked = [c \in Call |-> None]
  /\ approved = {}
  /\ wire = {}
  /\ reply = [c \in Call |-> None]
  /\ approval = [c \in {} |-> None]
  /\ roots = {}
  /\ retired = {}
  /\ rows = [c \in {} |-> None]

\* The hook sees the tool call, reads its arguments once and opens the dialog.
Prompt(c, request) ==
  /\ hook[c] = "idle"
  /\ asked' = [asked EXCEPT ![c] = request]
  /\ hook' = [hook EXCEPT ![c] = "dialog"]
  /\ UNCHANGED <<clock, allowed, approved, wire, reply, store>>

\* Foreign server, no UI, or arguments that cannot be described: no dialog.
BlockUnasked(c) ==
  /\ hook[c] = "idle"
  /\ hook' = [hook EXCEPT ![c] = "blocked"]
  /\ UNCHANGED <<clock, allowed, asked, approved, wire, reply, store>>

\* Anything but an exact Approve, a dialog that was dismissed or threw included.
Deny(c) ==
  /\ hook[c] = "dialog"
  /\ hook' = [hook EXCEPT ![c] = "blocked"]
  /\ UNCHANGED <<clock, allowed, asked, approved, wire, reply, store>>

\* Mutant: the request leaves while the dialog is open.
ApproveInAdvance(c, configured) ==
  /\ hook[c] = "dialog"
  /\ wire' = wire \cup {c}
  /\ hook' = [hook EXCEPT ![c] = "waiting"]
  /\ UNCHANGED <<clock, allowed, asked, approved, reply, store>>

\* Approve: the request goes out, unless the hook has no socket or no secret.
Approve(c, configured) ==
  /\ hook[c] = "dialog"
  /\ approved' = approved \cup {c}
  /\ IF configured
       THEN /\ hook' = [hook EXCEPT ![c] = "waiting"]
            /\ wire' = wire \cup {c}
       ELSE /\ hook' = [hook EXCEPT ![c] = "blocked"]
            /\ UNCHANGED wire
  /\ UNCHANGED <<clock, allowed, asked, reply, store>>

\* Mutant: no `settled` flag, so an answer that is late is still acted on.
HearLateReply(c) ==
  /\ reply[c] # None
  /\ hook' = [hook EXCEPT ![c] = IF reply[c] = "code" THEN "injected" ELSE "blocked"]
  /\ reply' = [reply EXCEPT ![c] = None]
  /\ UNCHANGED <<clock, allowed, asked, approved, wire, store>>

\* The answer arrives in time: the code is injected, or the call is blocked.
HearReply(c) ==
  /\ hook[c] = "waiting"
  /\ reply[c] # None
  /\ hook' = [hook EXCEPT ![c] = IF reply[c] = "code" THEN "injected" ELSE "blocked"]
  /\ reply' = [reply EXCEPT ![c] = None]
  /\ UNCHANGED <<clock, allowed, asked, approved, wire, store>>

\* The timer fires, or the socket fails or closes: the call is blocked, and
\* whatever the authority has done or will do stays done.
GiveUp(c) ==
  /\ hook[c] = "waiting"
  /\ hook' = [hook EXCEPT ![c] = "blocked"]
  /\ UNCHANGED <<clock, allowed, asked, approved, wire, reply, store>>

--------------------------------------------------------------------------------
\* The authority records the approval and its code, and answers with the code.
HandleEnrollRequest(c) ==
  /\ c \in wire
  /\ wire' = wire \ {c}
  /\ Enrollable(asked[c])
  /\ approval' = [a \in DOMAIN approval \cup {c} |->
       IF a # c THEN approval[a]
       ELSE [scopes |-> asked[c].scopes, ttl |-> TtlGranted(asked[c].ttl),
             codeExpires |-> clock + CodeTtl, codeSpent |-> FALSE, spent |-> FALSE]]
  /\ reply' = [reply EXCEPT ![c] = "code"]
  /\ UNCHANGED <<clock, allowed, caller, roots, retired, rows>>

\* It refuses: the policy says no, or the store fails and the transaction is
\* rolled back.
RefuseEnrollRequest(c) ==
  /\ c \in wire
  /\ wire' = wire \ {c}
  /\ reply' = [reply EXCEPT ![c] = "refused"]
  /\ UNCHANGED <<clock, allowed, caller, store>>

--------------------------------------------------------------------------------
\* consumeEnrollmentCode and consumeApproval: the conditional UPDATEs that burn.
Burnable(c) ==
  /\ c \in DOMAIN approval
  /\ ~ approval[c].codeSpent
  /\ clock < approval[c].codeExpires
  /\ ~ approval[c].spent

Burn(c) == approval' = [approval EXCEPT ![c].codeSpent = TRUE, ![c].spent = TRUE]

\* Mutant: every enrollment gets a principal of its own.
FreshEnrollmentPrincipal(id) == id

\* resolveEnrollmentPrincipal: the live root, or a new one when there is none.
\* The code takes the oldest; OneLiveRoot says there is no other to take.
EnrollmentPrincipal(id) ==
  IF LiveRoots = {} THEN id ELSE CHOOSE p \in LiveRoots : TRUE

Issue(c, id) ==
  /\ rows' = [i \in issued \cup {id} |->
       IF i # id THEN rows[i]
       ELSE [owner |-> EnrollmentPrincipal(id), scopes |-> approval[c].scopes,
             ttl |-> approval[c].ttl, attestation |-> c]]
  /\ roots' = roots \cup {EnrollmentPrincipal(id)}

\* Mutant: the code row alone is trusted, and the approval is not burned.
RedeemUnburned(c, id) ==
  /\ hook[c] = "injected"
  /\ id \notin issued
  /\ c \in DOMAIN approval
  /\ clock < approval[c].codeExpires
  /\ approval[c].scopes \subseteq allowed
  /\ Issue(c, id)
  /\ UNCHANGED <<clock, allowed, caller, wire, reply, approval, retired>>

\* Mutant: the burns are committed before the allowlist is consulted.
RedeemInTwo(c, id) ==
  /\ hook[c] = "injected"
  /\ id \notin issued
  /\ Burnable(c)
  /\ Burn(c)
  /\ IF approval[c].scopes \subseteq allowed THEN Issue(c, id) ELSE UNCHANGED <<rows, roots>>
  /\ UNCHANGED <<clock, allowed, caller, wire, reply, retired>>

\* The code is presented, for the first time or again.  A refusal rolls the
\* transaction back and leaves no trace but an audit row; when the answer is
\* lost on its way, the burns and the capability stand.
Redeem(c, id) ==
  /\ hook[c] = "injected"
  /\ id \notin issued
  /\ Burnable(c)
  /\ Burn(c)
  /\ approval[c].scopes \subseteq allowed
  /\ Issue(c, id)
  /\ UNCHANGED <<clock, allowed, caller, wire, reply, retired>>

--------------------------------------------------------------------------------
RevokePrincipal(p) ==
  /\ p \in LiveRoots
  /\ retired' = retired \cup {p}
  /\ UNCHANGED <<clock, allowed, caller, wire, reply, approval, roots, rows>>

\* The service dies: requests it had not read and answers it had not sent are
\* gone, the database is not.  The build that starts may allow other scopes.
Restart(lost, policy) ==
  /\ wire' = {}
  /\ reply' = [c \in Call |-> IF c \in lost THEN None ELSE reply[c]]
  /\ allowed' = policy
  /\ UNCHANGED <<clock, caller, store>>

\* Time passes, or somebody sets the clock.
SetClock(t) ==
  /\ clock' = t
  /\ UNCHANGED <<allowed, caller, wire, reply, store>>

HookStep(c) ==
  \/ \E request \in Request : Prompt(c, request)
  \/ BlockUnasked(c)
  \/ Deny(c)
  \/ \E configured \in BOOLEAN : Approve(c, configured)
  \/ HearReply(c)
  \/ GiveUp(c)

ServiceStep ==
  \/ \E c \in Call : HandleEnrollRequest(c) \/ RefuseEnrollRequest(c)
  \/ \E c \in Call, id \in Cap : Redeem(c, id)
  \/ \E p \in Cap : RevokePrincipal(p)
  \/ \E lost \in SUBSET Call, policy \in SUBSET Scope : Restart(lost, policy)
  \/ \E t \in Time : SetClock(t)

Next == (\E c \in Call : HookStep(c)) \/ ServiceStep

Spec == Init /\ [][Next]_vars

--------------------------------------------------------------------------------
(***************************************************************************)
(* Properties.                                                             *)
(***************************************************************************)

\* The shape of the state, and how far a call, its approval and its answer
\* have got together: the records schema.sql declares, with integer lifetimes.
TypeOK ==
  /\ clock \in Time
  /\ allowed \in SUBSET Scope
  /\ hook \in [Call -> {"idle", "dialog", "waiting", "injected", "blocked"}]
  /\ asked \in [Call -> Request \cup {None}]
  /\ approved \in SUBSET Call
  /\ wire \in SUBSET Call
  /\ reply \in [Call -> {None, "code", "refused"}]
  /\ DOMAIN approval \subseteq Call
  /\ \A c \in DOMAIN approval : approval[c] \in Approval
  /\ roots \in SUBSET Cap
  /\ retired \in SUBSET roots
  /\ issued \subseteq Cap
  /\ \A i \in issued : rows[i] \in Row

\* "Every capability points back at the exact human decision that authorised
\* it" (authority/enroll.js): behind each one is a call the operator answered
\* with Approve, and it holds the scopes and the lifetime the dialog showed.
GrantsAreApproved ==
  \A i \in issued :
    LET c == rows[i].attestation IN
    /\ c \in approved
    /\ rows[i].scopes = asked[c].scopes
    /\ rows[i].ttl = TtlGranted(asked[c].ttl)

\* An approval is worth one capability, however often its code is presented
\* and however the clock is set (store/approvals.js: "one-use").
OnePerApproval ==
  \A i, j \in issued : rows[i].attestation = rows[j].attestation => i = j

\* "The burn and whatever it authorises commit or roll back together": an
\* approval and its code are spent exactly when a capability came of them, so
\* a refused exchange costs the operator nothing.
BurnsAreEarned ==
  \A c \in DOMAIN approval :
    /\ approval[c].spent <=> approval[c].codeSpent
    /\ approval[c].spent <=> \E i \in issued : rows[i].attestation = c

\* A second enrollment is a recovery of the same identity, so the namespace has
\* one live root principal, and authorship does not split into root-1, root-2.
OneLiveRoot == \A p, q \in LiveRoots : p = q

\* What the agent is told is blocked stays so: once the hook has refused a call,
\* by a denial or by a timeout that raced the authority's answer, no capability
\* ever comes of it, even though the authority may have approved it.
BlockedIsFinal ==
  [][\A c \in Call : hook[c] = "blocked" =>
       /\ hook'[c] = "blocked"
       /\ \A i \in DOMAIN rows' : rows'[i].attestation = c => i \in issued]_vars

\* An approval recorded under a wider allowlist buys nothing the running build
\* no longer allows (redeem's second look at scopesForRole).
NothingBeyondPolicy ==
  [][\A i \in DOMAIN rows' \ issued : rows'[i].scopes \subseteq allowed]_vars

================================================================================
