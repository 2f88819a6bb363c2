------------------------------- MODULE McpSession -------------------------------
(***************************************************************************)
(* The capability a MCP server process holds: the token box the HTTP       *)
(* client reads, and the one authority state every tool call looks at.     *)
(*                                                                         *)
(* Tool calls are served as they arrive, none waiting for another, and     *)
(* each await of the service is a place where others run.  A request is    *)
(* therefore a slot: sent with the token of the moment, answered by the    *)
(* service when it gets to it, and heard when the answer arrives.  A call  *)
(* that the holder refuses locally changes nothing and is not a step.      *)
(***************************************************************************)
EXTENDS FiniteSets

CONSTANTS
  Token,    \* the capability tokens the service may mint for this session
  Slot,     \* requests in flight at a time
  None

VARIABLES
  state,     \* CapabilityState
  box,       \* tokenBox.value
  identity,  \* the token GET /self was answered for, standing for its identity
  req,       \* per slot, the request in flight
  minted,    \* tokens the service has issued
  live,      \* those it would accept now
  stale      \* history: the state was last set by an answer about a token not held

authority == <<state, box, identity, stale>>
vars      == <<authority, req, minted, live>>

Kind    == {"boot", "self", "call", "exchange"}
Request == [kind : Kind, token : Token \cup {None},
            answer : {"pending", "ok", "refused", "failed"}]

ASSUME NoneAssumption == None \notin Token \cup Request

Sent(kind, token) == [kind |-> kind, token |-> token, answer |-> "pending"]

Free(s)      == req[s] = None
Of(kinds)    == {s \in Slot : ~ Free(s) /\ req[s].kind \in kinds}
Answered(s, kinds, answer) == ~ Free(s) /\ req[s].kind \in kinds /\ req[s].answer = answer

Send(s, kind, token) == req' = [req EXCEPT ![s] = Sent(kind, token)]
Done(s)              == req' = [req EXCEPT ![s] = None]

--------------------------------------------------------------------------------
\* A session with no injected credential, or one whose injected credential, good
\* or stale, is being resolved before the server takes its first call.
Init ==
  /\ state = "unenrolled"
  /\ identity = None
  /\ box \in Token \cup {None}
  /\ minted = {box} \ {None}
  /\ live \in SUBSET minted
  /\ stale = FALSE
  /\ \E s \in Slot : req = [r \in Slot |-> IF r = s /\ box # None
                                            THEN Sent("boot", box) ELSE None]

Serving == Of({"boot"}) = {}

\* A tool call other than collabcast_enroll: requireActive, then the request.
Call(s) ==
  /\ Serving /\ Free(s)
  /\ state = "active"
  /\ Send(s, "call", box)
  /\ UNCHANGED <<authority, minted, live>>

\* collabcast_enroll with an injected code: whatever the state is.
Enroll(s) ==
  /\ Serving /\ Free(s)
  /\ Send(s, "exchange", None)
  /\ UNCHANGED <<authority, minted, live>>

--------------------------------------------------------------------------------
(* The service. *)

Answer(s, answer) == req' = [req EXCEPT ![s].answer = answer]

\* The bearer is looked up: any request but the exchange, which is anonymous.
Verify(s) ==
  /\ Answered(s, {"boot", "self", "call"}, "pending")
  /\ Answer(s, IF req[s].token \in live THEN "ok" ELSE "refused")
  /\ UNCHANGED <<authority, minted, live>>

\* The lookup throws: the gate answers what it answers to an unknown bearer.
FailToVerify(s) ==
  /\ Answered(s, {"boot", "self", "call"}, "pending")
  /\ Answer(s, "refused")
  /\ UNCHANGED <<authority, minted, live>>

\* The exchange burns the code and mints a token.
Exchange(s, t) ==
  /\ Answered(s, {"exchange"}, "pending")
  /\ t \notin minted
  /\ minted' = minted \cup {t}
  /\ live' = live \cup {t}
  /\ req' = [req EXCEPT ![s].answer = "ok", ![s].token = t]
  /\ UNCHANGED authority

\* Anything that is neither an answer to the bearer nor a refusal of it: the
\* service is down or slow, the answer is lost, the code was spent.
Fail(s) ==
  /\ ~ Free(s)
  /\ req[s].answer # "failed"
  /\ Answer(s, "failed")
  /\ UNCHANGED <<authority, minted, live>>

\* A token is revoked, or expires.
Revoke(t) ==
  /\ t \in live
  /\ live' = live \ {t}
  /\ UNCHANGED <<authority, req, minted>>

--------------------------------------------------------------------------------
(* The holder hears the answers. *)

\* Mutant: the box is emptied and the state left to the next call.
ClearBox ==
  /\ box' = None
  /\ identity' = None
  /\ stale' = FALSE
  /\ UNCHANGED state

\* clear('invalid'), whatever token the refusal was about.
Clear ==
  /\ state' = "invalid"
  /\ identity' = None
  /\ box' = None
  /\ stale' = FALSE

\* The state is set by the answer to s, which may be about a token that has been
\* replaced, or thrown away, while the holder awaited it.
SetBy(s, new, who) ==
  /\ state' = new
  /\ identity' = who
  /\ stale' = (req[s].token # box)

\* adopt: the new token replaces what the box held, and /self is asked with it.
Adopt(s) ==
  /\ Answered(s, {"exchange"}, "ok")
  /\ box' = req[s].token
  /\ Send(s, "self", req[s].token)
  /\ UNCHANGED <<state, identity, stale, minted, live>>

\* resolve: identity comes from the answer.
Confirm(s) ==
  /\ Answered(s, {"boot", "self"}, "ok")
  /\ SetBy(s, "active", req[s].token)
  /\ Done(s)
  /\ UNCHANGED <<box, minted, live>>

\* Mutant: every failure of /self is taken for a refusal of the credential.
DiscardUnconfirmed(s) ==
  /\ Answered(s, {"boot", "self"}, "failed")
  /\ Clear
  /\ Done(s)
  /\ UNCHANGED <<minted, live>>

\* noteResolveFailure: anything but a refusal keeps the token, unverified.
Retain(s) ==
  /\ Answered(s, {"boot", "self"}, "failed")
  /\ SetBy(s, "unverified", None)
  /\ Done(s)
  /\ UNCHANGED <<box, minted, live>>

\* noteResolveFailure on a refusal.
DiscardRefused(s) ==
  /\ Answered(s, {"boot", "self"}, "refused")
  /\ Clear
  /\ Done(s)
  /\ UNCHANGED <<minted, live>>

\* noteUnauthenticated on a call's 401.
NoteUnauthenticated(s) ==
  /\ Answered(s, {"call"}, "refused")
  /\ IF state = "unenrolled" THEN UNCHANGED authority ELSE Clear
  /\ Done(s)
  /\ UNCHANGED <<minted, live>>

Discard(s) == DiscardRefused(s) \/ NoteUnauthenticated(s)

\* The tool call returns its result or its error; no authority state changes.
Return(s) ==
  /\ Answered(s, {"call"}, "ok") \/ Answered(s, {"call", "exchange"}, "failed")
  /\ Done(s)
  /\ UNCHANGED <<authority, minted, live>>

Hear(s) == Adopt(s) \/ Confirm(s) \/ Retain(s) \/ Discard(s) \/ Return(s)

Next ==
  \/ \E s \in Slot : Call(s) \/ Enroll(s)
  \/ \E s \in Slot : Verify(s) \/ FailToVerify(s) \/ Fail(s) \/ Hear(s)
  \/ \E s \in Slot, t \in Token : Exchange(s, t)
  \/ \E t \in Token : Revoke(t)

Spec == Init /\ [][Next]_vars

--------------------------------------------------------------------------------
(***************************************************************************)
(* Properties.                                                             *)
(***************************************************************************)

\* One of the four CapabilityStates, a token or none in the box, and requests
\* of the kinds the tools send.
TypeOK ==
  /\ state \in {"unenrolled", "active", "unverified", "invalid"}
  /\ box \in Token \cup {None}
  /\ identity \in Token \cup {None}
  /\ req \in [Slot -> Request \cup {None}]
  /\ minted \in SUBSET Token
  /\ live \in SUBSET minted
  /\ stale \in BOOLEAN

\* "There is one authority state for the whole process" (capability.js): once no
\* credential is being resolved, the state says whether a token is held, and an
\* active session's identity is that of the token its calls are sent with - however
\* calls and enrollments overlap, unless the state was set last by an answer about
\* a token that is not held, and until it is set again.
SessionCoherent ==
  Of({"boot", "self"}) = {} /\ ~ stale =>
    /\ box # None <=> state \in {"active", "unverified"}
    /\ state = "active" => identity = box

\* "A failure to CONFIRM it is never allowed to throw it away unless the server
\* actually refused it": no outage, lost answer or spent code empties the box, only a
\* refusal, though it may be the late refusal of a token held before.
TokenKeptUntilRefused ==
  [][box # None /\ box' = None =>
       \E s \in Slot : ~ Free(s) /\ req[s].answer = "refused"]_vars
================================================================================
