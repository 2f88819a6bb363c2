---------------------------- MODULE McpServer_proofs ----------------------------
(***************************************************************************)
(* Proofs about the MCP server process, for any number of tokens, requests *)
(* in flight, resources and connections, however calls, enrollments and    *)
(* subscriptions overlap.  The session and the feed take turns, so each    *)
(* part's invariant is proved of its own steps; what the feed needs of the *)
(* session it looks up at every step anew.                                 *)
(***************************************************************************)
EXTENDS McpServer, TLAPS

USE NoneAssumption, NoStreamAssumption

\* A request about a bearer carries one when it comes from adopt, and the answer to
\* an exchange brings one.
CarriesToken ==
  \A s \in Slot : ~ Free(s) =>
    /\ req[s].kind \in {"boot", "self"} => req[s].token # None
    /\ req[s].kind = "exchange" /\ req[s].answer = "ok" => req[s].token # None

\* Coherence, for a state that the answer to the held token set last.
Agrees ==
  /\ box # None <=> state \in {"active", "unverified"}
  /\ state = "active" => identity = box

Resolving == \E s \in Slot : ~ Free(s) /\ req[s].kind \in {"boot", "self"}

IInv == TypeOK /\ CarriesToken /\ (~ Resolving /\ ~ stale => Agrees)

\* The handle is never that of a dead stream. There may be more streams than the handle
\* knows of, so the invariant speaks of the handle's stream and of no other.
HandleIsOpen == stream # NoStream => conn[stream] = "open"

FeedInv == FeedTypeOK /\ HandleIsOpen

--------------------------------------------------------------------------------
LEMMA SameCoherence == (~ Resolving /\ ~ stale => Agrees) <=> SessionCoherent
BY DEF Agrees, SessionCoherent, Resolving, Of

\* What one slot becomes when the others are left alone.
LEMMA SlotSet ==
  ASSUME req \in [Slot -> Request \cup {None}], NEW s \in Slot, NEW x \in Request \cup {None},
         req' = [req EXCEPT ![s] = x]
  PROVE  /\ req' \in [Slot -> Request \cup {None}]
         /\ req'[s] = x
         /\ \A r \in Slot : r # s => req'[r] = req[r]
OBVIOUS

LEMMA SentIsRequest ==
  ASSUME NEW kind \in Kind, NEW token \in Token \cup {None}
  PROVE  /\ Sent(kind, token) \in Request
         /\ Sent(kind, token) # None
         /\ Sent(kind, token).kind = kind
         /\ Sent(kind, token).token = token
         /\ Sent(kind, token).answer = "pending"
BY DEF Sent, Request

\* The answer to a bearer changes nothing else of its request.
LEMMA AnsweredIsRequest ==
  ASSUME TypeOK, NEW s \in Slot, ~ Free(s),
         NEW answer \in {"ok", "refused", "failed"}
  PROVE  /\ req[s] \in Request
         /\ [req[s] EXCEPT !.answer = answer] \in Request
         /\ [req[s] EXCEPT !.answer = answer].kind = req[s].kind
         /\ [req[s] EXCEPT !.answer = answer].token = req[s].token
         /\ [req[s] EXCEPT !.answer = answer].answer = answer
<1>1. req[s] \in Request
  BY DEF TypeOK, Free
<1>2. QED
  BY <1>1 DEF Request

--------------------------------------------------------------------------------
LEMMA InitInv == Init => IInv
<1> SUFFICES ASSUME Init
             PROVE  IInv
  OBVIOUS
<1>1. PICK s \in Slot : req = [r \in Slot |-> IF r = s /\ box # None
                                               THEN Sent("boot", box) ELSE None]
  BY DEF Init
<1>2. box # None => /\ req[s] = Sent("boot", box)
                    /\ Sent("boot", box) \in Request /\ Sent("boot", box).kind = "boot"
                    /\ Sent("boot", box).token = box
                    /\ Sent("boot", box) # None
  BY <1>1, SentIsRequest DEF Init, Kind
<1>3. \A r \in Slot : r # s \/ box = None => req[r] = None
  BY <1>1
<1>4. TypeOK
  BY <1>1, <1>2 DEF Init, TypeOK
<1>5. CarriesToken /\ (~ Resolving => Agrees)
  BY <1>2, <1>3 DEF Init, CarriesToken, Agrees, Resolving, Free
<1>6. QED
  BY <1>4, <1>5 DEF IInv

\* Types hold whatever the rest of the invariant says.
LEMMA TypesStep ==
  ASSUME TypeOK, [Next]_vars
  PROVE  TypeOK'
<1>1. CASE UNCHANGED vars
  BY <1>1 DEF TypeOK, vars, authority
<1>2. ASSUME NEW s \in Slot, Call(s) \/ Enroll(s)
      PROVE  TypeOK'
  <2>1. Sent("call", box) \in Request /\ Sent("exchange", None) \in Request
    BY SentIsRequest DEF TypeOK, Kind
  <2>2. QED
    BY <1>2, <2>1 DEF TypeOK, Call, Enroll, Send, authority
<1>3. ASSUME NEW s \in Slot, Verify(s) \/ FailToVerify(s) \/ Fail(s)
      PROVE  TypeOK'
  <2>1. ~ Free(s)
    BY <1>3 DEF Verify, FailToVerify, Fail, Answered
  <2>2. \A answer \in {"ok", "refused", "failed"} : [req[s] EXCEPT !.answer = answer] \in Request
    BY <2>1, AnsweredIsRequest
  <2>3. QED
    BY <1>3, <2>2 DEF TypeOK, Verify, FailToVerify, Fail, Answer, authority
<1>4. ASSUME NEW s \in Slot, NEW t \in Token, Exchange(s, t)
      PROVE  TypeOK'
  <2>1. ~ Free(s)
    BY <1>4 DEF Exchange, Answered
  <2>2. [req[s] EXCEPT !.answer = "ok", !.token = t] \in Request
    BY <2>1 DEF TypeOK, Free, Request
  <2>3. req' = [req EXCEPT ![s] = [req[s] EXCEPT !.answer = "ok", !.token = t]]
    BY <1>4 DEF Exchange, TypeOK
  <2>4. QED
    BY <1>4, <2>2, <2>3 DEF TypeOK, Exchange, authority
<1>5. ASSUME NEW s \in Slot, Adopt(s)
      PROVE  TypeOK'
  <2>1. ~ Free(s) /\ req[s] \in Request
    BY <1>5 DEF Adopt, Answered, TypeOK, Free
  <2>2. req[s].token \in Token \cup {None} /\ "self" \in Kind
    BY <2>1 DEF Request, Kind
  <2>3. Sent("self", req[s].token) \in Request
    BY <2>2, SentIsRequest
  <2>4. QED
    BY <1>5, <2>2, <2>3 DEF Adopt, Send, TypeOK
<1>6. ASSUME NEW s \in Slot, Confirm(s) \/ Retain(s) \/ Discard(s) \/ Return(s)
      PROVE  TypeOK'
  <2>1. req[s].token \in Token \cup {None}
    BY <1>6 DEF Confirm, Retain, Discard, DiscardRefused, NoteUnauthenticated, Return, Answered,
                TypeOK, Free, Request
  <2>2. req' \in [Slot -> Request \cup {None}]
    BY <1>6 DEF Confirm, Retain, Discard, DiscardRefused, NoteUnauthenticated, Return, Done, TypeOK
  <2>3. QED
    BY <1>6, <2>1, <2>2 DEF Confirm, Retain, Discard, DiscardRefused, NoteUnauthenticated,
                            Return, Clear, SetBy, TypeOK, authority
<1>7. ASSUME NEW t \in Token, Revoke(t)
      PROVE  TypeOK'
  BY <1>7 DEF Revoke, TypeOK, authority
<1>8. QED
  BY <1>1, <1>2, <1>3, <1>4, <1>5, <1>6, <1>7 DEF Next, Hear

--------------------------------------------------------------------------------
\* Steps of the client and of the service: one request changes, and stays of its kind
\* and of its token, or is the answer to an exchange, or is new and no resolution.
LEMMA OtherStep ==
  ASSUME IInv, TypeOK', UNCHANGED authority, NEW s \in Slot, req'[s] # None,
         \A r \in Slot : r # s => req'[r] = req[r],
         \/ Free(s) /\ req'[s].kind \in {"call", "exchange"} /\ req'[s].answer = "pending"
         \/ /\ ~ Free(s) /\ req'[s].kind = req[s].kind
            /\ \/ req'[s].token = req[s].token /\ (req[s].kind = "exchange" => req'[s].answer # "ok")
               \/ req[s].kind = "exchange" /\ req'[s].token # None
  PROVE  IInv'
<1>1. CarriesToken'
  BY DEF IInv, CarriesToken, Free
<1>2. Resolving' <=> Resolving
  BY DEF Resolving, Free
<1>3. QED
  BY <1>1, <1>2 DEF IInv, Agrees, authority

LEMMA ClientStep ==
  ASSUME IInv, TypeOK', NEW s \in Slot, Call(s) \/ Enroll(s)
  PROVE  IInv'
<1>1. PICK kind \in {"call", "exchange"}, token \in Token \cup {None} :
        /\ Free(s) /\ Send(s, kind, token) /\ UNCHANGED authority
  BY DEF Call, Enroll, IInv, TypeOK
<1>2. kind \in Kind
  BY DEF Kind
<1>3. /\ req'[s] # None /\ req'[s].kind = kind /\ req'[s].answer = "pending"
      /\ \A r \in Slot : r # s => req'[r] = req[r]
  BY <1>1, <1>2, SlotSet, SentIsRequest DEF Send, IInv, TypeOK
<1>4. QED
  BY <1>1, <1>3, OtherStep

LEMMA ServiceStep ==
  ASSUME IInv, TypeOK', NEW s \in Slot,
         Verify(s) \/ FailToVerify(s) \/ Fail(s) \/ \E t \in Token : Exchange(s, t)
  PROVE  IInv'
<1>1. ~ Free(s) /\ UNCHANGED authority /\ req[s] \in Request /\ req[s] # None
  BY DEF Verify, FailToVerify, Fail, Exchange, Answered, IInv, TypeOK, Free
<1>2. ASSUME NEW answer \in {"ok", "refused", "failed"}, Answer(s, answer),
             req[s].kind = "exchange" => answer # "ok"
      PROVE  IInv'
  <2>1. req' = [req EXCEPT ![s] = [req[s] EXCEPT !.answer = answer]]
    BY <1>1, <1>2 DEF Answer, IInv, TypeOK
  <2>2. /\ req'[s] \in Request /\ req'[s].kind = req[s].kind
        /\ req'[s].token = req[s].token /\ req'[s].answer = answer
    BY <1>1, <2>1, AnsweredIsRequest DEF IInv, TypeOK
  <2>3. \A r \in Slot : r # s => req'[r] = req[r]
    BY <2>1 DEF IInv, TypeOK
  <2>4. req'[s] # None
    BY <2>2
  <2>5. QED
    BY <1>1, <1>2, <2>2, <2>3, <2>4, OtherStep
<1>3. CASE Verify(s)
  <2>1. req[s].kind # "exchange"
    BY <1>3 DEF Verify, Answered
  <2>2. CASE req[s].token \in live
    BY <1>2, <1>3, <2>1, <2>2 DEF Verify
  <2>3. CASE req[s].token \notin live
    BY <1>2, <1>3, <2>3 DEF Verify
  <2>4. QED
    BY <2>2, <2>3
<1>4. CASE FailToVerify(s) \/ Fail(s)
  BY <1>2, <1>4 DEF FailToVerify, Fail
<1>5. ASSUME NEW t \in Token, Exchange(s, t)
      PROVE  IInv'
  <2>1. req' = [req EXCEPT ![s] = [req[s] EXCEPT !.answer = "ok", !.token = t]]
    BY <1>1, <1>5 DEF Exchange, IInv, TypeOK
  <2>2. /\ req'[s] \in Request /\ req'[s].kind = req[s].kind /\ req'[s].token = t
        /\ \A r \in Slot : r # s => req'[r] = req[r]
    BY <1>1, <2>1 DEF IInv, TypeOK, Request
  <2>3. req[s].kind = "exchange" /\ t # None /\ req'[s] # None
    BY <1>5, <2>2 DEF Exchange, Answered
  <2>4. QED
    BY <1>1, <2>2, <2>3, OtherStep
<1>6. QED
  BY <1>3, <1>4, <1>5

--------------------------------------------------------------------------------
\* The holder hears an answer: the request is over, or becomes that of the identity.
LEMMA HearStep ==
  ASSUME IInv, TypeOK', NEW s \in Slot, Hear(s)
  PROVE  IInv'
<1>1. ~ Free(s) /\ req[s] \in Request
  BY DEF IInv, TypeOK, Hear, Adopt, Confirm, Retain, Discard, DiscardRefused, NoteUnauthenticated,
         Return, Answered, Free
<1>2. CASE Adopt(s)
  <2>1. req[s].token \in Token
    BY <1>1, <1>2 DEF Adopt, Answered, IInv, CarriesToken, Request
  <2>2. /\ req'[s] # None /\ req'[s].kind = "self" /\ req'[s].token = req[s].token
        /\ \A r \in Slot : r # s => req'[r] = req[r]
    <3>1. "self" \in Kind
      BY DEF Kind
    <3>2. Sent("self", req[s].token) \in Request
      BY <2>1, <3>1, SentIsRequest
    <3>3. QED
      BY <1>2, <2>1, <3>1, <3>2, SlotSet, SentIsRequest DEF Adopt, Send, IInv, TypeOK
  <2>3. CarriesToken' /\ Resolving'
    BY <2>1, <2>2 DEF IInv, CarriesToken, Resolving, Free
  <2>4. QED
    BY <2>3 DEF IInv
<1>3. ASSUME Done(s)
      PROVE  /\ req'[s] = None
             /\ \A r \in Slot : r # s => req'[r] = req[r]
             /\ CarriesToken'
  <2>1. /\ req'[s] = None
        /\ \A r \in Slot : r # s => req'[r] = req[r]
    BY <1>3, SlotSet DEF Done, IInv, TypeOK
  <2>2. QED
    BY <2>1 DEF IInv, CarriesToken, Free
<1>4. CASE Confirm(s)
  <2>1. req[s].token # None
    BY <1>1, <1>4 DEF Confirm, Answered, IInv, CarriesToken
  <2>2. ~ stale' => Agrees'
    BY <1>4, <2>1 DEF Confirm, SetBy, Agrees
  <2>3. QED
    BY <1>3, <1>4, <2>2 DEF Confirm, IInv
<1>5. CASE Retain(s)
  <2>1. req[s].token # None
    BY <1>1, <1>5 DEF Retain, Answered, IInv, CarriesToken
  <2>2. ~ stale' => Agrees'
    BY <1>5, <2>1 DEF Retain, SetBy, Agrees
  <2>3. QED
    BY <1>3, <1>5, <2>2 DEF Retain, IInv
<1>6. CASE Clear /\ Done(s)
  <2>1. Agrees'
    BY <1>6 DEF Clear, Agrees
  <2>2. QED
    BY <1>3, <1>6, <2>1 DEF IInv
<1>7. CASE UNCHANGED authority /\ Done(s) /\ req[s].kind \in {"call", "exchange"}
  <2>1. Resolving' <=> Resolving
    BY <1>3, <1>7 DEF Resolving, Free
  <2>2. QED
    BY <1>3, <1>7, <2>1 DEF IInv, Agrees, authority
<1>8. QED
  BY <1>2, <1>4, <1>5, <1>6, <1>7 DEF Hear, Discard, DiscardRefused, NoteUnauthenticated, Return,
                                      Answered

LEMMA SessionInvariance == Spec => []IInv
<1>1. IInv /\ [Next]_vars => IInv'
  <2> SUFFICES ASSUME IInv, [Next]_vars
               PROVE  IInv'
    OBVIOUS
  <2>1. TypeOK'
    BY TypesStep DEF IInv
  <2>2. CASE UNCHANGED vars
    BY <2>2 DEF IInv, TypeOK, CarriesToken, Agrees, Resolving, Free, vars, authority
  <2>3. ASSUME NEW t \in Token, Revoke(t)
        PROVE  IInv'
    BY <2>1, <2>3 DEF Revoke, IInv, CarriesToken, Agrees, Resolving, Free, authority
  <2>4. QED
    BY <2>1, <2>2, <2>3, ClientStep, ServiceStep, HearStep DEF Next
<1>2. QED
  BY InitInv, <1>1, PTL DEF Spec

--------------------------------------------------------------------------------
(* The feed. *)

\* The requests of the client.
LEMMA FeedClientStep ==
  ASSUME FeedInv, NEW u \in Uri,
         \/ SubscribeLive(u) \/ SubscribeJoining(u) \/ Unsubscribe(u)
         \/ \E s \in Stream : SubscribeOpening(u, s)
  PROVE  FeedInv'
<1>1. CASE SubscribeLive(u) \/ SubscribeJoining(u) \/ Unsubscribe(u)
  BY <1>1 DEF FeedInv, FeedTypeOK, HandleIsOpen, SubscribeLive, SubscribeJoining, Unsubscribe
<1>2. ASSUME NEW s \in Stream, SubscribeOpening(u, s)
      PROVE  FeedInv'
  BY <1>2 DEF FeedInv, FeedTypeOK, HandleIsOpen, SubscribeOpening, Connect
<1>3. QED
  BY <1>1, <1>2

\* What becomes of a connection.
LEMMA ConnectionStep ==
  ASSUME FeedInv, NEW s \in Stream,
         \/ Establish(s) \/ Reject(s) \/ LoseUnwatched(s) \/ LoseInactive(s)
         \/ \E next \in Stream : Lose(s, next)
  PROVE  FeedInv'
<1>1. CASE Establish(s)
  BY <1>1 DEF FeedInv, FeedTypeOK, HandleIsOpen, Establish, TellClient
<1>2. CASE Reject(s)
  BY <1>2 DEF FeedInv, FeedTypeOK, HandleIsOpen, Reject, TellClient
<1>3. CASE LoseUnwatched(s) \/ LoseInactive(s)
  BY <1>3 DEF FeedInv, FeedTypeOK, HandleIsOpen, LoseUnwatched, LoseInactive, TellClient
<1>4. ASSUME NEW next \in Stream, Lose(s, next)
      PROVE  FeedInv'
  <2>1. s # next /\ opening # s /\ opening # next
    BY <1>4 DEF FeedInv, FeedTypeOK, Lose
  <2>2. QED
    BY <1>4, <2>1 DEF FeedInv, FeedTypeOK, HandleIsOpen, Lose, TellClient
<1>5. QED
  BY <1>1, <1>2, <1>3, <1>4

LEMMA FeedInvariance == FeedSpec => []FeedInv
<1>1. FeedInit => FeedInv
  BY DEF FeedInit, FeedInv, FeedTypeOK, HandleIsOpen
<1>2. FeedInv /\ [FeedNext]_feedVars => FeedInv'
  <2> SUFFICES ASSUME FeedInv, [FeedNext]_feedVars
               PROVE  FeedInv'
    OBVIOUS
  <2>1. CASE UNCHANGED feedVars
    BY <2>1 DEF FeedInv, FeedTypeOK, HandleIsOpen, feedVars
  <2>2. QED
    BY <2>1, FeedClientStep, ConnectionStep DEF FeedNext
<1>3. QED
  BY <1>1, <1>2, PTL DEF FeedSpec

\* Seen alone, each part takes its own steps.
LEMMA Parts == ServerSpec => Spec /\ FeedSpec
<1>1. ServerInit => Init /\ FeedInit
  BY DEF ServerInit
<1>2. [ServerNext]_<<vars, feedVars>> => [Next]_vars /\ [FeedNext]_feedVars
  BY DEF ServerNext
<1>3. QED
  BY <1>1, <1>2, PTL DEF ServerSpec, Spec, FeedSpec

--------------------------------------------------------------------------------
(* The theorems. *)

\* The state is always one of the four the holder declares, with a token or none, and
\* requests of the kinds the tools send; `opening` is a connection being made.
THEOREM TypeCorrect == ServerSpec => [](TypeOK /\ FeedTypeOK)
BY Parts, SessionInvariance, FeedInvariance, PTL DEF IInv, FeedInv

\* The session is never split, however calls and enrollments overlap, once the state was
\* set by an answer about the token held: it says it is enrolled exactly when it holds a
\* token, and identity and token agree (resolve, noteResolveFailure, clear).
THEOREM NoSplitBrain == ServerSpec => []SessionCoherent
<1>1. IInv => SessionCoherent
  BY SameCoherence DEF IInv
<1>2. QED
  BY <1>1, Parts, SessionInvariance, PTL

\* Only a refusal by the service empties the box: no outage, no lost answer and no spent
\* code costs the operator's approval (noteResolveFailure).
THEOREM OnlyRefusalDiscards == ServerSpec => TokenKeptUntilRefused
<1> DEFINE Kept == box # None /\ box' = None => \E s \in Slot : ~ Free(s) /\ req[s].answer = "refused"
<1>1. IInv /\ [Next]_vars => [Kept]_vars
  <2> SUFFICES ASSUME IInv, Next, box # None, box' = None
               PROVE  \E s \in Slot : ~ Free(s) /\ req[s].answer = "refused"
    OBVIOUS
  <2>1. ASSUME NEW s \in Slot, Discard(s)
        PROVE  ~ Free(s) /\ req[s].answer = "refused"
    BY <2>1 DEF Discard, DiscardRefused, NoteUnauthenticated, Answered
  <2>2. ASSUME NEW s \in Slot, Adopt(s)
        PROVE  FALSE
    BY <2>2 DEF Adopt, Answered, IInv, CarriesToken
  <2>3. QED
    BY <2>1, <2>2 DEF Next, Hear, Call, Enroll, Verify, FailToVerify, Fail, Exchange, Revoke,
                      Confirm, Retain, SetBy, Return, authority
<1>2. QED
  BY <1>1, Parts, SessionInvariance, PTL DEF Spec, TokenKeptUntilRefused

\* Whoever is told that it is subscribed has a stream behind it at that time, whatever
\* was lost and reopened while its request waited (subscribe, ensureStream).
THEOREM SubscriptionsAreArmed == ServerSpec => SubscribedMeansLive
<1> DEFINE Armed == subscriptions' \ subscriptions # {} => In("open")' # {}
<1>1. FeedInv /\ [FeedNext]_feedVars => [Armed]_feedVars
  <2> SUFFICES ASSUME FeedInv, FeedNext, NEW x \in subscriptions' \ subscriptions
               PROVE  In("open")' # {}
    OBVIOUS
  <2>1. ASSUME NEW u \in Uri, SubscribeLive(u)
        PROVE  stream \in In("open")'
    BY <2>1 DEF FeedInv, FeedTypeOK, HandleIsOpen, SubscribeLive, In
  <2>2. ASSUME NEW s \in Stream, Establish(s)
        PROVE  s \in In("open")'
    BY <2>2 DEF FeedInv, FeedTypeOK, Establish, In
  <2>3. QED
    BY <2>1, <2>2 DEF FeedNext, SubscribeJoining, SubscribeOpening, Unsubscribe, Reject,
                      LoseUnwatched, LoseInactive, Lose
<1>2. QED
  BY <1>1, Parts, FeedInvariance, PTL DEF FeedSpec, SubscribedMeansLive
================================================================================
