----------------------------- MODULE AtomicChannel -----------------------------
(***************************************************************************)
(* What the channel promises its clients: a write takes effect at one      *)
(* instant between its request and its answer, on the channel as it is at  *)
(* that instant, or not at all.  A write that is answered `ok` has taken   *)
(* effect, one that is refused or answered `busy` has not and never will;  *)
(* only of one that fails, or whose service dies, can a client not tell.   *)
(***************************************************************************)
EXTENDS ChannelText

VARIABLES
  channel,  \* the channel
  request,  \* per write, what it asks
  applied,  \* the writes that have taken effect
  answer    \* per write, what its client has been told

vars == <<channel, request, applied, answer>>

Answer == {"none", "ok", "refused", "busy", "failed"}

Init ==
  /\ channel \in OldFiles
  /\ request = [w \in Write |-> None]
  /\ applied = {}
  /\ answer = [w \in Write |-> "none"]

Open(w) == request[w] # None /\ answer[w] = "none"

Tell(w, result) ==
  /\ answer' = [answer EXCEPT ![w] = result]
  /\ UNCHANGED <<channel, applied>>

Submit(w, r) ==
  /\ request[w] = None
  /\ IsFor(r, w)
  /\ request' = [request EXCEPT ![w] = r]
  /\ UNCHANGED <<channel, applied, answer>>

\* A request that is refused on sight.
Refuse(w, r) ==
  /\ request[w] = None
  /\ IsFor(r, w)
  /\ request' = [request EXCEPT ![w] = r]
  /\ Tell(w, "refused")

TakeEffect(w) ==
  /\ Open(w)
  /\ w \notin applied
  /\ Permitted(channel, request[w])
  /\ channel' = Rewritten(channel, w, request[w])
  /\ applied' = applied \cup {w}
  /\ UNCHANGED <<request, answer>>

Succeed(w) == Open(w) /\ w \in applied    /\ Tell(w, "ok")   /\ UNCHANGED request
GiveUp(w)  == Open(w) /\ w \notin applied /\ Tell(w, "busy") /\ UNCHANGED request

\* Any number of requests fail together, when the process that serves them dies.
Fail(some) ==
  /\ \A w \in some : Open(w)
  /\ answer' = [w \in Write |-> IF w \in some THEN "failed" ELSE answer[w]]
  /\ UNCHANGED <<channel, request, applied>>

Next ==
  \/ \E w \in Write, r \in Request : Submit(w, r) \/ Refuse(w, r)
  \/ \E w \in Write : TakeEffect(w) \/ Succeed(w) \/ GiveUp(w)
  \/ \E some \in SUBSET Write : Fail(some)

Spec == Init /\ [][Next]_vars
================================================================================
