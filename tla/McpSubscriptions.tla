---------------------------- MODULE McpSubscriptions ----------------------------
(***************************************************************************)
(* The resource subscriptions of a MCP server process and the one event    *)
(* stream that is to serve them all.                                       *)
(*                                                                         *)
(* A step is what runs between two turns of the event loop: a request of   *)
(* the client, the answer to a connection, the end of a stream, each with  *)
(* all the promise continuations it sets off.  Whether the session may open*)
(* a feed is McpSession's to say.                                          *)
(***************************************************************************)
EXTENDS McpSession

CONSTANTS
  Uri,     \* RESOURCES
  Stream,  \* GET /events requests, and so a bound on them
  NoStream \* no connection

ASSUME NoStreamAssumption == NoStream \notin Stream

VARIABLES
  subscriptions,
  waiting,  \* the resources whose subscribe request awaits `opening`
  stream,   \* the handle that unsubscribe would close
  opening,  \* the connection that `opening` is the promise of
  conn,     \* per connection, how far it has got
  running   \* the server process has not ended

feedVars == <<subscriptions, waiting, stream, opening, conn, running>>

In(phase)   == {s \in Stream : conn[s] = phase}
Connect(s)  == conn[s] = "unused" /\ conn' = [conn EXCEPT ![s] = "connecting"]

FeedInit ==
  /\ subscriptions = {} /\ waiting = {}
  /\ stream = NoStream /\ opening = NoStream
  /\ conn = [s \in Stream |-> "unused"]
  /\ running = TRUE

\* requireActive.
Active == state = "active"

\* tellClient: the SDK refuses notifications/message of a server that declares no
\* logging capability. Nobody awaits or catches that, so the client hears nothing and
\* the runtime ends the process, or has been told not to.
TellClient == running' \in BOOLEAN

--------------------------------------------------------------------------------
(* The client. *)

\* subscribe with the feed armed.
SubscribeLive(u) ==
  /\ stream # NoStream
  /\ subscriptions' = subscriptions \cup {u}
  /\ UNCHANGED <<waiting, stream, opening, conn, running>>

\* Mutant: the resource is registered before the feed is armed.
SubscribeEarly(u) ==
  /\ stream = NoStream
  /\ opening # NoStream
  /\ subscriptions' = subscriptions \cup {u}
  /\ waiting' = waiting \cup {u}
  /\ UNCHANGED <<stream, opening, conn, running>>

\* subscribe while another subscribe is opening the feed.
SubscribeJoining(u) ==
  /\ stream = NoStream
  /\ opening # NoStream
  /\ waiting' = waiting \cup {u}
  /\ UNCHANGED <<subscriptions, stream, opening, conn, running>>

\* subscribe that opens the feed; without an active capability it is refused.
SubscribeOpening(u, s) ==
  /\ stream = NoStream
  /\ opening = NoStream
  /\ Active
  /\ Connect(s)
  /\ opening' = s
  /\ waiting' = {u}
  /\ UNCHANGED <<subscriptions, stream, running>>

\* The last one to go closes the stream.
Unsubscribe(u) ==
  /\ subscriptions' = subscriptions \ {u}
  /\ IF subscriptions' = {} /\ stream # NoStream
       THEN /\ conn' = [conn EXCEPT ![stream] = "closed"]
            /\ stream' = NoStream
       ELSE UNCHANGED <<conn, stream>>
  /\ UNCHANGED <<waiting, opening, running>>

--------------------------------------------------------------------------------
(* The connection. *)

\* reopen resumes with a stream: those that wait for it are subscribed, or the
\* client would hear that the feed is back.
Establish(s) ==
  /\ conn[s] = "connecting"
  /\ conn' = [conn EXCEPT ![s] = "open"]
  /\ stream' = s
  /\ IF s = opening
       THEN /\ subscriptions' = subscriptions \cup waiting
            /\ opening' = NoStream
            /\ waiting' = {}
            /\ UNCHANGED running
       ELSE TellClient /\ UNCHANGED <<subscriptions, opening, waiting>>

\* reopen fails: those that wait for it get the error, or the client would hear
\* that the feed stays closed.
Reject(s) ==
  /\ conn[s] = "connecting"
  /\ conn' = [conn EXCEPT ![s] = "closed"]
  /\ IF s = opening
       THEN opening' = NoStream /\ waiting' = {} /\ UNCHANGED running
       ELSE TellClient /\ UNCHANGED <<opening, waiting>>
  /\ UNCHANGED <<subscriptions, stream>>

\* onStreamError when nothing is subscribed: only the state of the stream changes.
LoseUnwatched(s) ==
  /\ conn[s] = "open"
  /\ subscriptions = {}
  /\ conn' = [conn EXCEPT ![s] = "closed"]
  /\ stream' = NoStream
  /\ UNCHANGED <<subscriptions, waiting, opening, running>>

\* onStreamError: the handle is dropped, the client would be warned, and one reopen
\* is started on the side, beside `opening`.
Lose(s, next) ==
  /\ conn[s] = "open" /\ conn[next] = "unused"
  /\ subscriptions # {} /\ Active
  /\ conn' = [conn EXCEPT ![s] = "closed", ![next] = "connecting"]
  /\ stream' = NoStream
  /\ TellClient
  /\ UNCHANGED <<subscriptions, waiting, opening>>

\* onStreamError without an active capability: the reopen is refused at once.
LoseInactive(s) ==
  /\ conn[s] = "open"
  /\ subscriptions # {} /\ ~ Active
  /\ conn' = [conn EXCEPT ![s] = "closed"]
  /\ stream' = NoStream
  /\ TellClient
  /\ UNCHANGED <<subscriptions, waiting, opening>>

--------------------------------------------------------------------------------
\* A step of the subscriptions, for a server that takes requests.
FeedNext ==
  /\ Serving
  /\ \/ \E u \in Uri : SubscribeLive(u) \/ SubscribeJoining(u) \/ Unsubscribe(u)
     \/ \E u \in Uri, s \in Stream : SubscribeOpening(u, s)
     \/ \E s \in Stream : Establish(s) \/ Reject(s) \/ LoseUnwatched(s) \/ LoseInactive(s)
     \/ \E s, next \in Stream : Lose(s, next)

FeedSpec == FeedInit /\ [][FeedNext]_feedVars

--------------------------------------------------------------------------------
(***************************************************************************)
(* Properties.                                                             *)
(***************************************************************************)

\* Types; `opening` is a connection that is being made, for requests that wait.
FeedTypeOK ==
  /\ subscriptions \subseteq Uri /\ waiting \subseteq Uri
  /\ stream \in Stream \cup {NoStream}
  /\ opening \in Stream \cup {NoStream}
  /\ conn \in [Stream -> {"unused", "connecting", "open", "closed"}]
  /\ running \in BOOLEAN
  /\ opening = NoStream <=> waiting = {}
  /\ opening # NoStream => conn[opening] = "connecting"

\* "A subscribe that could not arm the feed must leave nothing behind" (subscribe): a
\* resource is registered only while a stream is open, never on a handle that has died,
\* whatever opened, failed, was reopened or was unsubscribed while its request waited.
SubscribedMeansLive == [][subscriptions' \ subscriptions # {} => In("open")' # {}]_feedVars

\* No "orphan HTTP request holding the socket open with nobody able to close it"
\* (ensureStream): a stream that is open is the one unsubscribe would close. False of the
\* code, whose reopen on the side overwrites a handle that a subscribe has opened.
NoOrphanedStream == In("open") \subseteq {stream}
================================================================================
