--------------------------------- MODULE Inbox ---------------------------------
(***************************************************************************)
(* Delivery: how a message posted to channel.md reaches a reader, and what *)
(* the reader's acknowledgements hide from it afterwards.                  *)
(*                                                                         *)
(* The channel file is reduced to what the inbox tells apart: the ids on   *)
(* its markers, which blocks parse, which are archived and which are       *)
(* memory-updates.  Ids are ULIDs, compared as strings, so they are the    *)
(* naturals up to MaxId here: 0 is NO_CURSOR and MaxId the id of 26 `Z`s.  *)
(*                                                                         *)
(* GET /inbox reads the cursors and then awaits the file, so it is two     *)
(* steps; a post, an archive and a cursor move are one step each (under    *)
(* the channel lock, or in one transaction).  People edit the file too:    *)
(* the Hand actions are what src/ says of them.                            *)
(***************************************************************************)
EXTENDS Integers, FiniteSets

CONSTANTS
  Reader,       \* principals that hold channel:read and channel:ack
  MaxId,        \* the highest id there is, and so a bound on the messages
  Kind,         \* the cursors kept per view, "read" and "ack" in the code
  Limit,        \* `collabcast inbox --limit N`, or None for the whole inbox
  MaxByHand,    \* bound on the ids a hand-edit breaks or types in
  PruneNewest,  \* may a hand-edit take the block with the highest id away
  None

ASSUME IdAssumption    == MaxId \in Nat /\ MaxByHand \in Nat
ASSUME KindAssumption  == "ack" \in Kind
ASSUME NoneAssumption  == None \notin Nat
ASSUME LimitAssumption == Limit \in Nat \cup {None}
ASSUME PruneAssumption == PruneNewest \in BOOLEAN

VARIABLES
  tokens,    \* ids on a walkie:msg marker anywhere in the file
  broken,    \* those whose marker no longer parses
  archived,  \* those marked archived
  memory,    \* those of type memory-update
  byHand,    \* history: ids a hand-edit has broken or typed in
  minted,    \* the last id of the process's monotonic ULID factory
  marks,     \* table cursor: the id stored per reader, kind and view
  asking,    \* per reader, the view and ack mark its GET /inbox holds
  shown      \* history: per reader and view, the messages put before it

file == <<tokens, broken, archived, memory, byHand>>
vars == <<file, minted, marks, asking, shown>>

Id    == 1 .. MaxId
Mark  == 0 .. MaxId
View  == {"default", "withMemory"}

Request == [view : View, ack : Mark]

--------------------------------------------------------------------------------
\* The messages a view is about: the predicate of GET /inbox before its cutoff.
Deliverable(view) ==
  {m \in tokens \ (broken \cup archived) : view = "withMemory" \/ m \notin memory}

\* Mutant: one scalar mark for both views.
MarksMovedTogether(view) == View

\* The views whose mark an acknowledgement moves: what is read with the
\* memory-updates is evidence for both, as the default view is part of it.
KindsToAdvance(view) == IF view = "withMemory" THEN View ELSE {"default"}

\* What a reader has been shown of a view, through it or a wider one.
Seen(r, view) == UNION {shown[r][v] : v \in {w \in View : view \in KindsToAdvance(w)}}

\* The command line prints the newest Limit messages of an oldest-first list, and
\* all of it for 0, as slice(-0) does.
Printed(messages) ==
  IF Limit \in {None, 0} THEN messages
  ELSE {m \in messages : Cardinality({n \in messages : n > m}) < Limit}

--------------------------------------------------------------------------------
Init ==
  /\ tokens = {} /\ broken = {} /\ archived = {} /\ memory = {} /\ byHand = {}
  /\ minted = 0
  /\ marks = [r \in Reader |-> [k \in Kind |-> [v \in View |-> 0]]]
  /\ asking = [r \in Reader |-> None]
  /\ shown = [r \in Reader |-> [v \in View |-> {}]]

\* Mutant: the new id is the factory's, whatever the file holds.
NewIdUnfloored(id) == \E fresh \in Id : /\ fresh > minted
                                        /\ minted' = fresh
                                        /\ id = fresh

\* Mutant: the floor is the highest id that parses.
NewIdAfterParsed(id) ==
  \E fresh \in Id, floor \in (tokens \ broken) \cup {0} :
    /\ fresh > minted
    /\ \A t \in tokens \ broken : t =< floor
    /\ minted' = fresh
    /\ id = (IF fresh > floor THEN fresh ELSE floor + 1)
    /\ id \in Id

\* newIdAfter(highestId(text)).  Within a process the factory only goes up;
\* what it mints first depends on the clock, so it is any id.  A floor without
\* a successor refuses the post.
NewId(id) ==
  \E fresh \in Id, floor \in tokens \cup {0} :
    /\ fresh > minted
    /\ \A t \in tokens : t =< floor
    /\ minted' = fresh
    /\ id = (IF fresh > floor THEN fresh ELSE floor + 1)
    /\ id \in Id

Post(id, isMemory) ==
  /\ NewId(id)
  /\ tokens' = tokens \cup {id}
  /\ memory' = IF isMemory THEN memory \cup {id} ELSE memory
  /\ UNCHANGED <<broken, archived, byHand, marks, asking, shown>>

\* Archiving is for good: nothing in the program takes the flag off.
Archive(id) ==
  /\ id \in tokens \ broken
  /\ archived' = archived \cup {id}
  /\ UNCHANGED <<tokens, broken, memory, byHand, minted, marks, asking, shown>>

\* A new process seeds its factory from the clock again, and the requests of
\* the old one are gone.
Restart ==
  /\ minted' = 0
  /\ asking' = [r \in Reader |-> None]
  /\ UNCHANGED <<file, marks, shown>>

--------------------------------------------------------------------------------
(* The reader: GET /inbox, POST /cursor/ack and POST /cursor/read. *)

ReadCursors(r, view) ==
  /\ asking[r] = None
  /\ asking' = [asking EXCEPT ![r] = [view |-> view, ack |-> marks[r]["ack"][view]]]
  /\ UNCHANGED <<file, minted, marks, shown>>

\* The file is read, the cutoff taken and the response reaches the reader.
ReadChannel(r, view) ==
  /\ asking[r] # None
  /\ asking[r].view = view
  /\ LET visible == {m \in Deliverable(view) : m > asking[r].ack}
     IN  shown' = [shown EXCEPT ![r][view] = @ \cup Printed(visible)]
  /\ asking' = [asking EXCEPT ![r] = None]
  /\ UNCHANGED <<file, minted, marks>>

\* The request times out or its response is lost.
LoseResponse(r) ==
  /\ asking[r] # None
  /\ asking' = [asking EXCEPT ![r] = None]
  /\ UNCHANGED <<file, minted, marks, shown>>

\* The upsert of advanceCursor: a lower or equal id changes nothing.
AdvanceCursor(stored, id) == IF stored < id THEN id ELSE stored

\* A reader names the last message it was shown in a view.  Sending the call
\* again, late or out of order is the same action at a later time.
MoveMark(r, kind, view, id) ==
  /\ id \in shown[r][view]
  /\ marks' = [marks EXCEPT ![r][kind] =
                 [v \in View |-> IF v \in KindsToAdvance(view)
                                 THEN AdvanceCursor(@[v], id) ELSE @[v]]]
  /\ UNCHANGED <<file, minted, asking, shown>>

--------------------------------------------------------------------------------
(* People with an editor, who take no lock and keep no rule. *)

TouchByHand(id) ==
  /\ byHand' = byHand \cup {id}
  /\ Cardinality(byHand') =< MaxByHand

\* A marker is spoilt, its `id=` token still there; or spoilt and then mended.
HandBreak(id) ==
  /\ id \in tokens
  /\ broken' = broken \cup {id}
  /\ TouchByHand(id)
  /\ UNCHANGED <<tokens, archived, memory, minted, marks, asking, shown>>

HandMend(id) ==
  /\ id \in broken
  /\ broken' = broken \ {id}
  /\ UNCHANGED <<tokens, archived, memory, byHand, minted, marks, asking, shown>>

\* A block is taken out, as a retention prune would, or a stray one put in.
HandRemove(id) ==
  /\ id \in tokens
  /\ PruneNewest \/ \E t \in tokens : t > id
  /\ tokens' = tokens \ {id}
  /\ broken' = broken \ {id}
  /\ archived' = archived \ {id}
  /\ memory' = memory \ {id}
  /\ UNCHANGED <<byHand, minted, marks, asking, shown>>

HandInsert(id) ==
  /\ id \notin tokens
  /\ tokens' = tokens \cup {id}
  /\ TouchByHand(id)
  /\ UNCHANGED <<broken, archived, memory, minted, marks, asking, shown>>

--------------------------------------------------------------------------------
ReaderNext(r) ==
  \/ \E view \in View : ReadCursors(r, view) \/ ReadChannel(r, view)
  \/ LoseResponse(r)
  \/ \E kind \in Kind, view \in View, id \in Id : MoveMark(r, kind, view, id)

Next ==
  \/ \E id \in Id, isMemory \in BOOLEAN : Post(id, isMemory)
  \/ \E id \in Id : \/ Archive(id)
                    \/ HandBreak(id) \/ HandMend(id) \/ HandRemove(id) \/ HandInsert(id)
  \/ Restart
  \/ \E r \in Reader : ReaderNext(r)

Spec == Init /\ [][Next]_vars

\* A request ends, by its answer or by the client's timeout.
Ends(r) == LoseResponse(r) \/ \E view \in View : ReadChannel(r, view)

\* The hook asks on every prompt (hooks/scripts/check-inbox.sh), always for the
\* default view, and not every answer it gets is lost.  Nothing asks for the
\* memory-updates of its own accord.
Polling ==
  \A r \in Reader :
    /\ SF_vars(ReadCursors(r, "default"))
    /\ SF_vars(ReadChannel(r, "default"))
    /\ WF_vars(Ends(r))

FairSpec == Spec /\ Polling

--------------------------------------------------------------------------------
TypeOK ==
  /\ tokens \subseteq Id
  /\ broken \subseteq tokens
  /\ archived \subseteq tokens
  /\ memory \subseteq tokens
  /\ byHand \subseteq Id
  /\ minted \in Mark
  /\ marks \in [Reader -> [Kind -> [View -> Mark]]]
  /\ asking \in [Reader -> Request \cup {None}]
  /\ shown \in [Reader -> [View -> SUBSET Id]]

\* Non-delivery is never recorded as acknowledgement: a message a reader has
\* not been shown stays above its ack mark, in either view, whatever else was
\* acknowledged, archived, spoilt or pruned.  (A block that a person spoilt and
\* mended, or typed in, has no such promise.)
NothingLost ==
  \A r \in Reader, view \in View :
    \A m \in Deliverable(view) \ (byHand \cup Seen(r, view)) : m > marks[r]["ack"][view]

\* The default mark is never behind the memory-inclusive one, for either kind:
\* whoever has read the wider view has read the narrower.
DefaultMarkLeads ==
  \A r \in Reader, kind \in Kind :
    marks[r][kind]["withMemory"] =< marks[r][kind]["default"]

\* Marks only go forward, through retries, late calls and restarts.
MarksOnlyAdvance ==
  [][\A r \in Reader, kind \in Kind, view \in View :
       marks[r][kind][view] =< marks'[r][kind][view]]_marks

\* A new message is above every id in the file and every mark any reader holds,
\* across restarts and clock steps (appendMessage on newIdAfter).
PostsLandOnTop ==
  [][minted' # minted => \A id \in tokens' \ tokens :
       /\ \A t \in tokens : t < id
       /\ \A r \in Reader, kind \in Kind, view \in View : marks[r][kind][view] < id]_vars

\* A reader whose hook asks on every prompt is shown every message of the default
\* view, unless it is archived, removed or spoilt first; whatever it looks at, and
\* acknowledges, in the memory-inclusive view meanwhile.
EveryMessageShown ==
  \A r \in Reader, m \in Id :
    m \in Deliverable("default") \ byHand
      ~> (m \in Seen(r, "default") \/ m \notin Deliverable("default") \ byHand)
================================================================================
