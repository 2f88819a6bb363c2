------------------------------ MODULE Inbox_proofs ------------------------------
(***************************************************************************)
(* Proofs about Inbox, for any readers, ids and bounds.  What is lost to   *)
(* a capped listing or to a pruned newest block is not provable, so the    *)
(* theorems that need the whole inbox, or the newest id kept, assume it.   *)
(***************************************************************************)
EXTENDS Inbox, TLAPS

USE IdAssumption, NoneAssumption, KindAssumption

Basics == TypeOK /\ DefaultMarkLeads

\* What readers were shown, and their marks, are at or below the newest id.
BelowNewest ==
  \A r \in Reader, view \in View :
    /\ \A m \in shown[r][view] : \E t \in tokens : m =< t
    /\ \A kind \in Kind : marks[r][kind][view] = 0 \/ \E t \in tokens : marks[r][kind][view] =< t

\* The mark a request took its cutoff from has not moved back since.
CutoffNotAhead ==
  \A r \in Reader : asking[r] # None =>
    asking[r].ack =< marks[r]["ack"][asking[r].view]

\* Whatever a reader may acknowledge next, all it has not seen is above that.
ShownIsCut ==
  \A r \in Reader, view \in View : \A w \in KindsToAdvance(view) :
    \A s \in shown[r][view], m \in Deliverable(w) \ (byHand \cup Seen(r, w)) : m > s

\* Only people spoil markers.
BrokenByHand == broken \subseteq byHand

Delivery == BrokenByHand /\ CutoffNotAhead /\ ShownIsCut /\ NothingLost

--------------------------------------------------------------------------------
(* The cursor write. *)

LEMMA AdvanceFacts ==
  ASSUME NEW a \in Mark, NEW b \in Mark
  PROVE  /\ AdvanceCursor(a, b) \in Mark
         /\ a =< AdvanceCursor(a, b)
         /\ AdvanceCursor(a, b) \in {a, b}
         /\ \A c \in Mark : c =< a => AdvanceCursor(c, b) =< AdvanceCursor(a, b)
         /\ \A c \in Mark : c =< a => c =< AdvanceCursor(a, b)
BY DEF AdvanceCursor, Mark

\* What MoveMark leaves in the table, reader by reader, kind by kind.
LEMMA MoveFacts ==
  ASSUME TypeOK, NEW r \in Reader, NEW kind \in Kind, NEW view \in View, NEW id \in Id,
         MoveMark(r, kind, view, id)
  PROVE  /\ marks' \in [Reader -> [Kind -> [View -> Mark]]]
         /\ \A q \in Reader, k \in Kind, v \in View :
              marks'[q][k][v] =
                IF q = r /\ k = kind /\ v \in KindsToAdvance(view)
                THEN AdvanceCursor(marks[q][k][v], id) ELSE marks[q][k][v]
<1> DEFINE moved == [v \in View |-> IF v \in KindsToAdvance(view)
                                    THEN AdvanceCursor(marks[r][kind][v], id)
                                    ELSE marks[r][kind][v]]
<1>1. marks \in [Reader -> [Kind -> [View -> Mark]]] /\ id \in Mark
  BY DEF TypeOK, Id, Mark
<1>2. moved \in [View -> Mark]
  BY <1>1, AdvanceFacts
<1>3. marks' = [marks EXCEPT ![r][kind] = moved]
  BY DEF MoveMark
<1>4. QED
  BY <1>1, <1>2, <1>3

--------------------------------------------------------------------------------
(* Types and the order of the two marks hold whatever the constants are. *)

LEMMA BasicsInit == Init => Basics
<1> SUFFICES ASSUME Init
             PROVE  Basics
  OBVIOUS
<1>1. /\ marks \in [Reader -> [Kind -> [View -> Mark]]]
      /\ \A r \in Reader, k \in Kind, v \in View : marks[r][k][v] = 0
  BY DEF Init, Mark
<1>2. TypeOK
  BY <1>1 DEF Init, TypeOK, Id, Mark
<1>3. DefaultMarkLeads
  BY <1>1 DEF DefaultMarkLeads, View
<1>4. QED
  BY <1>2, <1>3 DEF Basics

LEMMA BasicsNext == Basics /\ [Next]_vars => Basics'
<1> SUFFICES ASSUME Basics, [Next]_vars
             PROVE  Basics'
  OBVIOUS
<1> USE DEF Basics
<1>1. ASSUME NEW id \in Id, NEW isMemory \in BOOLEAN, Post(id, isMemory)
      PROVE  Basics'
  BY <1>1 DEF Post, NewId, TypeOK, DefaultMarkLeads, Id, Mark
<1>2. ASSUME NEW id \in Id, Archive(id) \/ HandBreak(id) \/ HandMend(id) \/ HandRemove(id)
                            \/ HandInsert(id)
      PROVE  Basics'
  BY <1>2 DEF Archive, HandBreak, HandMend, HandRemove, HandInsert, TouchByHand,
              TypeOK, DefaultMarkLeads
<1>3. CASE Restart
  BY <1>3 DEF Restart, file, TypeOK, DefaultMarkLeads, Mark
<1>4. ASSUME NEW r \in Reader, NEW view \in View, ReadCursors(r, view)
      PROVE  Basics'
  BY <1>4 DEF ReadCursors, file, TypeOK, DefaultMarkLeads, Request
<1>5. ASSUME NEW r \in Reader, NEW view \in View, ReadChannel(r, view)
      PROVE  Basics'
  <2> DEFINE visible == {m \in Deliverable(view) : m > asking[r].ack}
  <2>1. Printed(visible) \subseteq Id
    BY DEF Printed, Deliverable, TypeOK
  <2>2. shown' = [shown EXCEPT ![r][view] = @ \cup Printed(visible)]
    BY <1>5 DEF ReadChannel
  <2>3. shown' \in [Reader -> [View -> SUBSET Id]]
    BY <2>1, <2>2 DEF TypeOK
  <2>4. QED
    BY <1>5, <2>3 DEF ReadChannel, file, TypeOK, DefaultMarkLeads
<1>6. ASSUME NEW r \in Reader, LoseResponse(r)
      PROVE  Basics'
  BY <1>6 DEF LoseResponse, file, TypeOK, DefaultMarkLeads
<1>7. ASSUME NEW r \in Reader, NEW kind \in Kind, NEW view \in View, NEW id \in Id,
             MoveMark(r, kind, view, id)
      PROVE  Basics'
  <2>1. TypeOK'
    BY <1>7, MoveFacts DEF MoveMark, file, TypeOK
  <2>2. ASSUME NEW q \in Reader, NEW k \in Kind
        PROVE  marks'[q][k]["withMemory"] =< marks'[q][k]["default"]
    <3> DEFINE narrow == marks[q][k]["default"]
               wide   == marks[q][k]["withMemory"]
    <3>1. narrow \in Mark /\ wide \in Mark /\ wide =< narrow /\ id \in Mark
      BY DEF TypeOK, DefaultMarkLeads, View, Id, Mark
    <3>2. "default" \in View /\ "withMemory" \in View
      BY DEF View
    <3>3. "default" \in KindsToAdvance(view)
      BY DEF KindsToAdvance, View
    <3>4. CASE q = r /\ k = kind
      <4>1. marks'[q][k]["default"] = AdvanceCursor(narrow, id)
        BY <1>7, <3>2, <3>3, <3>4, MoveFacts
      <4>2. marks'[q][k]["withMemory"] \in {wide, AdvanceCursor(wide, id)}
        BY <1>7, <3>2, <3>4, MoveFacts
      <4>3. QED
        BY <3>1, <4>1, <4>2, AdvanceFacts
    <3>5. CASE ~(q = r /\ k = kind)
      BY <1>7, <3>1, <3>2, <3>5, MoveFacts
    <3>6. QED
      BY <3>4, <3>5
  <2>3. QED
    BY <2>1, <2>2 DEF DefaultMarkLeads
<1>8. CASE UNCHANGED vars
  BY <1>8 DEF vars, file, TypeOK, DefaultMarkLeads
<1>9. QED
  BY <1>1, <1>2, <1>3, <1>4, <1>5, <1>6, <1>7, <1>8 DEF Next, ReaderNext

LEMMA BasicsAlways == Spec => []Basics
BY BasicsInit, BasicsNext, PTL DEF Spec

--------------------------------------------------------------------------------
(* The newest id stays above all that was shown or marked. *)

\* Unless the newest block may be pruned, no step takes the top of the file away.
LEMMA NewestKept ==
  ASSUME TypeOK, ~PruneNewest, [Next]_vars
  PROVE  \A t \in tokens : \E u \in tokens' : t =< u
<1>1. \A t \in tokens : t \in Int
  BY DEF TypeOK, Id
<1>2. ASSUME NEW id \in Id, HandRemove(id)
      PROVE  \A t \in tokens : \E u \in tokens' : t =< u
  <2>1. PICK top \in tokens : top > id
    BY <1>2 DEF HandRemove
  <2>2. top \in tokens'
    BY <1>1, <1>2, <2>1 DEF HandRemove, Id
  <2>3. QED
    BY <1>1, <1>2, <2>1, <2>2 DEF HandRemove, Id
<1>3. ASSUME tokens \subseteq tokens'
      PROVE  \A t \in tokens : \E u \in tokens' : t =< u
  BY <1>1, <1>3
<1>4. CASE \E id \in Id : HandRemove(id)
  BY <1>2, <1>4
<1>5. CASE ~\E id \in Id : HandRemove(id)
  <2>1. tokens \subseteq tokens'
    BY <1>5 DEF Next, ReaderNext, Post, Archive, HandBreak, HandMend, HandInsert, Restart,
                ReadCursors, ReadChannel, LoseResponse, MoveMark, file, vars
  <2>2. QED
    BY <1>3, <2>1
<1>6. QED
  BY <1>4, <1>5

LEMMA BelowInit == Init => BelowNewest
<1> SUFFICES ASSUME Init, NEW r \in Reader, NEW view \in View
             PROVE  shown[r][view] = {} /\ \A kind \in Kind : marks[r][kind][view] = 0
  BY DEF BelowNewest
<1>1. QED
  BY DEF Init

LEMMA BelowNext ==
  ASSUME TypeOK, ~PruneNewest, BelowNewest, [Next]_vars
  PROVE  BelowNewest'
<1> DEFINE Under(x) == \E t \in tokens : x =< t
           UnderNext(x) == \E t \in tokens' : x =< t
<1>1. \A t \in tokens : t \in Int
  BY DEF TypeOK, Id
<1>2. \A t \in tokens' : t \in Int
  <2>1. [Next]_vars => tokens' \subseteq tokens \cup Id
    BY DEF Next, ReaderNext, Post, NewId, Archive, HandBreak, HandMend, HandRemove, HandInsert,
           Restart, ReadCursors, ReadChannel, LoseResponse, MoveMark, file, vars
  <2>2. QED
    BY <1>1, <2>1 DEF Id
<1>3. \A x \in Int : Under(x) => UnderNext(x)
  BY <1>1, <1>2, NewestKept
<1>4. ASSUME NEW r \in Reader, NEW view \in View, NEW m \in shown'[r][view]
      PROVE  m \in Int /\ Under(m)
  <2>1. \A q \in Reader, v \in View : \A x \in shown[q][v] : x \in Int /\ Under(x)
    BY DEF BelowNewest, TypeOK, Id
  <2>2. CASE shown' = shown
    BY <1>4, <2>1, <2>2
  <2>3. ASSUME NEW q \in Reader, NEW v \in View, ReadChannel(q, v)
        PROVE  m \in Int /\ Under(m)
    <3> DEFINE visible == {x \in Deliverable(v) : x > asking[q].ack}
    <3>1. shown' = [shown EXCEPT ![q][v] = @ \cup Printed(visible)]
      BY <2>3 DEF ReadChannel
    <3>2. Printed(visible) \subseteq tokens
      BY DEF Printed, Deliverable
    <3>3. m \in shown[r][view] \/ m \in tokens
      BY <1>4, <3>1, <3>2 DEF TypeOK
    <3>4. QED
      BY <1>1, <2>1, <3>3
  <2>4. shown' = shown \/ \E q \in Reader, v \in View : ReadChannel(q, v)
    BY DEF Next, ReaderNext, Post, Archive, HandBreak, HandMend, HandRemove, HandInsert,
           Restart, ReadCursors, LoseResponse, MoveMark, vars
  <2>5. QED
    BY <2>2, <2>3, <2>4
<1>5. ASSUME NEW r \in Reader, NEW view \in View, NEW kind \in Kind
      PROVE  marks'[r][kind][view] \in Int
             /\ (marks'[r][kind][view] = 0 \/ Under(marks'[r][kind][view]))
  <2>1. marks[r][kind][view] \in Mark /\ (marks[r][kind][view] = 0 \/ Under(marks[r][kind][view]))
    BY DEF BelowNewest, TypeOK
  <2>2. CASE marks' = marks
    BY <2>1, <2>2 DEF Mark
  <2>3. ASSUME NEW q \in Reader, NEW k \in Kind, NEW v \in View, NEW id \in Id,
               MoveMark(q, k, v, id)
        PROVE  marks'[r][kind][view] \in Int
               /\ (marks'[r][kind][view] = 0 \/ Under(marks'[r][kind][view]))
    <3>1. Under(id) /\ id \in Mark
      BY <2>3 DEF MoveMark, BelowNewest, Id, Mark
    <3>2. AdvanceCursor(marks[r][kind][view], id) \in {marks[r][kind][view], id}
      BY <2>1, <3>1, AdvanceFacts
    <3>3. marks'[r][kind][view] \in {marks[r][kind][view], id}
      BY <2>3, <3>2, MoveFacts
    <3>4. QED
      BY <2>1, <3>1, <3>3 DEF Mark
  <2>4. marks' = marks \/ \E q \in Reader, k \in Kind, v \in View, id \in Id : MoveMark(q, k, v, id)
    BY DEF Next, ReaderNext, Post, Archive, HandBreak, HandMend, HandRemove, HandInsert,
           Restart, ReadCursors, ReadChannel, LoseResponse, vars
  <2>5. QED
    BY <2>2, <2>3, <2>4
<1>6. QED
  BY <1>3, <1>4, <1>5 DEF BelowNewest

--------------------------------------------------------------------------------
(* Delivery. *)

\* A view acknowledged along with another is part of it.
LEMMA NestedViews ==
  ASSUME NEW view \in View, NEW w \in KindsToAdvance(view)
  PROVE  /\ w \in View
         /\ Deliverable(w) \subseteq Deliverable(view)
         /\ w = view \/ (w = "default" /\ view = "withMemory")
         /\ view \in KindsToAdvance(view)
BY DEF KindsToAdvance, View, Deliverable

\* A reader has seen what it was shown through any view that counts for w.
LEMMA ShownIsSeen ==
  ASSUME NEW r \in Reader, NEW view \in View, NEW w \in KindsToAdvance(view)
  PROVE  shown[r][view] \subseteq Seen(r, w)
BY DEF Seen

\* A step that delivers nothing, moves no mark and adds nothing to a view
\* except by hand leaves delivery as it was.
LEMMA QuietStep ==
  ASSUME Delivery,
         \A w \in View : Deliverable(w)' \ byHand' \subseteq Deliverable(w) \ byHand,
         broken' \subseteq byHand',
         marks' = marks, shown' = shown,
         \A r \in Reader : asking'[r] = None \/ asking'[r] = asking[r]
  PROVE  Delivery'
<1>1. \A r \in Reader, w \in View : Seen(r, w)' = Seen(r, w)
  BY DEF Seen
<1>2. CutoffNotAhead'
  BY DEF Delivery, CutoffNotAhead
<1>3. ShownIsCut'
  <2> SUFFICES ASSUME NEW r \in Reader, NEW view \in View, NEW w \in KindsToAdvance(view),
                      NEW s \in shown[r][view],
                      NEW m \in Deliverable(w)' \ (byHand' \cup Seen(r, w))
               PROVE  m > s
    BY <1>1, NestedViews DEF ShownIsCut
  <2>1. m \in Deliverable(w) \ (byHand \cup Seen(r, w))
    BY NestedViews
  <2>2. QED
    BY <2>1 DEF Delivery, ShownIsCut
<1>4. NothingLost'
  BY <1>1 DEF Delivery, NothingLost
<1>5. QED
  BY <1>2, <1>3, <1>4 DEF Delivery, BrokenByHand

\* A post is above all that was shown and all that was marked.
LEMMA PostOnTop ==
  ASSUME TypeOK, BelowNewest, NEW id \in Id, NEW isMemory \in BOOLEAN, Post(id, isMemory)
  PROVE  /\ \A t \in tokens : t < id
         /\ \A r \in Reader, view \in View :
              /\ \A m \in shown[r][view] : m < id
              /\ \A kind \in Kind : marks[r][kind][view] < id
<1>1. \A t \in tokens : t \in Int
  BY DEF TypeOK, Id
<1>2. \A t \in tokens : t < id
  <2>1. PICK fresh \in Id, floor \in tokens \cup {0} :
               /\ \A t \in tokens : t =< floor
               /\ id = (IF fresh > floor THEN fresh ELSE floor + 1)
    BY DEF Post, NewId
  <2>2. floor \in Int /\ fresh \in Int
    BY <1>1 DEF Id
  <2>3. QED
    BY <1>1, <2>1, <2>2
<1>3. ASSUME NEW x \in Int, NEW t \in tokens, x =< t
      PROVE  x < id
  BY <1>1, <1>2, <1>3 DEF Id
<1>4. ASSUME NEW r \in Reader, NEW view \in View
      PROVE  /\ \A m \in shown[r][view] : m < id
             /\ \A kind \in Kind : marks[r][kind][view] < id
  <2>1. \A m \in shown[r][view] : m \in Int
    BY DEF TypeOK, Id
  <2>2. \A kind \in Kind : marks[r][kind][view] \in Int
    BY DEF TypeOK, Mark
  <2>3. 0 < id
    BY DEF Id
  <2>4. QED
    BY <1>3, <2>1, <2>2, <2>3 DEF BelowNewest
<1>5. QED
  BY <1>2, <1>4

LEMMA PostDelivers ==
  ASSUME TypeOK, BelowNewest, Delivery,
         NEW id \in Id, NEW isMemory \in BOOLEAN, Post(id, isMemory)
  PROVE  Delivery'
<1>1. /\ tokens' = tokens \cup {id} /\ memory \subseteq memory' /\ memory' \subseteq memory \cup {id}
      /\ broken' = broken /\ archived' = archived /\ byHand' = byHand
      /\ marks' = marks /\ asking' = asking /\ shown' = shown
  BY DEF Post
<1>2. \A w \in View : Deliverable(w)' \subseteq Deliverable(w) \cup {id}
  BY <1>1 DEF Deliverable
<1>3. \A r \in Reader, w \in View : Seen(r, w)' = Seen(r, w)
  BY <1>1 DEF Seen
<1>4. ShownIsCut'
  <2> SUFFICES ASSUME NEW r \in Reader, NEW view \in View, NEW w \in KindsToAdvance(view),
                      NEW s \in shown[r][view],
                      NEW m \in Deliverable(w)' \ (byHand \cup Seen(r, w))
               PROVE  m > s
    BY <1>1, <1>3, NestedViews DEF ShownIsCut
  <2>1. s \in Int /\ s < id /\ id \in Int
    BY PostOnTop DEF TypeOK, Id
  <2>2. m = id \/ m \in Deliverable(w)
    BY <1>2, NestedViews
  <2>3. QED
    BY <2>1, <2>2 DEF Delivery, ShownIsCut
<1>5. NothingLost'
  <2> SUFFICES ASSUME NEW r \in Reader, NEW view \in View,
                      NEW m \in Deliverable(view)' \ (byHand \cup Seen(r, view))
               PROVE  m > marks[r]["ack"][view]
    BY <1>1, <1>3 DEF NothingLost
  <2>1. marks[r]["ack"][view] \in Int /\ marks[r]["ack"][view] < id /\ id \in Int
    BY PostOnTop DEF TypeOK, Id, Mark
  <2>2. m = id \/ m \in Deliverable(view)
    BY <1>2
  <2>3. QED
    BY <2>1, <2>2 DEF Delivery, NothingLost
<1>6. QED
  BY <1>1, <1>4, <1>5 DEF Delivery, BrokenByHand, CutoffNotAhead

\* A response leaves out nothing between its cutoff and what it shows.
LEMMA ReadDelivers ==
  ASSUME Basics, Delivery, Limit = None,
         NEW q \in Reader, NEW v \in View, ReadChannel(q, v)
  PROVE  Delivery'
<1> DEFINE visible == {m \in Deliverable(v) : m > asking[q].ack}
<1>1. /\ asking[q] # None /\ asking[q].view = v
      /\ shown' = [shown EXCEPT ![q][v] = @ \cup visible]
      /\ asking' = [asking EXCEPT ![q] = None]
      /\ file' = file /\ marks' = marks
  BY DEF ReadChannel, Printed
<1>2. \A w \in View : Deliverable(w)' = Deliverable(w)
  BY <1>1 DEF Deliverable, file
<1>3. /\ \A r \in Reader, w \in View :
           shown'[r][w] = IF r = q /\ w = v THEN shown[r][w] \cup visible ELSE shown[r][w]
      /\ \A r \in Reader, w \in View : Seen(r, w) \subseteq Seen(r, w)'
  <2>1. shown \in [Reader -> [View -> SUBSET Id]]
    BY DEF Basics, TypeOK
  <2>2. \A r \in Reader, w \in View :
           shown'[r][w] = IF r = q /\ w = v THEN shown[r][w] \cup visible ELSE shown[r][w]
    BY <1>1, <2>1
  <2>3. QED
    BY <2>2 DEF Seen
<1>4. ShownIsCut'
  <2> SUFFICES ASSUME NEW r \in Reader, NEW view \in View, NEW w \in KindsToAdvance(view),
                      NEW s \in shown'[r][view],
                      NEW m \in Deliverable(w) \ (byHand \cup Seen(r, w)')
               PROVE  m > s
    BY <1>1, <1>2, NestedViews DEF ShownIsCut, file
  <2>1. m \in Deliverable(w) \ (byHand \cup Seen(r, w))
    BY <1>3, NestedViews
  <2>2. CASE s \in shown[r][view]
    BY <2>1, <2>2 DEF Delivery, ShownIsCut
  <2>3. CASE s \notin shown[r][view]
    <3>1. r = q /\ view = v
      BY <1>3, <2>3
    <3>2. m \notin visible
      <4>1. visible \subseteq shown'[r][view]
        BY <1>3, <3>1
      <4>2. shown'[r][view] \subseteq Seen(r, w)'
        BY DEF Seen
      <4>3. QED
        BY <4>1, <4>2
    <3>3. ~(m > asking[q].ack)
      BY <2>1, <3>1, <3>2, NestedViews
    <3>4. asking[q].ack =< marks[q]["ack"][v]
      BY <1>1 DEF Delivery, CutoffNotAhead
    <3>5. marks[q]["ack"][v] =< marks[q]["ack"][w]
      <4>1. w = v \/ (w = "default" /\ v = "withMemory")
        BY <3>1, NestedViews
      <4>2. marks[q]["ack"][v] \in Int
        BY DEF Basics, TypeOK, Mark
      <4>3. marks[q]["ack"]["withMemory"] =< marks[q]["ack"]["default"]
        BY DEF Basics, DefaultMarkLeads
      <4>4. QED
        BY <4>1, <4>2, <4>3
    <3>6. m > marks[q]["ack"][w]
      <4>1. w \in View
        BY NestedViews
      <4>2. m \in Deliverable(w) \ (byHand \cup Seen(q, w))
        BY <2>1, <3>1
      <4>3. QED
        BY <4>1, <4>2 DEF Delivery, NothingLost
    <3>7. /\ m \in Int
          /\ marks[q]["ack"][v] \in Int /\ marks[q]["ack"][w] \in Int /\ asking[q].ack \in Int
      <4>1. m \in Int
        BY <2>1 DEF Deliverable, Basics, TypeOK, Id
      <4>2. w \in View
        BY NestedViews
      <4>3. asking[q] \in Request
        BY <1>1 DEF Basics, TypeOK
      <4>4. asking[q].ack \in Int
        BY <4>3 DEF Request, Mark
      <4>5. marks[q]["ack"] \in [View -> Mark]
        BY DEF Basics, TypeOK
      <4>6. marks[q]["ack"][v] \in Int /\ marks[q]["ack"][w] \in Int
        BY <4>2, <4>5 DEF Mark
      <4>7. QED
        BY <4>1, <4>4, <4>6
    <3>8. QED
      BY <3>3, <3>4, <3>5, <3>6, <3>7
  <2>4. QED
    BY <2>2, <2>3
<1>5. NothingLost'
  BY <1>1, <1>2, <1>3 DEF Delivery, NothingLost, file
<1>6. CutoffNotAhead'
  BY <1>1 DEF Basics, TypeOK, Delivery, CutoffNotAhead
<1>7. QED
  BY <1>1, <1>4, <1>5, <1>6 DEF Delivery, BrokenByHand, file

\* An acknowledgement hides nothing its reader has not seen.
LEMMA MoveDelivers ==
  ASSUME Basics, Delivery,
         NEW q \in Reader, NEW kind \in Kind, NEW view \in View, NEW id \in Id,
         MoveMark(q, kind, view, id)
  PROVE  Delivery'
<1>1. id \in shown[q][view] /\ file' = file /\ asking' = asking /\ shown' = shown
  BY DEF MoveMark
<1>2. /\ \A w \in View : Deliverable(w)' = Deliverable(w)
      /\ \A r \in Reader, w \in View : Seen(r, w)' = Seen(r, w)
  BY <1>1 DEF Deliverable, Seen, file
<1>3. TypeOK /\ id \in Mark
  BY DEF Basics, Id, Mark
<1>4. CutoffNotAhead'
  <2> SUFFICES ASSUME NEW r \in Reader, asking[r] # None
               PROVE  asking[r].ack =< marks'[r]["ack"][asking[r].view]
    BY <1>1 DEF CutoffNotAhead
  <2>1. asking[r].view \in View /\ asking[r].ack \in Mark
    BY DEF Basics, TypeOK, Request
  <2>2. /\ asking[r].ack =< marks[r]["ack"][asking[r].view]
        /\ marks[r]["ack"][asking[r].view] \in Mark
    BY <2>1 DEF Delivery, CutoffNotAhead, Basics, TypeOK
  <2> DEFINE stored == marks[r]["ack"][asking[r].view]
  <2>3. stored =< AdvanceCursor(stored, id)
    BY <1>3, <2>2, AdvanceFacts
  <2>4. AdvanceCursor(stored, id) \in Mark
    BY <1>3, <2>2, AdvanceFacts
  <2>5. marks'[r]["ack"][asking[r].view] \in {stored, AdvanceCursor(stored, id)}
    BY <1>3, <2>1, MoveFacts, SMTT(40)
  <2> HIDE DEF stored
  <2>6. QED
    BY <2>1, <2>2, <2>3, <2>4, <2>5 DEF stored, Mark
<1>5. NothingLost'
  <2> SUFFICES ASSUME NEW r \in Reader, NEW w \in View,
                      NEW m \in Deliverable(w) \ (byHand \cup Seen(r, w))
               PROVE  m > marks'[r]["ack"][w]
    BY <1>1, <1>2 DEF NothingLost, file
  <2>1. m > marks[r]["ack"][w] /\ marks[r]["ack"][w] \in Mark
    BY DEF Delivery, NothingLost, Basics, TypeOK
  <2>2. CASE r = q /\ w \in KindsToAdvance(view)
    <3>1. m > id
      BY <1>1, <2>2 DEF Delivery, ShownIsCut
    <3>2. AdvanceCursor(marks[r]["ack"][w], id) \in {marks[r]["ack"][w], id}
      BY <1>3, <2>1, AdvanceFacts
    <3>3. marks'[r]["ack"][w] \in {marks[r]["ack"][w], id}
      BY <1>3, <3>2, MoveFacts
    <3>4. QED
      BY <2>1, <3>1, <3>3
  <2>3. CASE ~(r = q /\ w \in KindsToAdvance(view))
    BY <1>3, <2>1, <2>3, MoveFacts
  <2>4. QED
    BY <2>2, <2>3
<1>6. ShownIsCut'
  BY <1>1, <1>2, NestedViews DEF Delivery, ShownIsCut, file
<1>7. QED
  BY <1>1, <1>4, <1>5, <1>6 DEF Delivery, BrokenByHand, file

LEMMA DeliveryInit == Init => Delivery
BY DEF Init, Delivery, BrokenByHand, CutoffNotAhead, ShownIsCut, NothingLost, Deliverable,
       KindsToAdvance, View

LEMMA DeliveryNext ==
  ASSUME Basics, BelowNewest, Delivery, Limit = None, [Next]_vars
  PROVE  Delivery'
<1>1. TypeOK
  BY DEF Basics
<1>2. CASE \E id \in Id, isMemory \in BOOLEAN : Post(id, isMemory)
  BY <1>1, <1>2, PostDelivers
<1>3. ASSUME NEW id \in Id, Archive(id) \/ HandBreak(id) \/ HandMend(id) \/ HandRemove(id)
                            \/ HandInsert(id)
      PROVE  Delivery'
  <2>1. /\ \A w \in View : Deliverable(w)' \ byHand' \subseteq Deliverable(w) \ byHand
        /\ broken' \subseteq byHand'
    BY <1>1, <1>3 DEF Archive, HandBreak, HandMend, HandRemove, HandInsert, TouchByHand,
                      Deliverable, Delivery, BrokenByHand
  <2>2. marks' = marks /\ shown' = shown /\ asking' = asking
    BY <1>3 DEF Archive, HandBreak, HandMend, HandRemove, HandInsert
  <2>3. QED
    BY <2>1, <2>2, QuietStep
<1>4. ASSUME Restart \/ (\E r \in Reader : LoseResponse(r)) \/ UNCHANGED vars
      PROVE  Delivery'
  <2>1. file' = file /\ marks' = marks /\ shown' = shown
    BY <1>4 DEF Restart, LoseResponse, vars
  <2>2. \A r \in Reader : asking'[r] = None \/ asking'[r] = asking[r]
    BY <1>1, <1>4 DEF Restart, LoseResponse, vars, TypeOK
  <2>3. /\ \A w \in View : Deliverable(w)' \ byHand' \subseteq Deliverable(w) \ byHand
        /\ broken' \subseteq byHand'
    BY <2>1 DEF file, Deliverable, Delivery, BrokenByHand
  <2>4. QED
    BY <2>1, <2>2, <2>3, QuietStep
<1>5. ASSUME NEW q \in Reader, NEW view \in View, ReadCursors(q, view)
      PROVE  Delivery'
  <2>1. /\ file' = file /\ marks' = marks /\ shown' = shown
        /\ asking' = [asking EXCEPT ![q] = [view |-> view, ack |-> marks[q]["ack"][view]]]
    BY <1>5 DEF ReadCursors
  <2>2. CutoffNotAhead'
    <3>1. marks[q]["ack"][view] \in Int
      BY <1>1 DEF TypeOK, Mark
    <3>2. QED
      BY <1>1, <2>1, <3>1 DEF Delivery, CutoffNotAhead, TypeOK
  <2>3. /\ \A w \in View : Deliverable(w)' = Deliverable(w)
        /\ \A r \in Reader, w \in View : Seen(r, w)' = Seen(r, w)
        /\ byHand' = byHand
    BY <2>1 DEF file, Deliverable, Seen
  <2>4. ShownIsCut' /\ NothingLost'
    BY <2>1, <2>3, NestedViews DEF Delivery, ShownIsCut, NothingLost
  <2>5. QED
    BY <2>1, <2>2, <2>4 DEF Delivery, BrokenByHand, file
<1>6. CASE \E q \in Reader, view \in View : ReadChannel(q, view)
  BY <1>6, ReadDelivers
<1>7. CASE \E q \in Reader, kind \in Kind, view \in View, id \in Id : MoveMark(q, kind, view, id)
  BY <1>7, MoveDelivers
<1>8. QED
  BY <1>2, <1>3, <1>4, <1>5, <1>6, <1>7 DEF Next, ReaderNext

--------------------------------------------------------------------------------
(* The results. *)

\* The state keeps its types.
THEOREM TypeCorrect == Spec => []TypeOK
<1>1. Basics => TypeOK
  BY DEF Basics
<1>2. QED
  BY <1>1, BasicsAlways, PTL

\* The default mark is never behind the memory-inclusive one.
THEOREM DefaultLeads == Spec => []DefaultMarkLeads
<1>1. Basics => DefaultMarkLeads
  BY DEF Basics
<1>2. QED
  BY <1>1, BasicsAlways, PTL

\* No step of anyone moves a mark back.
THEOREM MarksAdvance == Spec => MarksOnlyAdvance
<1>1. TypeOK /\ [Next]_vars =>
        [\A r \in Reader, kind \in Kind, view \in View :
           marks[r][kind][view] =< marks'[r][kind][view]]_marks
  <2> SUFFICES ASSUME TypeOK, [Next]_vars, marks' # marks,
                      NEW r \in Reader, NEW kind \in Kind, NEW view \in View
               PROVE  marks[r][kind][view] =< marks'[r][kind][view]
    OBVIOUS
  <2>1. PICK q \in Reader, k \in Kind, v \in View, id \in Id : MoveMark(q, k, v, id)
    BY DEF Next, ReaderNext, Post, Archive, HandBreak, HandMend, HandRemove, HandInsert,
           Restart, ReadCursors, ReadChannel, LoseResponse, vars
  <2>2. marks[r][kind][view] \in Mark /\ id \in Mark
    BY DEF TypeOK, Id, Mark
  <2> DEFINE stored == marks[r][kind][view]
  <2>3. stored =< AdvanceCursor(stored, id) /\ stored =< stored
    BY <2>2, AdvanceFacts DEF Mark
  <2>4. marks'[r][kind][view] \in {stored, AdvanceCursor(stored, id)}
    BY <2>1, MoveFacts
  <2>5. QED
    BY <2>3, <2>4
<1>2. QED
  BY <1>1, TypeCorrect, PTL DEF Spec, MarksOnlyAdvance

\* While the newest block is not pruned, a post clears every id and every mark,
\* whatever the clock of the process that mints it.
THEOREM PostsOnTop ==
  ASSUME ~PruneNewest
  PROVE  Spec => PostsLandOnTop
<1>1. Basics /\ BelowNewest /\ [Next]_vars =>
        [minted' # minted => \A id \in tokens' \ tokens :
           /\ \A t \in tokens : t < id
           /\ \A r \in Reader, kind \in Kind, view \in View : marks[r][kind][view] < id]_vars
  <2> SUFFICES ASSUME Basics, BelowNewest, [Next]_vars, minted' # minted,
                      NEW new \in tokens' \ tokens
               PROVE  /\ \A t \in tokens : t < new
                      /\ \A r \in Reader, kind \in Kind, view \in View :
                           marks[r][kind][view] < new
    OBVIOUS
  <2>1. PICK id \in Id, isMemory \in BOOLEAN : Post(id, isMemory)
    BY DEF Next, ReaderNext, Archive, HandBreak, HandMend, HandRemove, HandInsert, Restart,
           ReadCursors, ReadChannel, LoseResponse, MoveMark, vars, file
  <2>2. new = id
    BY <2>1 DEF Post
  <2>3. QED
    BY <2>1, <2>2, PostOnTop DEF Basics
<1>2. Basics /\ BelowNewest /\ [Next]_vars => BelowNewest'
  BY BelowNext DEF Basics
<1>3. QED
  BY <1>1, <1>2, BelowInit, BasicsAlways, PTL DEF Spec, PostsLandOnTop

\* With the whole inbox listed and the newest block kept, no acknowledgement of
\* a message a reader was shown ever hides one it was not.
THEOREM NoSilentLoss ==
  ASSUME ~PruneNewest, Limit = None
  PROVE  Spec => []NothingLost
<1>1. Basics /\ BelowNewest /\ [Next]_vars => BelowNewest'
  BY BelowNext DEF Basics
<1>2. Basics /\ BelowNewest /\ Delivery /\ [Next]_vars => Delivery'
  BY DeliveryNext
<1>3. Delivery => NothingLost
  BY DEF Delivery
<1>4. QED
  BY <1>1, <1>2, <1>3, BelowInit, DeliveryInit, BasicsAlways, PTL DEF Spec
================================================================================
