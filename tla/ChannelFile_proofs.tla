--------------------------- MODULE ChannelFile_proofs ---------------------------
(***************************************************************************)
(* Proofs about ChannelFile.  The lock excludes: of the writes that are in *)
(* it, one at most is alive and it is the holder, so the file a write read *)
(* is the file it replaces.  From that follow the atomicity of the writes  *)
(* and what is promised of the history.                                    *)
(***************************************************************************)
EXTENDS ChannelFile, TLAPS

USE WriteAssumption, NoneAssumption

--------------------------------------------------------------------------------
(* What one write makes of a file. *)

\* One block of the file is the write's, and the others are what they were.
OneBlock(old, r, new) ==
  /\ IsFile(new)
  /\ DOMAIN new = DOMAIN old \cup {r.id}
  /\ \A m \in DOMAIN old : m # r.id => new[m] = old[m]

\* That block has the write's body, if it carries one, and keeps its author.
Carries(old, w, r, new) ==
  /\ r.kind = "post" => new[r.id].body = w /\ new[r.id].revision = 0
  /\ r.kind = "edit" => /\ new[r.id].author = old[r.id].author
                        /\ new[r.id].body = w
                        /\ new[r.id].revision = old[r.id].revision + 1
  /\ r.kind = "archive" => /\ new[r.id].author = old[r.id].author
                           /\ new[r.id].body = old[r.id].body
                           /\ new[r.id].revision = old[r.id].revision

LEMMA RewrittenFile ==
  ASSUME NEW file, IsFile(file), NEW w \in Write, NEW r, IsFor(r, w), Permitted(file, r)
  PROVE  /\ OneBlock(file, r, Rewritten(file, w, r))
         /\ Carries(file, w, r, Rewritten(file, w, r))
<1>. r \in Request /\ r.kind \in Kind /\ r.id \in Msg /\ r.actor \in Principal
  BY DEF IsFor, Request
<1>. DEFINE new == Rewritten(file, w, r)
            At(b) == [m \in DOMAIN file \cup {r.id} |-> IF m = r.id THEN b ELSE file[m]]
<1>1. ASSUME NEW b \in Block, new = At(b)
      PROVE  OneBlock(file, r, new) /\ new[r.id] = b
  <2>. HIDE DEF new
  <2>1. At(b) \in [DOMAIN file \cup {r.id} -> Block]
    BY DEF IsFile
  <2> QED BY <1>1, <2>1 DEF IsFile, OneBlock
<1>2. CASE r.kind = "post"
  <2>. DEFINE b == [author |-> r.actor, body |-> w, revision |-> 0, archived |-> FALSE]
  <2>1. b \in Block /\ r.id = w
    BY <1>2 DEF Block, Msg, IsFor
  <2>2. new = At(b)
    BY <1>2, <2>1 DEF Rewritten, Posted
  <2>3. OneBlock(file, r, new) /\ new[r.id] = b
    BY <1>1, <2>1, <2>2
  <2>4. b.body = w /\ b.revision = 0
    OBVIOUS
  <2>. HIDE DEF new, b
  <2>5. Carries(file, w, r, new)
    BY <1>2, <2>3, <2>4 DEF Carries
  <2> QED BY <2>3, <2>5 DEF new
<1>3. CASE r.kind # "post"
  <2>. DEFINE old == file[r.id]
  <2>1. r.id \in DOMAIN file /\ old \in Block
    BY <1>3 DEF Permitted, IsFile
  <2>2. CASE r.kind = "edit"
    <3>. DEFINE c == [old EXCEPT !.body = w]
                b == [c EXCEPT !.revision = old.revision + 1]
    <3>0. /\ c \in Block /\ c.author = old.author
          /\ c.body = w /\ c.revision = old.revision
      BY <2>1 DEF Block, Msg
    <3>1. /\ b \in Block /\ b.author = old.author
          /\ b.body = w /\ b.revision = old.revision + 1
      <4>. HIDE DEF c
      <4> QED BY <2>1, <3>0 DEF Block
    <3>2. new = Edited(file, w, r.id)
      BY <2>2 DEF Rewritten
    <3>3. Edited(file, w, r.id) = At(b)
      BY <2>1 DEF Edited, IsFile
    <3>4. OneBlock(file, r, new) /\ new[r.id] = b
      BY <1>1, <3>1, <3>2, <3>3
    <3>. HIDE DEF new, b
    <3>5. Carries(file, w, r, new)
      BY <2>2, <3>1, <3>4 DEF Carries
    <3> QED BY <3>4, <3>5 DEF new
  <2>3. CASE r.kind = "archive"
    <3>. DEFINE b == [old EXCEPT !.archived = TRUE]
    <3>1. /\ b \in Block /\ b.author = old.author
          /\ b.body = old.body /\ b.revision = old.revision
      BY <2>1 DEF Block
    <3>2. new = At(b)
      BY <2>1, <2>3 DEF Rewritten, Archived, IsFile
    <3>3. OneBlock(file, r, new) /\ new[r.id] = b
      BY <1>1, <3>1, <3>2
    <3>. HIDE DEF new, b
    <3>4. Carries(file, w, r, new)
      BY <2>3, <3>1, <3>3 DEF Carries
    <3> QED BY <3>3, <3>4 DEF new
  <2> QED BY <1>3, <2>2, <2>3 DEF Kind
<1> QED BY <1>2, <1>3

\* What was permitted stays so after another write.
LEMMA PermittedStays ==
  ASSUME NEW file, IsFile(file), NEW w \in Write, NEW r, IsFor(r, w), Permitted(file, r),
         r.kind = "post" => w \notin DOMAIN file,
         NEW other \in Request, Permitted(file, other)
  PROVE  Permitted(Rewritten(file, w, r), other)
<1>1. CASE other.kind = "post"
  BY <1>1 DEF Permitted
<1>2. CASE other.kind # "post"
  <2>. DEFINE new == Rewritten(file, w, r)
  <2>1. other.id \in DOMAIN file
    BY <1>2 DEF Permitted
  <2>0. /\ DOMAIN new = DOMAIN file \cup {r.id}
        /\ \A m \in DOMAIN file : m # r.id => new[m] = file[m]
        /\ r.kind = "edit" => new[r.id].author = file[r.id].author
        /\ r.kind = "archive" => new[r.id].author = file[r.id].author
    <3>. OneBlock(file, r, new) /\ Carries(file, w, r, new)
      BY RewrittenFile
    <3> QED BY DEF OneBlock, Carries
  <2>. HIDE DEF new
  <2>2. new[other.id].author = file[other.id].author
    <3>1. r.kind \in Kind /\ (r.kind = "post" => r.id = w)
      BY DEF IsFor, Request
    <3>2. CASE r.id = other.id
      BY <2>0, <2>1, <3>1, <3>2 DEF Kind
    <3>3. CASE r.id # other.id
      BY <2>0, <2>1, <3>3
    <3> QED BY <3>2, <3>3
  <2>3. other.id \in DOMAIN new
    BY <2>0, <2>1
  <2>4. Permitted(new, other)
    BY <1>2, <2>1, <2>2, <2>3 DEF Permitted
  <2> QED BY <2>4 DEF new
<1> QED BY <1>1, <1>2

--------------------------------------------------------------------------------
(* The inductive invariant. *)

\* A write in the lock is its holder, and at the head of its queue.
LockExcludes ==
  /\ holder # None => step[holder] \in InLock \cup {"dead", "failed"}
  /\ \A w \in Write : step[w] \in InLock => holder = w /\ Head(queue[at[w]]) = w

\* A write that waits or works is in its queue.
Queued ==
  \A w \in Write : step[w] \in {"queued"} \cup InLock =>
    \E i \in 1 .. Len(queue[at[w]]) : queue[at[w]][i] = w

\* What is known of the file by the step of a write.
AppliedByStep ==
  \A w \in Write :
    /\ step[w] \in {"idle", "queued", "locked", "read", "revised", "aborted",
                    "refused", "busy"} => w \notin applied
    /\ step[w] \in {"written", "released", "ok"} => w \in applied

\* The messages on the file, and those of history, are there by applied writes.
FileIsApplied ==
  /\ DOMAIN channel \cap Write \subseteq applied
  /\ \A w \in applied : request[w].id \in DOMAIN channel
  /\ \A m \in Msg \ DOMAIN channel : history[m] = {}

\* What a write read, what it was permitted and what it kept still hold.
ReadStands      == \A w \in Write : step[w] \in {"read", "revised"} => text[w] = channel
PermissionHolds == \A w \in Write : step[w] \in {"queued", "locked", "read", "revised"} =>
                                      Permitted(channel, request[w])
RevisionKept ==
  \A w \in Write : step[w] = "revised" =>
    /\ request[w].kind = "edit"
    /\ \E e \in history[request[w].id] : /\ e.revision = channel[request[w].id].revision + 1
                                         /\ e.prior = channel[request[w].id].body

AuditByStep ==
  \A w \in Write : step[w] \in {"idle"} \cup Pending => audit[w] = "none"

IInv ==
  /\ TypeOK /\ LockExcludes /\ Queued /\ AppliedByStep /\ FileIsApplied
  /\ ReadStands /\ PermissionHolds /\ RevisionKept
  /\ NothingForgotten /\ HistoryAccountsForRevisions /\ AuditByStep /\ AuditIsTrue

LEMMA InitIInv == Init => IInv
<1>. SUFFICES ASSUME Init PROVE IInv
  OBVIOUS
<1>1. IsFile(channel) /\ DOMAIN channel = Old /\ \A m \in Old : channel[m].revision = 0
  BY DEF Init, OldFiles, IsFile, Block, Msg
<1>2. TypeOK
  BY <1>1 DEF Init, TypeOK, Pending, InLock, Settled
<1>3. LockExcludes /\ Queued /\ AppliedByStep /\ ReadStands /\ PermissionHolds /\ RevisionKept
  BY DEF Init, LockExcludes, Queued, AppliedByStep, ReadStands, PermissionHolds, RevisionKept, InLock
<1>4. FileIsApplied /\ NothingForgotten /\ AuditByStep /\ AuditIsTrue
  BY <1>1 DEF Init, FileIsApplied, NothingForgotten, AuditByStep, AuditIsTrue, Pending, InLock
<1>5. HistoryAccountsForRevisions
  BY <1>1 DEF Init, HistoryAccountsForRevisions, Msg
<1> QED BY <1>2, <1>3, <1>4, <1>5 DEF IInv

--------------------------------------------------------------------------------
(* Each part of it is kept by every step. *)

\* An edit that has read the file has its message on it.
LEMMA EditTarget ==
  ASSUME IInv, NEW w \in Write, AppendRevision(w)
  PROVE  /\ text[w] = channel
         /\ request[w] \in Request /\ request[w].id \in Msg /\ request[w].kind = "edit"
         /\ request[w].id \in DOMAIN channel
         /\ channel[request[w].id] \in Block
<1>1. text[w] = channel /\ Permitted(channel, request[w]) /\ IsFor(request[w], w)
  BY DEF IInv, TypeOK, ReadStands, PermissionHolds, AppendRevision
<1>2. request[w].kind = "edit" /\ request[w] \in Request /\ request[w].id \in Msg
  BY <1>1 DEF AppendRevision, IsFor, Request
<1> QED BY <1>1, <1>2 DEF Permitted, IInv, TypeOK, IsFile

\* The entry that an edit of the channel as it is appends.
Entry(w) ==
  [revision |-> channel[request[w].id].revision + 1, prior |-> channel[request[w].id].body, by |-> w]

LEMMA EntryAppended ==
  ASSUME IInv, NEW w \in Write, AppendRevision(w)
  PROVE  /\ Entry(w) \in Revision
         /\ Entry(w).revision = channel[request[w].id].revision + 1
         /\ Entry(w).prior = channel[request[w].id].body
         /\ DOMAIN history' = Msg
         /\ \A m \in Msg : history'[m] =
              history[m] \cup (IF m = request[w].id THEN {Entry(w)} ELSE {})
<1>1. Entry(w) \in Revision
  BY EditTarget DEF Entry, Revision, Block
<1>2. history' = [history EXCEPT ![request[w].id] = @ \cup {Entry(w)}]
  BY EditTarget DEF AppendRevision, Keep, Entry
<1>3. \A m \in Msg : history'[m] =
        history[m] \cup (IF m = request[w].id THEN {Entry(w)} ELSE {})
  BY <1>2 DEF IInv, TypeOK
<1> QED BY <1>1, <1>2, <1>3 DEF Entry, IInv, TypeOK

\* A rewrite changes one block of the channel as it is.
LEMMA RewriteMakesOneBlock ==
  ASSUME IInv, NEW w \in Write, Rewrite(w)
  PROVE  /\ channel' = Rewritten(channel, w, request[w])
         /\ IsFor(request[w], w) /\ Permitted(channel, request[w])
         /\ OneBlock(channel, request[w], channel')
         /\ Carries(channel, w, request[w], channel')
<1>1. IsFor(request[w], w) /\ Permitted(channel, request[w]) /\ text[w] = channel
  BY DEF IInv, TypeOK, ReadStands, PermissionHolds, Rewrite, MayRewrite
<1>2. IsFile(channel) /\ channel' = Rewritten(channel, w, request[w])
  BY <1>1 DEF IInv, TypeOK, Rewrite
<1> QED BY <1>1, <1>2, RewrittenFile

LEMMA TypeKept == IInv /\ Next => TypeOK'
<1>. SUFFICES ASSUME IInv, Next PROVE TypeOK'
  OBVIOUS
<1>. TypeOK /\ Queued
  BY DEF IInv
<1>1. ASSUME NEW w \in Write, NEW r \in Request, Refuse(w, r) PROVE TypeOK'
  BY <1>1 DEF TypeOK, Refuse, Goto, Pending, InLock, Settled
<1>2. ASSUME NEW w \in Write, NEW r \in Request, NEW p \in Process, Submit(w, r, p)
      PROVE TypeOK'
  BY <1>2 DEF TypeOK, Submit, Goto, Pending, InLock, Settled
<1>3. ASSUME NEW w \in Write, TakeLock(w) PROVE TypeOK'
  BY <1>3 DEF TypeOK, TakeLock, Turn, Goto, Pending, InLock, Settled
<1>4. ASSUME NEW w \in Write, ShedWrite(w) PROVE TypeOK'
  <2>1. at[w] \in Process /\ Tail(queue[at[w]]) \in Seq(Write)
    BY <1>4 DEF ShedWrite, Turn, TypeOK, Queued, Pending
  <2> QED BY <1>4, <2>1 DEF TypeOK, ShedWrite, Turn, Leave, Goto, Pending, InLock, Settled
<1>5. ASSUME NEW w \in Write, ReadText(w) PROVE TypeOK'
  BY <1>5 DEF TypeOK, ReadText, Goto, Pending, InLock, Settled
<1>6. ASSUME NEW w \in Write, AppendRevision(w) PROVE TypeOK'
  <2>4. history' \in [Msg -> SUBSET Revision]
    <3>1. /\ Entry(w) \in Revision /\ DOMAIN history' = Msg
          /\ \A m \in Msg : history'[m] \subseteq history[m] \cup {Entry(w)}
      BY <1>6, EntryAppended
    <3>2. history' = [history EXCEPT ![request[w].id] = history'[request[w].id]]
      BY <1>6, EditTarget DEF AppendRevision, Keep, TypeOK
    <3> QED BY <1>6, <3>1, <3>2, EditTarget DEF TypeOK
  <2> QED BY <1>6, <2>4 DEF TypeOK, AppendRevision, Goto, Pending, InLock, Settled
<1>7. ASSUME NEW w \in Write, Rewrite(w) PROVE TypeOK'
  <2>1. IsFile(channel')
    BY <1>7, RewriteMakesOneBlock DEF OneBlock
  <2> QED BY <1>7, <2>1 DEF TypeOK, Rewrite, MayRewrite, Goto, Pending, InLock, Settled
<1>8. ASSUME NEW w \in Write, Abort(w) PROVE TypeOK'
  BY <1>8 DEF TypeOK, Abort, Goto, Pending, InLock, Settled
<1>9. ASSUME NEW w \in Write, Release(w) PROVE TypeOK'
  <2>1. at[w] \in Process /\ Tail(queue[at[w]]) \in Seq(Write)
    BY <1>9 DEF Release, TypeOK, Queued, InLock, Pending
  <2> QED BY <1>9, <2>1 DEF TypeOK, Release, Leave, Goto, Pending, InLock, Settled
<1>10. ASSUME NEW w \in Write, Record(w) PROVE TypeOK'
  BY <1>10 DEF TypeOK, Record, Goto, Pending, InLock, Settled
<1>11. ASSUME NEW w \in Write, LoseRecord(w) PROVE TypeOK'
  BY <1>11 DEF TypeOK, LoseRecord, Goto, Pending, InLock, Settled
<1>12. ASSUME NEW p \in Process, Crash(p) PROVE TypeOK'
  BY <1>12 DEF TypeOK, Crash, Pending, InLock, Settled
<1>13. ASSUME NEW w \in Write, FailToLock(w) PROVE TypeOK'
  <2>1. at[w] \in Process /\ Tail(queue[at[w]]) \in Seq(Write)
    BY <1>13 DEF FailToLock, Turn, TypeOK, Queued, Pending
  <2> QED BY <1>13, <2>1 DEF TypeOK, FailToLock, Turn, Leave, Goto, Pending, InLock, Settled
<1>14. ASSUME NEW w \in Write, FailToUnlock(w) PROVE TypeOK'
  <2>1. at[w] \in Process /\ Tail(queue[at[w]]) \in Seq(Write)
    BY <1>14 DEF FailToUnlock, TypeOK, Queued, InLock, Pending
  <2> QED BY <1>14, <2>1 DEF TypeOK, FailToUnlock, Leave, Goto, Pending, InLock, Settled
<1> QED
  BY <1>1, <1>2, <1>3, <1>4, <1>5, <1>6, <1>7, <1>8, <1>9, <1>10, <1>11, <1>12, <1>13, <1>14
  DEF Next, Serve

LEMMA LockKept == IInv /\ Next => LockExcludes'
<1>. SUFFICES ASSUME IInv, Next PROVE LockExcludes'
  OBVIOUS
<1>. TypeOK /\ Queued /\ LockExcludes
  BY DEF IInv
<1>. USE DEF LockExcludes, Goto, InLock
<1>1. ASSUME NEW w \in Write, NEW r \in Request, Refuse(w, r) PROVE LockExcludes'
  BY <1>1 DEF TypeOK, Refuse
<1>2. ASSUME NEW w \in Write, NEW r \in Request, NEW p \in Process, Submit(w, r, p)
      PROVE LockExcludes'
  <2>. SUFFICES ASSUME NEW u \in Write, step'[u] \in InLock
                PROVE  holder' = u /\ Head(queue'[at'[u]]) = u
    BY <1>2 DEF TypeOK, Submit
  <2>1. u # w /\ step[u] \in InLock /\ at'[u] = at[u] /\ holder' = holder
    BY <1>2 DEF TypeOK, Submit
  <2>2. at[u] \in Process /\ Len(queue[at[u]]) > 0 /\ queue[at[u]] \in Seq(Write)
    BY <2>1 DEF TypeOK, Queued, Pending
  <2>3. Head(Append(queue[at[u]], w)) = Head(queue[at[u]])
    BY <2>2
  <2>4. Head(queue'[at[u]]) = Head(queue[at[u]])
    BY <1>2, <2>2, <2>3 DEF TypeOK, Submit
  <2> QED BY <2>1, <2>4
<1>3. ASSUME NEW w \in Write, TakeLock(w) PROVE LockExcludes'
  BY <1>3 DEF TypeOK, TakeLock, Turn, Gone
<1>4. ASSUME NEW w \in Write, ShedWrite(w) PROVE LockExcludes'
  BY <1>4 DEF TypeOK, ShedWrite, Turn, Leave, Pending
<1>5. ASSUME NEW w \in Write, ReadText(w) PROVE LockExcludes'
  BY <1>5 DEF TypeOK, ReadText
<1>6. ASSUME NEW w \in Write, AppendRevision(w) PROVE LockExcludes'
  BY <1>6 DEF TypeOK, AppendRevision
<1>7. ASSUME NEW w \in Write, Rewrite(w) PROVE LockExcludes'
  BY <1>7 DEF TypeOK, Rewrite, MayRewrite
<1>8. ASSUME NEW w \in Write, Abort(w) PROVE LockExcludes'
  BY <1>8 DEF TypeOK, Abort
<1>9. ASSUME NEW w \in Write, Release(w) PROVE LockExcludes'
  BY <1>9 DEF TypeOK, Release
<1>10. ASSUME NEW w \in Write, Record(w) PROVE LockExcludes'
  BY <1>10 DEF TypeOK, Record
<1>11. ASSUME NEW w \in Write, LoseRecord(w) PROVE LockExcludes'
  BY <1>11 DEF TypeOK, LoseRecord
<1>12. ASSUME NEW p \in Process, Crash(p) PROVE LockExcludes'
  <2>1. \A u \in Write : step'[u] = step[u] \/ step'[u] = "dead"
    BY <1>12 DEF Crash, TypeOK
  <2>2. \A u \in Write : step'[u] \in InLock => step[u] \in InLock /\ at[u] # p
    BY <1>12 DEF Crash, TypeOK, Pending
  <2> QED BY <1>12, <2>1, <2>2 DEF Crash, TypeOK, Pending
<1>13. ASSUME NEW w \in Write, FailToLock(w) PROVE LockExcludes'
  BY <1>13 DEF TypeOK, FailToLock, Turn, Leave, Pending
<1>14. ASSUME NEW w \in Write, FailToUnlock(w) PROVE LockExcludes'
  BY <1>14 DEF TypeOK, FailToUnlock
<1> QED
  BY <1>1, <1>2, <1>3, <1>4, <1>5, <1>6, <1>7, <1>8, <1>9, <1>10, <1>11, <1>12, <1>13, <1>14
  DEF Next, Serve

LEMMA QueuesKept == IInv /\ Next => Queued'
<1>. SUFFICES ASSUME IInv, Next PROVE Queued'
  OBVIOUS
<1>. TypeOK /\ Queued /\ LockExcludes
  BY DEF IInv
<1>. DEFINE Waits(w)  == step[w] \in {"queued"} \cup InLock
            Sits(w)   == \E i \in 1 .. Len(queue[at[w]]) : queue[at[w]][i] = w
<1>. USE DEF Goto, InLock
<1>1. ASSUME NEW w \in Write, NEW r \in Request, NEW p \in Process, Submit(w, r, p)
      PROVE Queued'
  <2>. SUFFICES ASSUME NEW u \in Write, Waits(u)' PROVE Sits(u)'
    BY DEF Queued
  <2>1. CASE u = w
    <3>1. queue'[at'[u]] = Append(queue[p], w)
      BY <1>1, <2>1 DEF Submit, TypeOK
    <3> QED BY <2>1, <3>1 DEF TypeOK
  <2>2. CASE u # w
    <3>1. Waits(u) /\ at'[u] = at[u] /\ at[u] \in Process
      BY <1>1, <2>2 DEF Submit, TypeOK, Pending
    <3>2. PICK i \in 1 .. Len(queue[at[u]]) : queue[at[u]][i] = u
      BY <3>1 DEF Queued
    <3>3. /\ i \in 1 .. Len(Append(queue[at[u]], w))
          /\ Append(queue[at[u]], w)[i] = u
      BY <3>1, <3>2 DEF TypeOK
    <3>4. queue'[at[u]] \in {queue[at[u]], Append(queue[at[u]], w)}
      BY <1>1, <3>1 DEF Submit, TypeOK
    <3> QED BY <3>1, <3>2, <3>3, <3>4
  <2> QED BY <2>1, <2>2
<1>2. ASSUME NEW w \in Write, Waits(w), Head(queue[at[w]]) = w, Leave(w), UNCHANGED at,
             \A u \in Write : Waits(u)' => u # w /\ Waits(u)
      PROVE  Queued'
  <2>. SUFFICES ASSUME NEW u \in Write, Waits(u)' PROVE Sits(u)'
    BY DEF Queued
  <2>1. u # w /\ Waits(u) /\ at[u] \in Process /\ at[w] \in Process
    BY <1>2 DEF TypeOK, Pending
  <2>2. PICK i \in 1 .. Len(queue[at[u]]) : queue[at[u]][i] = u
    BY <2>1 DEF Queued
  <2>3. CASE at[u] # at[w]
    BY <1>2, <2>1, <2>2, <2>3 DEF Leave, TypeOK
  <2>4. CASE at[u] = at[w]
    <3>. DEFINE q == queue[at[u]]
    <3>1. q \in Seq(Write) /\ q[1] = w /\ q[i] = u /\ i \in 1 .. Len(q)
      BY <1>2, <2>1, <2>2, <2>4 DEF TypeOK
    <3>2. queue'[at'[u]] = Tail(q)
      BY <1>2, <2>1, <2>4 DEF Leave, TypeOK
    <3>. HIDE DEF q
    <3>3. i - 1 \in 1 .. Len(Tail(q)) /\ Tail(q)[i - 1] = u
      BY <2>1, <3>1
    <3> QED BY <3>2, <3>3
  <2> QED BY <2>3, <2>4
<1>3. ASSUME UNCHANGED <<at, queue>>, \A u \in Write : Waits(u)' => Waits(u) PROVE Queued'
  BY <1>3 DEF Queued
<1>4. ASSUME NEW w \in Write, NEW r \in Request, Refuse(w, r) PROVE Queued'
  BY <1>3, <1>4 DEF Refuse, TypeOK
<1>5. ASSUME NEW w \in Write, ShedWrite(w) \/ FailToLock(w) PROVE Queued'
  BY <1>2, <1>5 DEF ShedWrite, FailToLock, Turn, TypeOK
<1>6. ASSUME NEW w \in Write, Release(w) \/ FailToUnlock(w) PROVE Queued'
  BY <1>2, <1>6 DEF Release, FailToUnlock, LockExcludes, TypeOK
<1>7. ASSUME NEW w \in Write,
             TakeLock(w) \/ ReadText(w) \/ AppendRevision(w) \/ Rewrite(w) \/ Abort(w)
      PROVE  Queued'
  BY <1>3, <1>7
  DEF TakeLock, Turn, ReadText, AppendRevision, Rewrite, MayRewrite, Abort, TypeOK
<1>8. ASSUME NEW w \in Write, Record(w) \/ LoseRecord(w) PROVE Queued'
  BY <1>3, <1>8 DEF Record, LoseRecord, TypeOK
<1>9. ASSUME NEW p \in Process, Crash(p) PROVE Queued'
  <2>1. \A u \in Write : Waits(u)' => Waits(u) /\ at[u] # p
    BY <1>9 DEF Crash, Pending, TypeOK
  <2>2. \A u \in Write : Waits(u)' => queue'[at'[u]] = queue[at[u]] /\ at'[u] = at[u]
    BY <1>9, <2>1 DEF Crash, Pending, TypeOK
  <2> QED BY <2>1, <2>2 DEF Queued
<1> QED
  BY <1>1, <1>4, <1>5, <1>6, <1>7, <1>8, <1>9 DEF Next, Serve

\* Only an append to the history and a rewrite touch what is on disk, and the
\* writes they could disturb are not in the lock.
LEMMA OnlyHolderWrites ==
  IInv /\ Next => \/ UNCHANGED <<channel, history, applied>>
                  \/ \E w \in Write : AppendRevision(w) \/ Rewrite(w)
  BY DEF Next, Serve, Refuse, Submit, TakeLock, ShedWrite, FailToLock, ReadText, Abort, Release,
         FailToUnlock, Record, LoseRecord, Crash

LEMMA Exclusion ==
  ASSUME IInv, NEW w \in Write, NEW u \in Write, step[w] \in InLock, step[u] \in InLock
  PROVE  u = w
  BY DEF IInv, LockExcludes

\* The request of a write is what it was first.
LEMMA RequestStays ==
  ASSUME IInv, Next, NEW w \in Write, step[w] # "idle"
  PROVE  request'[w] = request[w]
  BY DEF IInv, TypeOK, Next, Serve, Refuse, Submit, TakeLock, ShedWrite, FailToLock, ReadText, AppendRevision,
         Rewrite, Abort, Release, FailToUnlock, Record, LoseRecord, Crash

LEMMA AppliedKept == IInv /\ Next => AppliedByStep'
<1>. SUFFICES ASSUME IInv, Next PROVE AppliedByStep'
  OBVIOUS
<1>. TypeOK /\ AppliedByStep
  BY DEF IInv
<1>. USE DEF Goto, AppliedByStep
<1>1. ASSUME NEW w \in Write, NEW r \in Request, Refuse(w, r) PROVE AppliedByStep'
  BY <1>1 DEF TypeOK, Refuse
<1>2. ASSUME NEW w \in Write, NEW r \in Request, NEW p \in Process, Submit(w, r, p)
      PROVE AppliedByStep'
  BY <1>2 DEF TypeOK, Submit
<1>3. ASSUME NEW w \in Write, TakeLock(w) \/ ShedWrite(w) \/ FailToLock(w) PROVE AppliedByStep'
  BY <1>3 DEF TypeOK, TakeLock, ShedWrite, FailToLock, Turn
<1>4. ASSUME NEW w \in Write, ReadText(w) \/ AppendRevision(w) \/ Abort(w) PROVE AppliedByStep'
  BY <1>4 DEF TypeOK, ReadText, AppendRevision, Abort
<1>5. ASSUME NEW w \in Write, Rewrite(w) PROVE AppliedByStep'
  BY <1>5 DEF TypeOK, Rewrite, MayRewrite
<1>6. ASSUME NEW w \in Write, Release(w) \/ FailToUnlock(w) PROVE AppliedByStep'
  BY <1>6 DEF TypeOK, Release, FailToUnlock
<1>7. ASSUME NEW w \in Write, Record(w) \/ LoseRecord(w) PROVE AppliedByStep'
  BY <1>7 DEF TypeOK, Record, LoseRecord
<1>8. ASSUME NEW p \in Process, Crash(p) PROVE AppliedByStep'
  BY <1>8 DEF TypeOK, Crash
<1> QED BY <1>1, <1>2, <1>3, <1>4, <1>5, <1>6, <1>7, <1>8 DEF Next, Serve

LEMMA FileKept == IInv /\ Next => FileIsApplied'
<1>. SUFFICES ASSUME IInv, Next PROVE FileIsApplied'
  OBVIOUS
<1>. TypeOK /\ AppliedByStep /\ FileIsApplied
  BY DEF IInv
<1>0. \A w \in applied : w \in Write /\ request'[w] = request[w]
  BY RequestStays DEF AppliedByStep, TypeOK
<1>1. CASE UNCHANGED <<channel, history, applied>>
  BY <1>0, <1>1 DEF FileIsApplied
<1>2. ASSUME NEW w \in Write, AppendRevision(w) PROVE FileIsApplied'
  <2>1. request[w].id \in DOMAIN channel /\ UNCHANGED <<channel, applied, request>>
    BY <1>2, EditTarget DEF AppendRevision
  <2>2. \A m \in Msg : m # request[w].id => history'[m] = history[m]
    BY <1>2, EditTarget DEF AppendRevision, Keep, TypeOK
  <2> QED BY <2>1, <2>2 DEF FileIsApplied
<1>3. ASSUME NEW w \in Write, Rewrite(w) PROVE FileIsApplied'
  <2>1. DOMAIN channel' = DOMAIN channel \cup {request[w].id}
    BY <1>3, RewriteMakesOneBlock DEF OneBlock
  <2>2. applied' = applied \cup {w} /\ history' = history /\ request' = request
    BY <1>3 DEF Rewrite
  <2>3. request[w].id = w \/ request[w].id \in DOMAIN channel
    BY <1>3, RewriteMakesOneBlock DEF Permitted, IsFor
  <2>4. DOMAIN channel' \cap Write \subseteq applied'
    BY <2>1, <2>2, <2>3 DEF FileIsApplied
  <2>5. \A u \in applied' : request'[u].id \in DOMAIN channel'
    BY <2>1, <2>2 DEF FileIsApplied
  <2>6. \A m \in Msg \ DOMAIN channel' : history'[m] = {}
    BY <2>1, <2>2 DEF FileIsApplied
  <2> QED BY <2>4, <2>5, <2>6 DEF FileIsApplied
<1> QED BY <1>1, <1>2, <1>3, OnlyHolderWrites

LEMMA ReadKept == IInv /\ Next => ReadStands'
<1>. SUFFICES ASSUME IInv, Next, NEW u \in Write, step'[u] \in {"read", "revised"}
              PROVE  text'[u] = channel'
  BY DEF ReadStands
<1>. TypeOK /\ ReadStands
  BY DEF IInv
<1>. USE DEF ReadStands, Goto, TypeOK
<1>1. ASSUME NEW w \in Write, NEW r \in Request,
             Refuse(w, r) \/ \E p \in Process : Submit(w, r, p)
      PROVE text'[u] = channel'
  BY <1>1 DEF Refuse, Submit
<1>2. ASSUME NEW w \in Write, TakeLock(w) \/ ShedWrite(w) \/ FailToLock(w) PROVE text'[u] = channel'
  BY <1>2 DEF TakeLock, ShedWrite, FailToLock
<1>3. ASSUME NEW w \in Write, ReadText(w) \/ AppendRevision(w) \/ Abort(w)
      PROVE  text'[u] = channel'
  BY <1>3 DEF ReadText, AppendRevision, Abort
<1>4. ASSUME NEW w \in Write, Rewrite(w) PROVE text'[u] = channel'
  <2>1. u # w /\ step[u] \in InLock /\ step[w] \in InLock
    BY <1>4 DEF Rewrite, MayRewrite, InLock
  <2> QED BY <2>1, Exclusion
<1>5. ASSUME NEW w \in Write, Release(w) \/ FailToUnlock(w) \/ Record(w) \/ LoseRecord(w)
      PROVE  text'[u] = channel'
  BY <1>5 DEF Release, FailToUnlock, Record, LoseRecord
<1>6. ASSUME NEW p \in Process, Crash(p) PROVE text'[u] = channel'
  BY <1>6 DEF Crash
<1> QED BY <1>1, <1>2, <1>3, <1>4, <1>5, <1>6 DEF Next, Serve

LEMMA PermissionKept == IInv /\ Next => PermissionHolds'
<1>. SUFFICES ASSUME IInv, Next,
                     NEW u \in Write, step'[u] \in {"queued", "locked", "read", "revised"}
              PROVE  Permitted(channel', request'[u])
  BY DEF PermissionHolds
<1>. TypeOK /\ PermissionHolds
  BY DEF IInv
<1>. USE DEF Goto, TypeOK
<1>1. ASSUME step[u] \in {"queued", "locked", "read", "revised"}
      PROVE  Permitted(channel', request'[u])
  <2>1. Permitted(channel, request[u]) /\ request'[u] = request[u] /\ request[u] \in Request
    BY <1>1, RequestStays DEF PermissionHolds, IsFor
  <2>2. CASE UNCHANGED channel
    BY <2>1, <2>2
  <2>3. ASSUME NEW w \in Write, Rewrite(w) PROVE Permitted(channel', request'[u])
    <3>1. /\ IsFor(request[w], w) /\ Permitted(channel, request[w]) /\ IsFile(channel)
          /\ channel' = Rewritten(channel, w, request[w])
      BY <2>3, RewriteMakesOneBlock
    <3>2. request[w].kind = "post" => w \notin DOMAIN channel
      BY <2>3 DEF IInv, FileIsApplied, AppliedByStep, Rewrite, MayRewrite
    <3>3. Permitted(Rewritten(channel, w, request[w]), request[u])
      BY <2>1, <3>1, <3>2, PermittedStays
    <3> QED BY <2>1, <3>1, <3>3
  <2> QED BY <2>2, <2>3, OnlyHolderWrites DEF AppendRevision
<1>2. ASSUME NEW w \in Write, NEW r \in Request,
             Refuse(w, r) \/ \E p \in Process : Submit(w, r, p)
      PROVE Permitted(channel', request'[u])
  BY <1>1, <1>2 DEF Refuse, Submit
<1>3. ASSUME NEW w \in Write, Serve(w) PROVE Permitted(channel', request'[u])
  BY <1>1, <1>3 DEF Serve, TakeLock, Turn, ShedWrite, FailToLock, ReadText, AppendRevision, Rewrite, Abort,
                    Release, FailToUnlock, Record, LoseRecord
<1>4. ASSUME NEW p \in Process, Crash(p) PROVE Permitted(channel', request'[u])
  BY <1>1, <1>4 DEF Crash
<1> QED BY <1>2, <1>3, <1>4 DEF Next

LEMMA RevisionIsKept == IInv /\ Next => RevisionKept'
<1>. SUFFICES ASSUME IInv, Next, NEW u \in Write, step'[u] = "revised"
              PROVE  /\ request'[u].kind = "edit"
                     /\ \E e \in history'[request'[u].id] :
                          /\ e.revision = channel'[request'[u].id].revision + 1
                          /\ e.prior = channel'[request'[u].id].body
  BY DEF RevisionKept
<1>. TypeOK
  BY DEF IInv
<1>1. CASE step[u] = "revised"
  <2>1. request'[u] = request[u]
    BY <1>1, RequestStays
  <2>2. UNCHANGED <<channel, history>>
    <3>1. ASSUME NEW w \in Write, AppendRevision(w) \/ Rewrite(w) PROVE w = u
      BY <1>1, <3>1, Exclusion DEF AppendRevision, Rewrite, MayRewrite, InLock
    <3>2. ~ AppendRevision(u)
      BY <1>1 DEF AppendRevision
    <3>3. ~ Rewrite(u)
      <4>1. Rewrite(u) => step'[u] = "written"
        BY DEF Rewrite, Goto, TypeOK
      <4> QED BY <4>1
    <3> QED BY <3>1, <3>2, <3>3, OnlyHolderWrites
  <2> QED BY <1>1, <2>1, <2>2 DEF IInv, RevisionKept
<1>2. CASE step[u] # "revised"
  <2>1. AppendRevision(u)
    BY <1>2 DEF TypeOK, Goto, Next, Serve, Refuse, Submit, TakeLock, ShedWrite, FailToLock, ReadText,
                AppendRevision, Rewrite, Abort, Release, FailToUnlock, Record, LoseRecord, Crash
  <2>2. request[u].id \in Msg /\ Entry(u) \in history'[request[u].id]
    BY <2>1, EditTarget, EntryAppended
  <2>3. /\ Entry(u).revision = channel[request[u].id].revision + 1
        /\ Entry(u).prior = channel[request[u].id].body
    BY <2>1, EntryAppended
  <2>4. UNCHANGED <<channel, request>> /\ request[u].kind = "edit"
    BY <2>1 DEF AppendRevision
  <2> QED BY <2>2, <2>3, <2>4
<1> QED BY <1>1, <1>2

LEMMA AuditKept == IInv /\ Next => AuditByStep' /\ AuditIsTrue'
<1>. SUFFICES ASSUME IInv, Next PROVE AuditByStep' /\ AuditIsTrue'
  OBVIOUS
<1>. TypeOK /\ AuditByStep /\ AuditIsTrue /\ AppliedByStep
  BY DEF IInv
<1>. USE DEF Goto, TypeOK, AuditByStep, AuditIsTrue, AppliedByStep, Pending, InLock
<1>1. ASSUME NEW w \in Write, NEW r \in Request, Refuse(w, r) PROVE AuditByStep' /\ AuditIsTrue'
  BY <1>1 DEF Refuse
<1>2. ASSUME NEW w \in Write, NEW r \in Request, NEW p \in Process, Submit(w, r, p)
      PROVE AuditByStep' /\ AuditIsTrue'
  BY <1>2 DEF Submit
<1>3. ASSUME NEW w \in Write, TakeLock(w) \/ ShedWrite(w) \/ FailToLock(w) PROVE AuditByStep' /\ AuditIsTrue'
  BY <1>3 DEF TakeLock, Turn, ShedWrite, FailToLock
<1>4. ASSUME NEW w \in Write, ReadText(w) \/ AppendRevision(w) \/ Abort(w)
      PROVE  AuditByStep' /\ AuditIsTrue'
  BY <1>4 DEF ReadText, AppendRevision, Abort
<1>5. ASSUME NEW w \in Write, Rewrite(w) PROVE AuditByStep' /\ AuditIsTrue'
  BY <1>5 DEF Rewrite, MayRewrite
<1>6. ASSUME NEW w \in Write, Release(w) \/ FailToUnlock(w) PROVE AuditByStep' /\ AuditIsTrue'
  BY <1>6 DEF Release, FailToUnlock
<1>7. ASSUME NEW w \in Write, Record(w) \/ LoseRecord(w) PROVE AuditByStep' /\ AuditIsTrue'
  BY <1>7 DEF Record, LoseRecord
<1>8. ASSUME NEW p \in Process, Crash(p) PROVE AuditByStep' /\ AuditIsTrue'
  BY <1>8 DEF Crash
<1> QED BY <1>1, <1>2, <1>3, <1>4, <1>5, <1>6, <1>7, <1>8 DEF Next, Serve

LEMMA BodiesKept == IInv /\ Next => NothingForgotten'
<1>. SUFFICES ASSUME IInv, Next,
                     NEW u \in applied', NEW m \in Msg,
                     request'[u].kind # "archive", request'[u].id = m
              PROVE  \/ channel'[m].body = u
                     \/ \E e \in history'[m] : e.prior = u
  BY DEF NothingForgotten
<1>. TypeOK /\ AppliedByStep /\ FileIsApplied /\ NothingForgotten
  BY DEF IInv
<1>0. ASSUME u \in applied
      PROVE  /\ m \in DOMAIN channel /\ request'[u] = request[u]
             /\ channel[m].body = u \/ \E e \in history[m] : e.prior = u
  BY <1>0, RequestStays DEF TypeOK, AppliedByStep, FileIsApplied, NothingForgotten
<1>1. CASE UNCHANGED <<channel, history, applied>>
  BY <1>0, <1>1
<1>2. ASSUME NEW w \in Write, AppendRevision(w)
      PROVE  channel'[m].body = u \/ \E e \in history'[m] : e.prior = u
  <2>1. UNCHANGED <<channel, applied>>
    BY <1>2 DEF AppendRevision
  <2>2. history[m] \subseteq history'[m]
    BY <1>2, EntryAppended
  <2> QED BY <1>0, <2>1, <2>2
<1>3. ASSUME NEW w \in Write, Rewrite(w)
      PROVE  channel'[m].body = u \/ \E e \in history'[m] : e.prior = u
  <2>1. /\ OneBlock(channel, request[w], channel')
        /\ Carries(channel, w, request[w], channel')
        /\ IsFor(request[w], w) /\ request[w].kind \in Kind
    BY <1>3, RewriteMakesOneBlock DEF IsFor, Request
  <2>2. history' = history /\ applied' = applied \cup {w} /\ request' = request
    BY <1>3 DEF Rewrite
  <2>3. CASE u = w
    BY <2>1, <2>2, <2>3 DEF Carries, Kind
  <2>4. CASE u # w
    <3>1. u \in applied /\ m \in DOMAIN channel
      BY <1>0, <2>2, <2>4
    <3>2. CASE m # request[w].id
      BY <1>0, <2>1, <2>2, <3>1, <3>2 DEF OneBlock
    <3>3. CASE m = request[w].id
      <4>1. request[w].kind # "post"
        BY <1>3, <2>1, <3>1, <3>3 DEF Rewrite, MayRewrite, AppliedByStep, FileIsApplied, IsFor
      <4>2. CASE request[w].kind = "edit"
        <5>1. \E e \in history[m] : e.prior = channel[m].body
          BY <1>3, <3>3, <4>2 DEF Rewrite, MayRewrite, IInv, RevisionKept
        <5> QED BY <1>0, <2>2, <3>1, <5>1
      <4>3. CASE request[w].kind = "archive"
        <5>1. channel'[m].body = channel[m].body
          BY <2>1, <3>3, <4>3 DEF Carries
        <5> QED BY <1>0, <2>2, <3>1, <5>1
      <4> QED BY <2>1, <4>1, <4>2, <4>3 DEF Kind
    <3> QED BY <3>2, <3>3
  <2> QED BY <2>3, <2>4
<1> QED BY <1>1, <1>2, <1>3, OnlyHolderWrites

\* HistoryAccountsForRevisions, of one message.
Accounts(file, entries, m) ==
  /\ \A n \in 1 .. file[m].revision : \E e \in entries : e.revision = n
  /\ \A e \in entries : /\ e.revision =< file[m].revision + 1
                        /\ e.revision = file[m].revision + 1 => e.prior = file[m].body
  /\ \A e, f \in entries : e.revision = f.revision => e.prior = f.prior

LEMMA HistoryKept == IInv /\ Next => HistoryAccountsForRevisions'
<1>. SUFFICES ASSUME IInv, Next, NEW m \in DOMAIN channel'
              PROVE  Accounts(channel', history'[m], m)
  BY DEF HistoryAccountsForRevisions, Accounts
<1>. TypeOK /\ FileIsApplied
  BY DEF IInv
<1>0. ASSUME m \in DOMAIN channel
      PROVE  /\ Accounts(channel, history[m], m)
             /\ m \in Msg /\ channel[m].revision \in Nat
             /\ \A e \in history[m] : e.revision \in Nat
  BY <1>0 DEF IInv, HistoryAccountsForRevisions, Accounts, TypeOK, IsFile, Block, Revision
<1>1. CASE UNCHANGED <<channel, history, applied>>
  BY <1>0, <1>1
<1>2. ASSUME NEW w \in Write, AppendRevision(w) PROVE Accounts(channel', history'[m], m)
  <2>1. channel' = channel
    BY <1>2 DEF AppendRevision
  <2>2. CASE m # request[w].id
    <3>1. history'[m] = history[m]
      BY <1>0, <1>2, <2>1, <2>2, EntryAppended
    <3> QED BY <1>0, <2>1, <3>1
  <2>3. CASE m = request[w].id
    <3>1. /\ history'[m] = history[m] \cup {Entry(w)}
          /\ Entry(w).revision = channel[m].revision + 1
          /\ Entry(w).prior = channel[m].body
      BY <1>0, <1>2, <2>1, <2>3, EntryAppended
    <3> QED BY <1>0, <2>1, <3>1 DEF Accounts
  <2> QED BY <2>2, <2>3
<1>3. ASSUME NEW w \in Write, Rewrite(w) PROVE Accounts(channel', history'[m], m)
  <2>1. /\ OneBlock(channel, request[w], channel')
        /\ Carries(channel, w, request[w], channel')
        /\ IsFor(request[w], w) /\ request[w].kind \in Kind /\ request[w].id \in Msg
        /\ Permitted(channel, request[w])
    BY <1>3, RewriteMakesOneBlock DEF IsFor, Request
  <2>2. history' = history
    BY <1>3 DEF Rewrite
  <2>3. CASE m # request[w].id
    <3>1. m \in DOMAIN channel /\ channel'[m] = channel[m]
      BY <2>1, <2>3 DEF OneBlock
    <3> QED BY <1>0, <2>2, <3>1 DEF Accounts
  <2>4. CASE m = request[w].id /\ request[w].kind = "post"
    <3>1. m \in Msg \ DOMAIN channel
      BY <1>3, <2>1, <2>4 DEF Rewrite, MayRewrite, IInv, FileIsApplied, AppliedByStep, IsFor
    <3>2. history[m] = {} /\ channel'[m].revision = 0
      BY <2>1, <2>4, <3>1 DEF FileIsApplied, Carries
    <3> QED BY <2>2, <3>2 DEF Accounts
  <2>5. CASE m = request[w].id /\ request[w].kind = "edit"
    <3>1. m \in DOMAIN channel /\ channel'[m].revision = channel[m].revision + 1
      BY <2>1, <2>5 DEF Permitted, Carries
    <3>2. \E e \in history[m] : e.revision = channel[m].revision + 1
      BY <1>3, <2>5 DEF Rewrite, MayRewrite, IInv, RevisionKept
    <3>. DEFINE n == channel[m].revision
    <3>3. n \in Nat /\ \A i \in 1 .. n + 1 : i \in 1 .. n \/ i = n + 1
      BY <1>0, <3>1
    <3> QED BY <1>0, <2>2, <3>1, <3>2, <3>3 DEF Accounts
  <2>6. CASE m = request[w].id /\ request[w].kind = "archive"
    <3>1. /\ m \in DOMAIN channel /\ channel'[m].revision = channel[m].revision
          /\ channel'[m].body = channel[m].body
      BY <2>1, <2>6 DEF Permitted, Carries
    <3> QED BY <1>0, <2>2, <3>1 DEF Accounts
  <2> QED BY <2>1, <2>3, <2>4, <2>5, <2>6 DEF Kind
<1> QED BY <1>1, <1>2, <1>3, OnlyHolderWrites

LEMMA IInvKept == IInv /\ [Next]_vars => IInv'
<1>1. CASE Next
  BY <1>1, TypeKept, LockKept, QueuesKept, AppliedKept, FileKept, ReadKept, PermissionKept,
     RevisionIsKept, AuditKept, BodiesKept, HistoryKept DEF IInv
<1>2. CASE UNCHANGED vars
  BY <1>2
  DEF vars, IInv, TypeOK, LockExcludes, Queued, AppliedByStep, FileIsApplied, ReadStands,
      PermissionHolds, RevisionKept, NothingForgotten, HistoryAccountsForRevisions, AuditByStep,
      AuditIsTrue
<1> QED BY <1>1, <1>2

LEMMA Inductive == Spec => []IInv
  BY InitIInv, IInvKept, PTL DEF Spec

--------------------------------------------------------------------------------
(* The theorems. *)

\* Every state is well typed.
THEOREM TypeCorrect == Spec => []TypeOK
  BY Inductive, PTL DEF IInv

\* No body that was ever on the channel is lost (core/channel.js, editMessage).
THEOREM BodiesStay == Spec => []NothingForgotten
  BY Inductive, PTL DEF IInv

\* The history has an entry for every revision, and its entries agree
\* (core/history.js).
THEOREM HistoryAccounts == Spec => []HistoryAccountsForRevisions
  BY Inductive, PTL DEF IInv

\* An audit row claims no write that did not take effect (daemon/routes/channel.js).
THEOREM AuditNeverLies == Spec => []AuditIsTrue
  BY Inductive, PTL DEF IInv

\* In one process the queue, and not the lock, orders the writes
\* (core/channel.js, enqueue).
THEOREM NoSelfContention == Spec => BusyOnlyAcrossProcesses
<1>. DEFINE A == \A w \in Write : step[w] # "busy" /\ step'[w] = "busy" =>
                   holder \in Gone \/ at[holder] # at[w]
<1>1. IInv /\ [Next]_vars => [A]_vars
  <2>. SUFFICES ASSUME IInv, Next, NEW w \in Write, step[w] # "busy", step'[w] = "busy",
                       holder \notin Gone, at[holder] = at[w]
                PROVE  FALSE
    BY DEF vars
  <2>. TypeOK /\ LockExcludes
    BY DEF IInv
  <2>1. ShedWrite(w)
    BY DEF TypeOK, Goto, Next, Serve, Refuse, Submit, TakeLock, ShedWrite, FailToLock, ReadText,
           AppendRevision, Rewrite, Abort, Release, FailToUnlock, Record, LoseRecord, Crash
  <2>2. holder \in Write /\ step[holder] \in InLock
    BY <2>1 DEF ShedWrite, LockExcludes, Gone, TypeOK
  <2>3. Head(queue[at[w]]) = w /\ step[w] = "queued"
    BY <2>1 DEF ShedWrite, Turn
  <2> QED BY <2>2, <2>3 DEF LockExcludes, InLock
<1> QED BY <1>1, Inductive, PTL DEF BusyOnlyAcrossProcesses, Spec

--------------------------------------------------------------------------------
(* The writes are atomic: every step is a step of AtomicChannel, or none.  *)
(* A write takes effect when its file is renamed into place, and its client *)
(* has its answer when it is settled.                                       *)

Told(s) == IF s \in {"dead", "failed"} THEN "failed"
           ELSE IF s \in {"ok", "refused", "busy"} THEN s ELSE "none"

LEMMA AnswerIsTold ==
  /\ TypeOK => ClientAnswer = [w \in Write |-> Told(step[w])]
  /\ TypeOK' => ClientAnswer' = [w \in Write |-> Told(step'[w])]
  BY DEF ClientAnswer, Told, TypeOK, Pending, InLock, Settled

\* AtomicChannel's channel.md is this one.
LEMMA SameText ==
  /\ Atomic!OldFiles = OldFiles /\ Atomic!Request = Request
  /\ \A r, w : Atomic!IsFor(r, w) <=> IsFor(r, w)
  /\ \A f, r : Atomic!Permitted(f, r) <=> Permitted(f, r)
  /\ \A f, w, r : Atomic!Rewritten(f, w, r) = Rewritten(f, w, r)
<1>1. Atomic!OldFiles = OldFiles
  BY DEF Atomic!OldFiles, OldFiles
<1>2. Atomic!Request = Request
  BY DEF Atomic!Request, Request, Atomic!Kind, Kind, Atomic!Msg, Msg
<1>3. \A r, w : Atomic!IsFor(r, w) <=> IsFor(r, w)
  BY <1>2 DEF Atomic!IsFor, IsFor
<1>4. \A f, r : Atomic!Permitted(f, r) <=> Permitted(f, r)
  BY DEF Atomic!Permitted, Permitted
<1>5. \A f, w, r : Atomic!Rewritten(f, w, r) = Rewritten(f, w, r)
  BY Zenon DEF Atomic!Rewritten, Rewritten, Atomic!Posted, Posted, Atomic!Edited, Edited,
     Atomic!Archived, Archived
<1> QED BY <1>1, <1>2, <1>3, <1>4, <1>5

LEMMA InitAtomic == Init => Atomic!Init
<1>. SUFFICES ASSUME Init PROVE Atomic!Init
  OBVIOUS
<1>1. ClientAnswer = [w \in Write |-> "none"]
  BY InitIInv, AnswerIsTold DEF Init, IInv, Told
<1> QED BY <1>1, SameText DEF Init, Atomic!Init

\* A step of one write, as its client sees it.
LEMMA OneAnswer ==
  ASSUME TypeOK, TypeOK', NEW w \in Write, NEW next, step' = [step EXCEPT ![w] = next]
  PROVE  ClientAnswer' = [ClientAnswer EXCEPT ![w] = Told(next)]
  BY AnswerIsTold DEF TypeOK

\* And one that its client does not see.
LEMMA NoAnswer ==
  ASSUME TypeOK, TypeOK', NEW w \in Write, NEW next, step' = [step EXCEPT ![w] = next],
         Told(step[w]) = Told(next)
  PROVE  ClientAnswer' = ClientAnswer
<1>1. /\ ClientAnswer = [u \in Write |-> Told(step[u])]
      /\ ClientAnswer' = [u \in Write |-> Told(step'[u])]
  BY AnswerIsTold
<1>2. \A u \in Write : step'[u] = step[u] \/ (u = w /\ step'[u] = next)
  BY DEF TypeOK
<1> QED BY <1>1, <1>2

LEMMA StepAtomic == IInv /\ IInv' /\ Next => Atomic!Next \/ UNCHANGED Atomic!vars
<1>. SUFFICES ASSUME IInv, IInv', Next PROVE Atomic!Next \/ UNCHANGED Atomic!vars
  OBVIOUS
<1>. TypeOK /\ TypeOK'
  BY DEF IInv
<1>. USE DEF Goto
<1>1. ASSUME NEW w \in Write, NEW r \in Request, Refuse(w, r) PROVE Atomic!Refuse(w, r)
  <2>1. ClientAnswer' = [ClientAnswer EXCEPT ![w] = "refused"]
    BY <1>1, OneAnswer DEF Refuse, Told
  <2>2. request[w] = None
    BY <1>1 DEF Refuse, TypeOK
  <2> QED BY <1>1, <2>1, <2>2, SameText DEF Refuse, Atomic!Refuse, Atomic!Tell
<1>2. ASSUME NEW w \in Write, NEW r \in Request, NEW p \in Process, Submit(w, r, p)
      PROVE  Atomic!Submit(w, r)
  <2>1. ClientAnswer' = ClientAnswer
    BY <1>2, NoAnswer DEF Submit, Told
  <2>2. request[w] = None
    BY <1>2 DEF Submit, TypeOK
  <2> QED BY <1>2, <2>1, <2>2, SameText DEF Submit, Atomic!Submit
<1>3. ASSUME NEW w \in Write, step[w] \in Pending PROVE Atomic!Open(w)
  <2>1. ClientAnswer[w] = "none"
    BY <1>3, AnswerIsTold DEF Told, Pending, InLock
  <2>2. request[w] # None
    BY <1>3 DEF TypeOK, Pending, InLock
  <2> QED BY <2>1, <2>2 DEF Atomic!Open
<1>4. ASSUME NEW w \in Write, ShedWrite(w) PROVE Atomic!GiveUp(w)
  <2>1. ClientAnswer' = [ClientAnswer EXCEPT ![w] = "busy"]
    BY <1>4, OneAnswer DEF ShedWrite, Told
  <2>2. w \notin applied /\ step[w] \in Pending
    BY <1>4 DEF ShedWrite, Turn, IInv, AppliedByStep, Pending
  <2> QED BY <1>3, <1>4, <2>1, <2>2 DEF ShedWrite, Atomic!GiveUp, Atomic!Tell
<1>5. ASSUME NEW w \in Write, Rewrite(w) PROVE Atomic!TakeEffect(w)
  <2>1. ClientAnswer' = ClientAnswer
    BY <1>5, NoAnswer DEF Rewrite, MayRewrite, Told
  <2>2. w \notin applied /\ step[w] \in Pending
    BY <1>5 DEF Rewrite, MayRewrite, IInv, AppliedByStep, Pending, InLock
  <2>3. /\ Atomic!Permitted(channel, request[w])
        /\ channel' = Atomic!Rewritten(channel, w, request[w])
    BY <1>5, RewriteMakesOneBlock, SameText
  <2> QED BY <1>3, <1>5, <2>1, <2>2, <2>3 DEF Rewrite, Atomic!TakeEffect
<1>6. ASSUME NEW w \in Write, Record(w) PROVE Atomic!Succeed(w)
  <2>1. ClientAnswer' = [ClientAnswer EXCEPT ![w] = "ok"]
    BY <1>6, OneAnswer DEF Record, Told
  <2>2. w \in applied /\ step[w] \in Pending
    BY <1>6 DEF Record, IInv, AppliedByStep, Pending
  <2> QED BY <1>3, <1>6, <2>1, <2>2 DEF Record, Atomic!Succeed, Atomic!Tell
<1>7. ASSUME NEW some \in SUBSET Write, \A w \in some : step[w] \in Pending,
             \A w \in Write : Told(step'[w]) = IF w \in some THEN "failed" ELSE Told(step[w]),
             UNCHANGED <<channel, request, applied>>
      PROVE  Atomic!Fail(some)
  <2>1. ClientAnswer' = [w \in Write |-> IF w \in some THEN "failed" ELSE ClientAnswer[w]]
    BY <1>7, AnswerIsTold
  <2> QED BY <1>3, <1>7, <2>1 DEF Atomic!Fail
<1>8. ASSUME NEW w \in Write,
             \/ LoseRecord(w) \/ (Release(w) /\ step[w] = "aborted")
             \/ FailToLock(w) \/ FailToUnlock(w)
      PROVE  Atomic!Fail({w})
  <2>1. \A u \in Write : Told(step'[u]) = IF u \in {w} THEN "failed" ELSE Told(step[u])
    BY <1>8 DEF LoseRecord, Release, FailToLock, FailToUnlock, Told, TypeOK
  <2> QED BY <1>7, <1>8, <2>1 DEF LoseRecord, Release, FailToLock, Turn, FailToUnlock, Pending,
                                         InLock
<1>9. ASSUME NEW p \in Process, Crash(p)
      PROVE  Atomic!Fail({w \in Write : at[w] = p /\ step[w] \in Pending})
  <2>. DEFINE some == {w \in Write : at[w] = p /\ step[w] \in Pending}
  <2>1. \A u \in Write : Told(step'[u]) = IF u \in some THEN "failed" ELSE Told(step[u])
    BY <1>9 DEF Crash, Told
  <2> QED BY <1>7, <1>9, <2>1 DEF Crash
<1>10. ASSUME NEW w \in Write,
              \/ TakeLock(w) \/ ReadText(w) \/ AppendRevision(w) \/ Abort(w)
              \/ (Release(w) /\ step[w] = "written")
       PROVE  UNCHANGED Atomic!vars
  <2>1. UNCHANGED <<channel, request, applied>>
    BY <1>10 DEF TakeLock, ReadText, AppendRevision, Abort, Release
  <2>2. \E next : step' = [step EXCEPT ![w] = next] /\ Told(step[w]) = Told(next)
    BY <1>10 DEF TakeLock, Turn, ReadText, AppendRevision, Abort, Release, Told
  <2>3. ClientAnswer' = ClientAnswer
    BY <2>2, NoAnswer
  <2> QED BY <2>1, <2>3 DEF Atomic!vars
<1> QED
  <2>1. CASE \E w \in Write, r \in Request : Refuse(w, r) \/ \E p \in Process : Submit(w, r, p)
    BY <1>1, <1>2, <2>1, SameText DEF Atomic!Next
  <2>2. CASE \E w \in Write : Serve(w)
    <3>1. PICK w \in Write : Serve(w)
      BY <2>2
    <3>2. Release(w) => \/ Release(w) /\ step[w] = "written"
                        \/ Release(w) /\ step[w] = "aborted"
      BY DEF Release
    <3>3. CASE ShedWrite(w) \/ Rewrite(w) \/ Record(w)
      BY <1>4, <1>5, <1>6, <3>3 DEF Atomic!Next
    <3>4. CASE \/ LoseRecord(w) \/ (Release(w) /\ step[w] = "aborted")
               \/ FailToLock(w) \/ FailToUnlock(w)
      <4>1. Atomic!Fail({w})
        BY <1>8, <3>4
      <4> QED BY <4>1 DEF Atomic!Next
    <3>5. CASE \/ TakeLock(w) \/ ReadText(w) \/ AppendRevision(w) \/ Abort(w)
               \/ (Release(w) /\ step[w] = "written")
      BY <1>10, <3>5
    <3> QED BY <3>1, <3>2, <3>3, <3>4, <3>5 DEF Serve
  <2>3. CASE \E p \in Process : Crash(p)
    BY <1>9, <2>3 DEF Atomic!Next
  <2> QED BY <2>1, <2>2, <2>3 DEF Next

\* Every write takes effect at once or not at all, on the channel as it is, and
\* what its client is told is so: the service implements AtomicChannel.
THEOREM WritesTakeEffectAtomically == Spec => WritesAreAtomic
<1>1. IInv /\ IInv' /\ [Next]_vars => [Atomic!Next]_(Atomic!vars)
  <2>1. UNCHANGED vars => UNCHANGED Atomic!vars
    BY DEF vars, Atomic!vars, ClientAnswer
  <2> QED BY <2>1, StepAtomic
<1> QED BY <1>1, InitAtomic, Inductive, PTL DEF WritesAreAtomic, Spec, Atomic!Spec
================================================================================
