------------------------------ MODULE ChannelFile ------------------------------
(***************************************************************************)
(* How the service writes channel.md: requests queue in the process that   *)
(* received them, the head of each queue takes the file's lock, reads the  *)
(* whole file, keeps the body an edit replaces, and renames a new file     *)
(* over the old one; the audit row and the event come after the lock.      *)
(*                                                                         *)
(* Every step is what runs between two awaits of the code.  A write that   *)
(* is in the lock is one of the steps locked, read, revised, written and   *)
(* aborted.  A process may die at any point and leave its lock behind,     *)
(* which others take once it is stale; the lock of a write that goes on is *)
(* taken to be refreshed in time.                                          *)
(***************************************************************************)
EXTENDS ChannelText, Sequences

CONSTANT Process  \* services on this channel: one, unless a second was started

VARIABLES
  channel,  \* channel.md
  history,  \* .sessions/<id>.history.md: per message, the bodies it has had
  request,  \* per write, what it asks
  at,       \* per write, the process that serves it
  step,     \* per write, how far it has got
  text,     \* per write, the file as it read it (at first, as the service found it)
  queue,    \* WRITE_QUEUE: per process, the writes that wait and the one that runs
  holder,   \* the write that made the lock file, alive or dead
  audit,    \* per write, the outcome in its audit row
  applied   \* history: the writes whose file has been renamed into place

vars == <<channel, history, request, at, step, text, queue, holder, audit, applied>>

InLock  == {"locked", "read", "revised", "written", "aborted"}
Pending == {"queued", "released"} \cup InLock
Settled == {"ok", "refused", "busy", "failed", "dead"}

Revision == [revision : Nat, prior : Msg, by : Write]

\* Writes that are over for another reason than their answer: a lock of theirs
\* that is still there is refreshed no more.
Gone == {w \in Write : step[w] \in {"dead", "failed"}}

Goto(w, next) == step' = [step EXCEPT ![w] = next]

--------------------------------------------------------------------------------
Init ==
  /\ channel \in OldFiles
  /\ history = [m \in Msg |-> {}]
  /\ request = [w \in Write |-> None]
  /\ at = [w \in Write |-> None]
  /\ step = [w \in Write |-> "idle"]
  /\ text = [w \in Write |-> channel]
  /\ queue = [p \in Process |-> <<>>]
  /\ holder = None
  /\ audit = [w \in Write |-> "none"]
  /\ applied = {}

\* The route looks at the file without the lock: a message that is not there,
\* or not the caller's to change, is refused.  Only the second is audited.
Refuse(w, r) ==
  /\ step[w] = "idle"
  /\ IsFor(r, w)
  /\ ~ Permitted(channel, r)
  /\ request' = [request EXCEPT ![w] = r]
  /\ audit' = [audit EXCEPT ![w] = IF r.id \in DOMAIN channel THEN "denied" ELSE "none"]
  /\ Goto(w, "refused")
  /\ UNCHANGED <<channel, history, at, text, queue, holder, applied>>

\* enqueue.
Submit(w, r, p) ==
  /\ step[w] = "idle"
  /\ IsFor(r, w)
  /\ Permitted(channel, r)
  /\ request' = [request EXCEPT ![w] = r]
  /\ at' = [at EXCEPT ![w] = p]
  /\ queue' = [queue EXCEPT ![p] = Append(@, w)]
  /\ Goto(w, "queued")
  /\ UNCHANGED <<channel, history, text, holder, audit, applied>>

\* Its turn has come in its process.
Turn(w) == step[w] = "queued" /\ Head(queue[at[w]]) = w

Leave(w) == queue' = [queue EXCEPT ![at[w]] = Tail(@)]

\* Mutant: the lock is taken whoever holds it.
TakeLockAnyway(w) ==
  /\ Turn(w)
  /\ holder' = w
  /\ Goto(w, "locked")
  /\ UNCHANGED <<channel, history, request, at, text, queue, audit, applied>>

\* lockfile.lock succeeds: there is no lock file, or it is stale.
TakeLock(w) ==
  /\ Turn(w)
  /\ holder \in {None} \cup Gone
  /\ holder' = w
  /\ Goto(w, "locked")
  /\ UNCHANGED <<channel, history, request, at, text, queue, audit, applied>>

\* ELOCKED after the last retry: `busy`.  A lock that nobody holds any more does it
\* as well, as long as it is not stale.
ShedWrite(w) ==
  /\ Turn(w)
  /\ holder # None
  /\ Goto(w, "busy")
  /\ Leave(w)
  /\ UNCHANGED <<channel, history, request, at, text, holder, audit, applied>>

\* lockfile.lock fails in another way.
FailToLock(w) ==
  /\ Turn(w)
  /\ Goto(w, "failed")
  /\ Leave(w)
  /\ UNCHANGED <<channel, history, request, at, text, holder, audit, applied>>

--------------------------------------------------------------------------------
ReadText(w) ==
  /\ step[w] = "locked"
  /\ text' = [text EXCEPT ![w] = channel]
  /\ Goto(w, "read")
  /\ UNCHANGED <<channel, history, request, at, queue, holder, audit, applied>>

Keep(w, revision, body) ==
  history' = [history EXCEPT ![request[w].id] =
                @ \cup {[revision |-> revision, prior |-> body, by |-> w]}]

\* Mutant: the revision kept is the one the message has, not the one it gets.
AppendRevisionUnbumped(w) ==
  /\ step[w] = "read"
  /\ request[w].kind = "edit"
  /\ LET old == text[w][request[w].id] IN Keep(w, old.revision, old.body)
  /\ Goto(w, "revised")
  /\ UNCHANGED <<channel, request, at, text, queue, holder, audit, applied>>

\* appendRevision, before the file is written.
AppendRevision(w) ==
  /\ step[w] = "read"
  /\ request[w].kind = "edit"
  /\ LET old == text[w][request[w].id] IN Keep(w, old.revision + 1, old.body)
  /\ Goto(w, "revised")
  /\ UNCHANGED <<channel, request, at, text, queue, holder, audit, applied>>

\* Mutant: an edit is written without its revision, or before it.
MayRewriteEarly(w) == step[w] \in {"read", "revised"}

\* An edit is written once its revision is kept, the others once they are read.
MayRewrite(w) ==
  \/ step[w] = "revised"
  \/ step[w] = "read" /\ request[w].kind # "edit"

\* writeAtomic: the new file is the one that was read, with one block changed.
Rewrite(w) ==
  /\ MayRewrite(w)
  /\ channel' = Rewritten(text[w], w, request[w])
  /\ applied' = applied \cup {w}
  /\ Goto(w, "written")
  /\ UNCHANGED <<history, request, at, text, queue, holder, audit>>

\* A read, an append or a write of the body of the lock fails.
Abort(w) ==
  /\ step[w] \in {"locked", "read", "revised"}
  /\ Goto(w, "aborted")
  /\ UNCHANGED <<channel, history, request, at, text, queue, holder, audit, applied>>

\* Mutant: the error of the body of the lock is swallowed.
ReleaseSwallowing(w) ==
  /\ step[w] \in {"written", "aborted"}
  /\ holder' = None
  /\ Goto(w, "released")
  /\ Leave(w)
  /\ UNCHANGED <<channel, history, request, at, text, audit, applied>>

\* Mutant: a write that failed does not start the next (`prev.then(fn)`).
ReleaseWedging(w) ==
  /\ step[w] \in {"written", "aborted"}
  /\ holder' = None
  /\ Goto(w, IF step[w] = "written" THEN "released" ELSE "failed")
  /\ IF step[w] = "written" THEN Leave(w) ELSE UNCHANGED queue
  /\ UNCHANGED <<channel, history, request, at, text, audit, applied>>

\* The lock is released in either case, and the next write starts.
Release(w) ==
  /\ step[w] \in {"written", "aborted"}
  /\ holder' = None
  /\ Goto(w, IF step[w] = "written" THEN "released" ELSE "failed")
  /\ Leave(w)
  /\ UNCHANGED <<channel, history, request, at, text, audit, applied>>

\* The lock file cannot be removed: 500, whatever the body of the lock did.
FailToUnlock(w) ==
  /\ step[w] \in {"written", "aborted"}
  /\ Goto(w, "failed")
  /\ Leave(w)
  /\ UNCHANGED <<channel, history, request, at, text, holder, audit, applied>>

\* The audit row, the event and the answer, in one go.
Record(w) ==
  /\ step[w] = "released"
  /\ audit' = [audit EXCEPT ![w] = "allowed"]
  /\ Goto(w, "ok")
  /\ UNCHANGED <<channel, history, request, at, text, queue, holder, applied>>

\* The INSERT of the audit row throws: 500, of a write that was made.
LoseRecord(w) ==
  /\ step[w] = "released"
  /\ Goto(w, "failed")
  /\ UNCHANGED <<channel, history, request, at, text, queue, holder, audit, applied>>

--------------------------------------------------------------------------------
\* The process dies, with all it was doing, and another takes its place.
Crash(p) ==
  /\ step' = [w \in Write |->
       IF at[w] = p /\ step[w] \in Pending THEN "dead" ELSE step[w]]
  /\ queue' = [queue EXCEPT ![p] = <<>>]
  /\ UNCHANGED <<channel, history, request, at, text, holder, audit, applied>>

Serve(w) ==
  \/ TakeLock(w) \/ ShedWrite(w) \/ FailToLock(w)
  \/ ReadText(w) \/ AppendRevision(w) \/ Rewrite(w) \/ Abort(w)
  \/ Release(w) \/ FailToUnlock(w)
  \/ Record(w) \/ LoseRecord(w)

Next ==
  \/ \E w \in Write, r \in Request : Refuse(w, r) \/ \E p \in Process : Submit(w, r, p)
  \/ \E w \in Write : Serve(w)
  \/ \E p \in Process : Crash(p)

Spec == Init /\ [][Next]_vars

\* The event loop runs what it has been promised, and every file operation ends.
FairSpec == Spec /\ \A w \in Write : WF_vars(Serve(w))

--------------------------------------------------------------------------------
(***************************************************************************)
(* Properties.                                                             *)
(***************************************************************************)

\* Types, and what is known of a write by its step: it has a request from the
\* first, and a process while it is pending.
TypeOK ==
  /\ IsFile(channel)
  /\ history \in [Msg -> SUBSET Revision]
  /\ request \in [Write -> Request \cup {None}]
  /\ at \in [Write -> Process \cup {None}]
  /\ step \in [Write -> {"idle"} \cup Pending \cup Settled]
  /\ DOMAIN text = Write /\ \A w \in Write : IsFile(text[w])
  /\ queue \in [Process -> Seq(Write)]
  /\ holder \in Write \cup {None}
  /\ audit \in [Write -> {"none", "allowed", "denied"}]
  /\ applied \in SUBSET Write
  /\ \A w \in Write : /\ step[w] = "idle" <=> request[w] = None
                      /\ step[w] # "idle" => IsFor(request[w], w)
                      /\ step[w] \in Pending => at[w] \in Process

\* What the client of a write has been told; a connection that is cut tells it
\* as much as a 500.
ClientAnswer ==
  [w \in Write |-> CASE step[w] = "dead" -> "failed"
                    [] step[w] \in {"idle"} \cup Pending -> "none"
                    [] OTHER -> step[w]]

Atomic == INSTANCE AtomicChannel WITH answer <- ClientAnswer

\* Every write takes effect at once or not at all, on the channel as it is: no
\* write undoes another's, nothing is half done, and what the client is told is
\* so (AtomicChannel).
WritesAreAtomic == Atomic!Spec

\* No body is ever lost: each that was posted, or put in by an edit, is on the
\* channel or in the history of its message, whatever failed or died on the way.
NothingForgotten ==
  \A w \in applied, m \in Msg :
    request[w].kind # "archive" /\ request[w].id = m =>
      \/ channel[m].body = w
      \/ \E e \in history[m] : e.prior = w

\* The history accounts for the revision number: an entry for each revision the
\* message has been through and at most one edit ahead of it.  An edit that died
\* may leave an entry behind, but entries of one revision agree on the body.
HistoryAccountsForRevisions ==
  \A m \in DOMAIN channel :
    /\ \A n \in 1 .. channel[m].revision : \E e \in history[m] : e.revision = n
    /\ \A e \in history[m] : /\ e.revision =< channel[m].revision + 1
                             /\ e.revision = channel[m].revision + 1 => e.prior = channel[m].body
    /\ \A e, f \in history[m] : e.revision = f.revision => e.prior = f.prior

\* "An audit row never claims an append, edit or archive that did not take
\* effect", and a denied row is of a write that never will.
AuditIsTrue ==
  \A w \in Write : /\ audit[w] = "allowed" => w \in applied
                   /\ audit[w] = "denied" => w \notin applied /\ step[w] = "refused"

\* Writes of one process never shed each other: `busy` is said only when another
\* process holds the lock, or a write that is over left it behind.
BusyOnlyAcrossProcesses ==
  [][\A w \in Write : step[w] # "busy" /\ step'[w] = "busy" =>
       holder \in Gone \/ at[holder] # at[w]]_vars

\* Whatever fails, a write that has been accepted is answered: none is left behind
\* in a queue that no longer moves, or before a lock that is never released.
EveryWriteIsAnswered ==
  \A w \in Write : step[w] \in Pending ~> step[w] \in Settled
================================================================================
