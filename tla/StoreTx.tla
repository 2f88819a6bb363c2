-------------------------------- MODULE StoreTx --------------------------------
(***************************************************************************)
(* The transaction discipline of the authority store, runTx and            *)
(* runSavepoint of src/store/db.js, over one connection to SQLite.         *)
(*                                                                         *)
(* The code is synchronous, so units form a call stack: `top` is the unit  *)
(* whose body runs and `caller` leads down from it.  A step is one SQL     *)
(* statement or one return to a caller.  SQLite is modelled by what its    *)
(* statements do to the connection: a statement that fails is undone, and  *)
(* may take the whole transaction with it; a COMMIT may fail and leave the *)
(* transaction open or ended, or return and leave it open.                 *)
(***************************************************************************)
EXTENDS Naturals

CONSTANTS
  Unit,      \* calls of store.tx; each is a unit of work, called once
  NoUnit,    \* no unit: the caller of an outermost one
  MaxRows,   \* rows a unit may write, a bound
  Heedless   \* may a body that recovers from the error of a nested unit go on
             \* although SQLite has ended the whole transaction

ASSUME UnitAssumption     == NoUnit \notin Unit
ASSUME MaxRowsAssumption  == MaxRows \in Nat
ASSUME HeedlessAssumption == Heedless \in BOOLEAN

VARIABLES
  disk,      \* rows that are durable
  work,      \* rows the connection sees
  inTx,      \* db.inTransaction
  open,      \* db.open
  saves,     \* SQLite's savepoints: from their names, which grow, to the rows at the time
  seq,       \* savepointSeq
  top,       \* the innermost unit under way
  caller,    \* per unit, the unit in whose body it was called
  at,        \* "idle", "body", "raised" (an exception is leaving it), "committed", "over"
  save,      \* the name of its savepoint; 0 for a unit that began the transaction
  wrote,     \* the rows its statements wrote
  told       \* what its caller was told: "none", "ok", "error"

connection == <<disk, work, inTx, open, saves>>
frames     == <<seq, top, caller, at, save>>
txVars     == <<connection, frames, wrote, told>>

AllRows == Unit \X (1 .. MaxRows)
Rows(u) == {u} \X (1 .. MaxRows)
Active  == {u \in Unit : at[u] \in {"body", "raised", "committed"}}

TxInit ==
  /\ disk = {} /\ work = {} /\ inTx = FALSE /\ open = TRUE
  /\ saves = [n \in {} |-> {}] /\ seq = 0
  /\ top = NoUnit
  /\ caller = [u \in Unit |-> NoUnit]
  /\ at = [u \in Unit |-> "idle"]
  /\ save = [u \in Unit |-> 0]
  /\ wrote = [u \in Unit |-> {}]
  /\ told = [u \in Unit |-> "none"]

--------------------------------------------------------------------------------
(* SQLite. *)

\* The transaction ends with nothing kept.
RolledBack == /\ inTx' = FALSE
              /\ work' = disk
              /\ saves' = [n \in {} |-> {}]

Below(n) == [m \in {k \in DOMAIN saves : k < n} |-> saves[m]]

--------------------------------------------------------------------------------
(* Calling a unit, and its return to the body that called it. *)

\* Outermost, or from the body of the innermost unit under way.
MayCall(u) == at[u] = "idle" /\ (top # NoUnit => at[top] = "body")

Push(u, n) ==
  /\ top' = u
  /\ caller' = [caller EXCEPT ![u] = top]
  /\ at' = [at EXCEPT ![u] = "body"]
  /\ save' = [save EXCEPT ![u] = n]

\* The unit is over; its caller c hears of it, and stays in its body or not.
Return(u, c, result, a) ==
  /\ told' = [told EXCEPT ![u] = result]
  /\ at' = [v \in Unit |-> IF v = u THEN "over" ELSE IF v = c THEN a ELSE at[v]]
  /\ top' = c

\* An exception leaves u, and the body that called it recovers or does not.
Raise(u, c) ==
  \E a \in {"raised"} \cup IF Heedless \/ inTx' THEN {"body"} ELSE {} :
    Return(u, c, "error", a)

\* runTx: BEGIN IMMEDIATE.
Begin(u) ==
  /\ MayCall(u) /\ open /\ ~ inTx
  /\ inTx' = TRUE
  /\ Push(u, 0)
  /\ UNCHANGED <<disk, work, open, saves, seq, wrote, told>>

\* Mutant: a nested unit joins the transaction without a boundary of its own.
JoinBare(u) ==
  /\ MayCall(u) /\ open /\ inTx
  /\ seq' = seq + 1
  /\ Push(u, seq + 1)
  /\ UNCHANGED <<connection, wrote, told>>

\* runSavepoint: SAVEPOINT, under a name of its own.
Savepoint(u) ==
  /\ MayCall(u) /\ open /\ inTx
  /\ seq' = seq + 1
  /\ saves' = [m \in DOMAIN saves \cup {seq + 1} |-> IF m = seq + 1 THEN work ELSE saves[m]]
  /\ Push(u, seq + 1)
  /\ UNCHANGED <<disk, work, inTx, open, wrote, told>>

\* The write lock is not to be had in time, or the handle is closed.
FailToBegin(u) ==
  /\ MayCall(u)
  /\ UNCHANGED <<connection, seq, caller, save, wrote>>
  /\ Raise(u, top)

--------------------------------------------------------------------------------
(* The body. *)

InBody(u) == top = u /\ at[u] = "body"

RaisedIn(u) == at' = [at EXCEPT ![u] = "raised"]

\* Outside a transaction a statement is durable by itself.
Write(u, r) ==
  /\ InBody(u) /\ open /\ r \in Rows(u) \ wrote[u]
  /\ work' = work \cup {r}
  /\ disk' = IF inTx THEN disk ELSE disk \cup {r}
  /\ wrote' = [wrote EXCEPT ![u] = @ \cup {r}]
  /\ UNCHANGED <<inTx, open, saves, frames, told>>

\* The body throws, of its own accord or with a statement that failed; so does RELEASE,
\* of a savepoint that is gone.
Throw(u) ==
  /\ InBody(u)
  /\ RaisedIn(u)
  /\ UNCHANGED <<connection, seq, top, caller, save, wrote, told>>

\* A statement fails and SQLite ends the transaction (SQLITE_FULL, IOERR).
Abandon(u) ==
  /\ InBody(u) /\ inTx
  /\ RolledBack
  /\ RaisedIn(u)
  /\ UNCHANGED <<disk, open, seq, top, caller, save, wrote, told>>

--------------------------------------------------------------------------------
(* The end of a unit that began the transaction. *)

\* The body is done; a unit that writes nothing is of no interest.
AtEnd(u) == InBody(u) /\ wrote[u] # {}

Commit(u) ==
  /\ AtEnd(u) /\ save[u] = 0 /\ inTx
  /\ disk' = work /\ inTx' = FALSE /\ saves' = [n \in {} |-> {}]
  /\ at' = [at EXCEPT ![u] = "committed"]
  /\ UNCHANGED <<work, open, seq, top, caller, save, wrote, told>>

\* Mutant: COMMIT stands outside the try, and nothing is unwound when it fails.
CommitUnguarded(u) ==
  /\ AtEnd(u) /\ save[u] = 0
  /\ UNCHANGED <<connection, seq, caller, save, wrote>>
  /\ Raise(u, caller[u])

\* COMMIT throws and leaves the transaction open (SQLITE_BUSY) or ended (SQLITE_FULL,
\* IOERR), or returns and has not closed it, which runTx looks for.
FailToCommit(u) ==
  /\ AtEnd(u) /\ save[u] = 0
  /\ RolledBack \/ UNCHANGED <<inTx, work, saves>>
  /\ RaisedIn(u)
  /\ UNCHANGED <<disk, open, seq, top, caller, save, wrote, told>>

Leave(u) ==
  /\ top = u /\ at[u] = "committed"
  /\ Return(u, caller[u], "ok", "body")
  /\ UNCHANGED <<connection, seq, caller, save, wrote>>

\* unwind: ROLLBACK, if there is anything to roll back.
Rollback(u) ==
  /\ top = u /\ at[u] = "raised" /\ save[u] = 0
  /\ IF inTx THEN RolledBack ELSE UNCHANGED <<work, inTx, saves>>
  /\ UNCHANGED <<disk, open, seq, caller, save, wrote>>
  /\ Raise(u, caller[u])

\* unwind: ROLLBACK leaves the transaction open, and the handle is closed.
CloseHandle(u) ==
  /\ top = u /\ at[u] = "raised" /\ save[u] = 0 /\ inTx
  /\ RolledBack
  /\ open' = FALSE
  /\ UNCHANGED <<disk, seq, caller, save, wrote>>
  /\ Raise(u, caller[u])

--------------------------------------------------------------------------------
(* The end of a nested unit. *)

Release(u) ==
  /\ AtEnd(u) /\ save[u] \in DOMAIN saves
  /\ saves' = Below(save[u])
  /\ UNCHANGED <<disk, work, inTx, open, seq, caller, save, wrote>>
  /\ Return(u, caller[u], "ok", "body")

\* Mutant: what the failed unit did stays with the transaction around it.
ReleaseOnly(u) ==
  /\ top = u /\ at[u] = "raised" /\ save[u] # 0
  /\ saves' = Below(save[u])
  /\ UNCHANGED <<disk, work, inTx, open, seq, caller, save, wrote>>
  /\ Raise(u, caller[u])

\* unwindSavepoint: ROLLBACK TO and RELEASE; both do nothing to a savepoint that is gone.
RollbackTo(u) ==
  /\ top = u /\ at[u] = "raised" /\ save[u] # 0
  /\ IF save[u] \in DOMAIN saves
     THEN work' = saves[save[u]] /\ saves' = Below(save[u])
     ELSE UNCHANGED <<work, saves>>
  /\ UNCHANGED <<disk, inTx, open, seq, caller, save, wrote>>
  /\ Raise(u, caller[u])

\* The process dies anywhere, and the next one opens the file and counts from 0.
Crash ==
  /\ RolledBack /\ open' = TRUE /\ seq' = 0
  /\ top' = NoUnit
  /\ at' = [u \in Unit |-> IF u \in Active THEN "over" ELSE at[u]]
  /\ UNCHANGED <<disk, caller, save, wrote, told>>

TxNext ==
  \/ \E u \in Unit : \/ Begin(u) \/ Savepoint(u) \/ FailToBegin(u)
                      \/ Throw(u) \/ Abandon(u)
                      \/ Commit(u) \/ FailToCommit(u) \/ Leave(u)
                      \/ Rollback(u) \/ CloseHandle(u)
                      \/ Release(u) \/ RollbackTo(u)
  \/ \E u \in Unit, r \in AllRows : Write(u, r)
  \/ Crash

TxSpec == TxInit /\ [][TxNext]_txVars

--------------------------------------------------------------------------------
TxTypeOK ==
  /\ disk \subseteq AllRows /\ work \subseteq AllRows
  /\ inTx \in BOOLEAN /\ open \in BOOLEAN
  /\ seq \in Nat
  /\ DOMAIN saves \subseteq 1 .. seq /\ saves \in [DOMAIN saves -> SUBSET AllRows]
  /\ top \in Unit \cup {NoUnit}
  /\ caller \in [Unit -> Unit \cup {NoUnit}]
  /\ at \in [Unit -> {"idle", "body", "raised", "committed", "over"}]
  /\ save \in [Unit -> Nat]
  /\ wrote \in [Unit -> SUBSET AllRows]
  /\ told \in [Unit -> {"none", "ok", "error"}]

\* "Either lands whole or not at all" (db.js, runSavepoint): of a unit that is over,
\* nested or not, all that it wrote is durable or nothing is, and nothing of one
\* that failed, whatever the units around it did with the failure.
UnitsLandWhole ==
  \A u \in Unit \ Active :
    /\ disk \cap Rows(u) \in {{}, wrote[u]}
    /\ told[u] = "error" => disk \cap Rows(u) = {}

\* "A transaction is never left open on this connection" (db.js, runTx): when no unit
\* is under way there is none for a later unit to join, and a unit that is not
\* within another has begun its own.
NeverLeftOpen ==
  /\ top = NoUnit => ~ inTx
  /\ \A u \in Active : caller[u] = NoUnit => save[u] = 0

\* What callers are told agrees with what is durable, at every moment: units take
\* effect at one instant, with all that was completed within them, or not at all.
Abstract == INSTANCE AtomicUnits WITH
  outer  <- caller, ended <- told,
  landed <- {u \in Unit : wrote[u] # {} /\ wrote[u] \subseteq disk}

UnitsAreAtomic == Abstract!Spec
================================================================================
