------------------------------ MODULE StoreUpgrade ------------------------------
(***************************************************************************)
(* openStore of src/store/db.js over the store files of the projects: the  *)
(* migrations of files of older builds, the schema, and the metadata a     *)
(* file is refused by.  A migration is one transaction; SQLite and runTx   *)
(* are taken at their word here (StoreTx).                                 *)
(***************************************************************************)
EXTENDS Identities, Sequences

CONSTANTS
  Opener,   \* processes that open a store
  Newer     \* a schema_version no migration starts from

ASSUME NewerAssumption == Newer \in Nat /\ Newer > 6

VARIABLES
  store,      \* the file of each project: its schema_version, namespace and objects
  opening,    \* per process, how far it is with which store: the version it has read,
              \* and the statements of the schema it has run
  overlapped  \* ghost: stores that were opened while another opening was under way, by
              \* somebody who may have them yet

SCHEMA_VERSION == 6

\* What the migrations reshape; each is as an older build made it, absent, or current.
Objects == {"principal_alias", "enrollment_code", "cursor", "lease"}
Schema  == <<"principal_alias", "enrollment_code", "cursor", "lease">>

\* No schema_version row: nothing was made yet, or not all of it.
NoVersion == 0

\* Mutant: one of the two tables is forgotten.
DroppedButLease(v) == CASE v = 3 -> {"principal_alias", "enrollment_code"}
                        [] OTHER -> {"cursor"}

\* What a step to the next version drops, to be made anew by the schema.
Dropped(v) == CASE v = 3 -> {"principal_alias", "enrollment_code"}
                [] v = 4 -> {"cursor", "lease"}
                [] v = 5 -> {"cursor"}

\* The version whose builds first made an object as it is now.
Since(o) == CASE o = "cursor" -> 6 [] o = "lease" -> 5 [] OTHER -> 4

File == [version : Nat, ns : Ns \cup {None}, shape : [Objects -> {"old", "absent", "current"}],
         clash : BOOLEAN]  \* two live aliases that differ by case only

Fresh == [version |-> NoVersion, ns |-> None, shape |-> [o \in Objects |-> "absent"],
          clash |-> FALSE]

\* A file as the build of version v left it.
LeftAt(v, n, c) ==
  [version |-> v, ns |-> n, clash |-> c,
   shape |-> [o \in Objects |-> IF v < Since(o) THEN "old" ELSE "current"]]

Closed == [at |-> "closed", dir |-> None, ns |-> None, version |-> NoVersion, made |-> 0]

--------------------------------------------------------------------------------
InStep(s, at)   == opening[s].at = at
GoesTo(s, at)   == opening' = [opening EXCEPT ![s].at = at]
TheStore(s)     == store[opening[s].dir]
Changes(s, f)   == store' = [store EXCEPT ![opening[s].dir] = f]

Users(d) == {t \in Opener : opening[t].dir = d}

\* A process that has been told what owns its directory begins to open the store there.
\* Nothing keeps two of them apart: a service opens its store before it claims a socket.
OpenStore(s, d, n) ==
  /\ InStep(s, "closed")
  /\ opening' = [opening EXCEPT ![s] = [at |-> "migrate", dir |-> d, ns |-> n,
                                        version |-> store[d].version, made |-> 0]]
  /\ overlapped' = IF \/ \E t \in Users(d) : ~ InStep(t, "open")
                      \/ d \in overlapped /\ Users(d) # {}
                   THEN overlapped \cup {d} ELSE overlapped \ {d}
  /\ UNCHANGED store

HasStep(v) == v \in {3, 4, 5}

\* migrate: the drops and the new version in one transaction.  The version is the one
\* that was read before the first.
MigrateStep(s) ==
  LET v == opening[s].version IN
  /\ InStep(s, "migrate") /\ HasStep(v)
  /\ ~ (v = 3 /\ TheStore(s).clash)
  /\ Changes(s, [TheStore(s) EXCEPT
       !.version = v + 1,
       !.shape = [o \in Objects |-> IF o \in Dropped(v) THEN "absent" ELSE @[o]]])
  /\ opening' = [opening EXCEPT ![s].version = v + 1]
  /\ UNCHANGED overlapped

\* migrate3to4 takes no alias away: the operator has to.
RefuseClash(s) ==
  /\ InStep(s, "migrate") /\ opening[s].version = 3 /\ TheStore(s).clash
  /\ opening' = [opening EXCEPT ![s] = Closed]
  /\ UNCHANGED <<store, overlapped>>

EndMigrate(s) ==
  /\ InStep(s, "migrate") /\ ~ HasStep(opening[s].version)
  /\ GoesTo(s, "schema")
  /\ UNCHANGED <<store, overlapped>>

\* schema.sql: CREATE ... IF NOT EXISTS, statement by statement, once.
CreateObject(s) ==
  LET i == opening[s].made + 1 IN
  /\ InStep(s, "schema") /\ i \in DOMAIN Schema
  /\ Changes(s, [TheStore(s) EXCEPT !.shape[Schema[i]] = IF @ = "absent" THEN "current" ELSE @])
  /\ opening' = [opening EXCEPT ![s].made = i]
  /\ UNCHANGED overlapped

EndSchema(s) ==
  /\ InStep(s, "schema") /\ opening[s].made = Len(Schema)
  /\ GoesTo(s, "meta")
  /\ UNCHANGED <<store, overlapped>>

\* reconcileMeta: what is written there must be what this build and this project are.
Acceptable(f, n) == f.version \in {NoVersion, SCHEMA_VERSION} /\ f.ns \in {None, n}

ReconcileMeta(s) ==
  /\ InStep(s, "meta") /\ Acceptable(TheStore(s), opening[s].ns)
  /\ Changes(s, [TheStore(s) EXCEPT !.version = SCHEMA_VERSION, !.ns = opening[s].ns])
  /\ GoesTo(s, "open")
  /\ UNCHANGED overlapped

RefuseMeta(s) ==
  /\ InStep(s, "meta") /\ ~ Acceptable(TheStore(s), opening[s].ns)
  /\ opening' = [opening EXCEPT ![s] = Closed]
  /\ UNCHANGED <<store, overlapped>>

\* The process ends: at a stop, at a failure of a later step of its boot, or anywhere.
CloseStore(s) ==
  /\ ~ InStep(s, "closed")
  /\ opening' = [opening EXCEPT ![s] = Closed]
  /\ UNCHANGED <<store, overlapped>>

\* "rename or revoke one principal of each pair, then reopen" (migrate3to4).
RenameAlias(d) ==
  /\ store[d].clash /\ store' = [store EXCEPT ![d].clash = FALSE]
  /\ UNCHANGED <<opening, overlapped>>
================================================================================
