------------------------------ MODULE Registration ------------------------------
(***************************************************************************)
(* `collabcast init` (src/cli/init.js) and `collabcast config --set`       *)
(* (src/cli/config.js), run by processes side by side over one host map    *)
(* and the files of the projects, among crashes and an operator who edits  *)
(* both by hand, as docs/setup.md tells one to.  A step is one call on the *)
(* file system; the map is renamed into place, the config is written over. *)
(***************************************************************************)
EXTENDS Identities

CONSTANTS
  Command,      \* processes that run a command, one after another
  Nobody,       \* the lock is free
  Dead,         \* the lock is left by a process that died
  NoConfig,     \* a project without config.json
  Torn,         \* a config.json cut short
  MaxRuns,      \* bound on programs that are run
  MaxHand       \* bound on edits by hand

ASSUME LockAssumption   == Nobody \notin Command /\ Dead \notin Command /\ Nobody # Dead
ASSUME ConfigAssumption == NoConfig \notin Ns /\ Torn \notin Ns /\ NoConfig # Torn
ASSUME RunsAssumption  == MaxRuns \in Nat /\ MaxHand \in Nat

VARIABLES
  identities,  \* the host identity map
  lock,        \* who holds its lock
  scaffold,    \* projects that have a .collabcast/
  config,      \* what config.json names
  job,         \* per process: its next step, in which directory, for which namespace, and
               \* the map it is going to rename into place
  told,        \* per project: "none", "ready" by an init that was successful, or "touched"
               \* since no command ran in it: by hand, by a process that died in it, or by
               \* a `config --set` that found the namespace of a directory above it
  runs,
  hand         \* edits by hand, and the namespaces they took out of the map

project == <<scaffold, config>>
registrationVars == <<identities, lock, project, job, told, runs, hand>>

Steps == {"idle", "lock", "read", "rename", "release",
          "scaffold", "config", "init", "change", "set"}

NoJob == [step |-> "idle", dir |-> None, ns |-> None, draft |-> EmptyMap]

At(p, s)     == job[p].step = s
Goes(p, s)   == job' = [job EXCEPT ![p].step = s]
Ends(p)      == job' = [job EXCEPT ![p] = NoJob]
Begins(p, s, d, n) ==
  /\ At(p, "idle") /\ runs < MaxRuns
  /\ runs' = runs + 1
  /\ job' = [job EXCEPT ![p] = [NoJob EXCEPT !.step = s, !.dir = d, !.ns = n]]

--------------------------------------------------------------------------------
(* initCommand. *)

\* A command is at work in d.
Busy(d) == \E p \in Command : ~ At(p, "idle") /\ job[p].dir = d

\* Mutant: the config is written before the namespace is claimed.
BeginInitEagerly(p, d, n, force) ==
  /\ d \in scaffold => force
  /\ Begins(p, "lock", d, n)
  /\ scaffold' = scaffold \cup {d} /\ config' = [config EXCEPT ![d] = n]
  /\ UNCHANGED <<identities, lock, told, hand>>

\* Refused at once over an existing .collabcast/, but for --force.
BeginInit(p, d, n, force) ==
  /\ d \in scaffold => force
  /\ Begins(p, "lock", d, n)
  /\ told' = [told EXCEPT ![d] = IF @ = "touched" /\ ~ Busy(d) THEN "none" ELSE @]
  /\ UNCHANGED <<identities, lock, project, hand>>

\* Mutant: the map is read and written without the lock.
TakeLockAnyway(p) ==
  /\ At(p, "lock")
  /\ lock' = p
  /\ Goes(p, "read")
  /\ UNCHANGED <<identities, project, told, runs, hand>>

\* withIdentitiesLock: the lock is free, or stale.
TakeLock(p) ==
  /\ At(p, "lock") /\ lock \in {Nobody, Dead}
  /\ lock' = p
  /\ Goes(p, "read")
  /\ UNCHANGED <<identities, project, told, runs, hand>>

\* Every retry found it held.
GiveUpLock(p) ==
  /\ At(p, "lock") /\ lock # Nobody
  /\ Ends(p)
  /\ UNCHANGED <<identities, lock, project, told, runs, hand>>

Readable(m) == m = NoMap \/ Parses(m)
Entries(m)  == IF m = NoMap THEN EmptyMap ELSE m

\* Mutant: a namespace is moved to the directory of the last init.
ClaimableAgain(m, n, d) == \A o \in DOMAIN m \ {n} : d \notin m[o].registrations

\* registerNamespace: neither is the directory another namespace's, nor the namespace
\* another directory's.
Claimable(m, n, d) ==
  /\ \A o \in DOMAIN m \ {n} : d \notin m[o].registrations
  /\ n \in DOMAIN m => m[n].canonicalRoot = d

Registered(m, n, d) ==
  [o \in DOMAIN m \cup {n} |->
     IF o # n THEN m[o]
     ELSE [canonicalRoot |-> d,
           registrations |-> {d} \cup IF n \in DOMAIN m THEN m[n].registrations ELSE {}]]

\* The new map is written to a file of its own, which nobody else reads.
ReadMap(p) ==
  /\ At(p, "read") /\ Readable(identities)
  /\ Claimable(Entries(identities), job[p].ns, job[p].dir)
  /\ job' = [job EXCEPT ![p].step = "rename",
       ![p].draft = Registered(Entries(identities), job[p].ns, job[p].dir)]
  /\ UNCHANGED <<identities, lock, project, runs, told, hand>>

\* The lock is released in any case.
RefuseClaim(p) ==
  /\ At(p, "read")
  /\ Readable(identities) => ~ Claimable(Entries(identities), job[p].ns, job[p].dir)
  /\ lock' = Nobody
  /\ Ends(p)
  /\ UNCHANGED <<identities, project, told, runs, hand>>

RenameDraft(p) ==
  /\ At(p, "rename")
  /\ identities' = job[p].draft
  /\ job' = [job EXCEPT ![p].step = "release", ![p].draft = EmptyMap]
  /\ UNCHANGED <<lock, project, told, runs, hand>>

ReleaseLock(p) ==
  /\ At(p, "release")
  /\ lock' = Nobody
  /\ Goes(p, "scaffold")
  /\ UNCHANGED <<identities, project, told, runs, hand>>

MakeDirectories(p) ==
  /\ At(p, "scaffold")
  /\ scaffold' = scaffold \cup {job[p].dir}
  /\ Goes(p, "config")
  /\ UNCHANGED <<identities, lock, config, told, runs, hand>>

\* config.json is opened, and emptied; or the directory is gone and writeFile throws.
OpenConfig(p, here, there) ==
  /\ At(p, here)
  /\ IF job[p].dir \in scaffold
     THEN config' = [config EXCEPT ![job[p].dir] = Torn] /\ Goes(p, there)
     ELSE Ends(p) /\ UNCHANGED config
  /\ UNCHANGED <<identities, lock, scaffold, told, runs, hand>>

WriteConfig(p) ==
  config' = [config EXCEPT ![job[p].dir] = IF job[p].dir \in scaffold THEN job[p].ns ELSE @]

OpenNewConfig(p) == OpenConfig(p, "config", "init")

\* The config is written, .gitignore has its rule, and the operator is told that the
\* channel is initialised.
FinishInit(p) ==
  /\ At(p, "init")
  /\ WriteConfig(p)
  /\ told' = [told EXCEPT ![job[p].dir] = IF @ = "touched" THEN @ ELSE "ready"]
  /\ Ends(p)
  /\ UNCHANGED <<identities, lock, scaffold, runs, hand>>

--------------------------------------------------------------------------------
(* configCommand: what it writes names the namespace that the directory resolves to. *)

\* A text that parses, and is valid with the namespace it will name: that of the
\* directory, or, when the directory is not registered itself, of one above it.
BeginSet(p, d, n) ==
  /\ config[d] \in Ns /\ Resolves(identities, d, n)
  /\ Begins(p, "change", d, n)
  /\ told' = [told EXCEPT ![d] = IF d \in identities[n].registrations THEN @ ELSE "touched"]
  /\ UNCHANGED <<identities, lock, project, hand>>

OpenOldConfig(p) == OpenConfig(p, "change", "set")

FinishSet(p) ==
  /\ At(p, "set")
  /\ WriteConfig(p)
  /\ Ends(p)
  /\ UNCHANGED <<identities, lock, scaffold, told, runs, hand>>

--------------------------------------------------------------------------------
(* A command dies anywhere; one that dies writing the config leaves it cut short. *)
Crash(p) ==
  /\ ~ At(p, "idle")
  /\ Ends(p)
  /\ lock' = IF lock = p THEN Dead ELSE lock
  /\ told' = IF job[p].step \in {"init", "set"} THEN [told EXCEPT ![job[p].dir] = "touched"] ELSE told
  /\ UNCHANGED <<identities, project, runs, hand>>

(* The operator edits by hand, while no init is at the map. *)
ByHand(out) ==
  /\ hand.edits < MaxHand
  /\ hand' = [edits |-> hand.edits + 1, out |-> hand.out \cup out]
  /\ lock \notin Command
  /\ UNCHANGED <<lock, job, runs>>

\* "remove its entry from ~/.collabcast/identities.json" (docs/setup.md).
Unlist(n) ==
  /\ ByHand({n})
  /\ identities \in Map /\ n \in DOMAIN identities
  /\ identities' = [o \in DOMAIN identities \ {n} |-> identities[o]]
  /\ told' = [d \in Dir |-> IF d \in identities[n].registrations THEN "touched" ELSE told[d]]
  /\ UNCHANGED project

\* Another checkout is registered; it may be one that has a namespace already.
Enlist(n, d) ==
  /\ ByHand({})
  /\ identities \in Map /\ n \in DOMAIN identities
  /\ identities' = [identities EXCEPT ![n].registrations = @ \cup {d}]
  /\ UNCHANGED <<project, told>>

Misspell ==
  /\ ByHand({})
  /\ identities' = Garbage
  /\ UNCHANGED <<project, told>>

\* "rm -rf path/to/project/.collabcast/" (docs/setup.md).
Wipe(d) ==
  /\ ByHand({})
  /\ scaffold' = scaffold \ {d}
  /\ config' = [config EXCEPT ![d] = NoConfig]
  /\ told' = [told EXCEPT ![d] = "touched"]
  /\ UNCHANGED identities
================================================================================
