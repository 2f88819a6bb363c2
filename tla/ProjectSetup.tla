------------------------------ MODULE ProjectSetup ------------------------------
(***************************************************************************)
(* The three places that name a namespace, from init to a service that     *)
(* serves: the host map and config.json (Registration), and the store      *)
(* (StoreUpgrade).  A service finds its project by the map, checks the     *)
(* config against it and opens the store with what it found                *)
(* (src/daemon/daemon-entry.js, startService).                             *)
(***************************************************************************)
EXTENDS Registration, StoreUpgrade

upgradeVars == <<store, opening, overlapped>>
setupVars   == <<registrationVars, upgradeVars>>

\* One project was set up, and its store is as the build of version v left it.
LeftBy(d, n, v, c) ==
  /\ c => v = 3
  /\ identities = [m \in {n} |-> [canonicalRoot |-> d, registrations |-> {d}]]
  /\ scaffold = {d}
  /\ config = [e \in Dir |-> IF e = d THEN n ELSE NoConfig]
  /\ store = [e \in Dir |-> IF e = d THEN LeftAt(v, n, c) ELSE Fresh]

NeverSetUp ==
  /\ identities = NoMap
  /\ scaffold = {}
  /\ config = [d \in Dir |-> NoConfig]
  /\ store = [d \in Dir |-> Fresh]

SetupInit ==
  /\ lock = Nobody
  /\ job = [p \in Command |-> NoJob]
  /\ told = [d \in Dir |-> "none"]
  /\ runs = 0 /\ hand = [edits |-> 0, out |-> {}]
  /\ opening = [s \in Opener |-> Closed] /\ overlapped = {}
  /\ \/ NeverSetUp
     \/ \E d \in Dir, n \in Ns, v \in {3, 4, 5, Newer}, c \in BOOLEAN : LeftBy(d, n, v, c)

\* loadConfig: the config of root is read, and names the namespace it has to.
LoadsConfig(root, n) == config[root] = n

\* resolveNamespace, loadConfig and the first look at the store are one synchronous run.
StartService(s, cwd, n) ==
  /\ runs < MaxRuns /\ runs' = runs + 1
  /\ Resolves(identities, cwd, n)
  /\ LoadsConfig(identities[n].canonicalRoot, n)
  /\ OpenStore(s, identities[n].canonicalRoot, n)
  /\ UNCHANGED <<identities, lock, project, job, told, hand>>

\* The store is in .collabcast/ and goes with it, after `collabcast stop`.
WipeProject(d) ==
  /\ \A s \in Opener : opening[s].dir # d
  /\ Wipe(d)
  /\ store' = [store EXCEPT ![d] = Fresh]
  /\ UNCHANGED <<opening, overlapped>>

Only(A) == A /\ UNCHANGED upgradeVars
Opens(A) == A /\ UNCHANGED registrationVars

SetupNext ==
  \/ \E p \in Command, d \in Dir, n \in Ns, force \in BOOLEAN : Only(BeginInit(p, d, n, force))
  \/ \E p \in Command, d \in Dir, n \in Ns : Only(BeginSet(p, d, n))
  \/ \E p \in Command : \/ Only(TakeLock(p)) \/ Only(GiveUpLock(p))
                     \/ Only(ReadMap(p)) \/ Only(RefuseClaim(p))
                     \/ Only(RenameDraft(p)) \/ Only(ReleaseLock(p))
                     \/ Only(MakeDirectories(p)) \/ Only(OpenNewConfig(p)) \/ Only(FinishInit(p))
                     \/ Only(OpenOldConfig(p)) \/ Only(FinishSet(p)) \/ Only(Crash(p))
  \/ \E n \in Ns : Only(Unlist(n)) \/ \E d \in Dir : Only(Enlist(n, d))
  \/ Only(Misspell)
  \/ \E d \in Dir : WipeProject(d) \/ Opens(RenameAlias(d))
  \/ \E s \in Opener, d \in Dir, n \in Ns : StartService(s, d, n)
  \/ \E s \in Opener : \/ Opens(MigrateStep(s)) \/ Opens(RefuseClash(s)) \/ Opens(EndMigrate(s))
                       \/ Opens(CreateObject(s)) \/ Opens(EndSchema(s))
                       \/ Opens(ReconcileMeta(s)) \/ Opens(RefuseMeta(s)) \/ Opens(CloseStore(s))

SetupSpec == SetupInit /\ [][SetupNext]_setupVars

--------------------------------------------------------------------------------
SetupTypeOK ==
  /\ identities \in Map \cup {NoMap, Garbage}
  /\ lock \in Command \cup {Nobody, Dead}
  /\ scaffold \subseteq Dir
  /\ config \in [Dir -> Ns \cup {NoConfig, Torn}]
  /\ job \in [Command -> [step : Steps, dir : Dir \cup {None}, ns : Ns \cup {None}, draft : Map]]
  /\ told \in [Dir -> {"none", "ready", "touched"}]
  /\ store \in [Dir -> File]
  /\ opening \in [Opener -> [at : {"closed", "migrate", "schema", "meta", "open"},
                             dir : Dir \cup {None}, ns : Ns \cup {None}, version : Nat, made : 0 .. 4]]
  /\ overlapped \subseteq Dir
  /\ runs \in Nat /\ hand \in [edits : Nat, out : SUBSET Ns]

\* "Unlocked read -> parse -> mutate -> write silently dropped one registration, and a
\* crash mid-write left JSON that parseIdentities rejects for EVERY project" (init.js,
\* withIdentitiesLock): no command takes an entry or a directory of an entry from the
\* map, or replaces a map that it could not read, or writes one that others cannot.
MapOnlyGrows ==
  [][identities' # identities /\ hand' = hand =>
       /\ Readable(identities) /\ Parses(identities')
       /\ \A n \in DOMAIN Entries(identities) :
            /\ n \in DOMAIN identities'
            /\ identities'[n].canonicalRoot = identities[n].canonicalRoot
            /\ identities[n].registrations \subseteq identities'[n].registrations]_setupVars

\* "a refused init had already overwritten the namespace of a working project" (init.js,
\* initCommand): a directory that is the root of a repository, or in none, and whose
\* operator was told that it is initialised, resolves to the namespace that its config
\* names, whatever other inits do, refused ones in the same directory among them.  Not
\* once a hand was at it, a command died while writing its config, or a `config --set`
\* that found the namespace of a directory above it overlapped the init; not while a
\* config is being written over, when it is torn; and an init further down in a
\* repository says the same, but nothing resolves there (namespace.js looks from the root).
InitLeavesItWorking ==
  \A d \in Dir :
    /\ told[d] = "ready" /\ Home[d] = d /\ Parses(identities)
    /\ \A p \in Command : job[p].dir = d => job[p].step \notin {"init", "set"}
    => Resolves(identities, d, config[d])

\* A namespace is a channel, its principals and their tokens: no two projects have a
\* store of the same one, unless the operator took its own entry out of the map, as
\* docs/setup.md says to when a project goes; registering a directory by hand, a spoilt
\* map and a wiped project do not split it.
OneHomePerNamespace ==
  \A d, e \in Dir : d # e /\ store[d].ns = store[e].ns /\ store[d].ns # None => store[d].ns \in hand.out

\* Where CREATE IF NOT EXISTS cannot reshape what is there (db.js, migrate4to5), a store
\* that is open has every object in the shape of this build, whatever build made the
\* file and wherever earlier openings died, and belongs to who opened it.
OpenMeansCurrent ==
  \A s \in Opener : InStep(s, "open") /\ opening[s].dir \notin overlapped =>
    /\ TheStore(s).version = SCHEMA_VERSION
    /\ \A o \in Objects : TheStore(s).shape[o] = "current"
    /\ TheStore(s).ns = opening[s].ns
================================================================================
