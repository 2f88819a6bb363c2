# A TLA+ model of collabcast

This directory holds TLA+ specifications of collabcast (the service, its MCP server, its
command line and its approval hook), the TLC configurations that check them on small
instances, and proofs for TLAPS. Paths are relative to the repository root, `src/` here
meaning the program in its `src/` directory. `PROJECT.json` is the index: components,
runs, mutants, the source lines behind every definition, findings, hazards and theorems.

    tlc -config MCInbox.cfg MCInbox.tla      # model-check one instance
    tlapm Inbox_proofs.tla                   # check the proofs of one module

## 1. The system

Agents and people on one project share a Markdown file, `channel.md`. A service per
namespace owns the file and a SQLite database (the authority store) and listens on a Unix
socket. Agents reach it through a MCP server process each, people through the command line.
Every request bears a capability token; a capability comes from an operator who approved a
dialog, or from another capability that is at least as wide.

    agent ── hook (dialog) ── reserved socket ─┐
      │                                        ├── service ── authority store (SQLite)
    MCP server ── HTTP on a socket ────────────┤      └────── channel.md, history files
    command line ── HTTP on a socket ──────────┘

| component | state | operations | hard about it |
|---|---|---|---|
| authority store: principals, capabilities (`store/capabilities.js`, `principals.js`, `revocation.js`) | rows, `revoked_at`, the wall clock | issue, renew, revoke a closure, revoke a principal, verify a bearer | long sequences of legal calls; two derivation edges; clocks set back |
| transactions (`store/db.js`, `runTx`, `runSavepoint`) | one connection, nested savepoints | begin, commit, unwind, savepoint, release | statements, COMMIT and ROLLBACK that fail, each leaving the transaction open or ended |
| opening a store (`store/db.js`, `migrate`, `reconcileMeta`) | the file's schema version, namespace, tables | migrate step by step, create, check | openings that die between two transactions; `IF NOT EXISTS` over an old table |
| cursors (`store/cursors.js`, `daemon/routes/{inbox,cursor}.js`) | a read and an ack mark per reader and view | ask for the inbox, move a mark | marks read before the file; two overlapping views; late and repeated calls |
| approvals, codes (`store/approvals.js`) | one-use rows with an expiry | record, issue a code, burn | burns shared with the redemption's transaction |
| enrollment authority (`authority/{enroll,policy,socket}.js`) | the socket, the policy | reserved request, anonymous exchange | two processes and a timer; restarts under another policy |
| approval hook (`omp-extension/*.js`) | one pending call | dialog, request, inject or block | a timeout racing the authority's answer |
| channel file (`core/channel.js`, `core/history.js`) | `channel.md`, history files, lock file, the write queue | append, edit, archive | read-modify-rename across awaits, failures at each await, crashes in the lock, several processes |
| grammar of the channel (`core/format.js`, the block scan of `core/channel.js`, the history file) | lines | render, parse, splice, keep and read revisions | bodies that look like grammar, blocks of v0.2, damage by hand |
| routes (`daemon/routes/*.js`) | none of their own | permission, then the write, audit, event, answer | a check before the lock, a record after it |
| runtime files (`authority/{secret,operator-credential}.js`) | `hook.secret`, `operator.cred` | create or adopt at boot, refuse | processes that boot at once, crashes between mint and publish, lockouts that must hold |
| capability gate, HTTP server, lifecycle (`daemon/*.js`, `authority/socket-claim.js`) | two sockets, a claim beside each, pid file | verify, start, stop, reclaim | names on disk that change hands between processes; late callbacks; stale leftovers |
| event feed (`daemon/events.js`, `routes/events.js`, `client/events.js`) | connections | post, drop | best effort, no replay |
| MCP credential holder (`mcp-server/capability.js`, `http-client.js`) | `state`, `tokenBox`, `identity` | boot, adopt, note a 401 | concurrent tool calls around awaits; refusal or outage |
| MCP resources (`mcp-server/resources.js`) | subscriptions, one stream | subscribe, unsubscribe, lose, reopen | stream opened and closed across awaits |
| permits, holds (`store/{permits,holds}.js`) | one-use permits, holds | grant, consume, hold | not called outside the store yet |
| identity, configuration, init (`identity/*.js`, `config/*.js`, `cli/{init,config}.js`) | the host map of all projects, `config.json` | register, resolve, load, set | inits side by side, refused or dying half-way, `--force`, edits by hand |
| the rest of the command line | none | one request, one print | |

What makes each correct is stated as a property in section 3; what can go wrong, line by
line, is `hazards` in `PROJECT.json`.

## 2. Modules

### CapabilityStore

`principals`, `retired`, `rows` and `revoked` are the tables `principal` and `capability`
(a row never changes after its INSERT but for `revoked_at`, so that is a set of its own);
`clock` is `now()`. One action per exported operation: `CreatePrincipal`,
`IssueCapability`, `RenewCapability`, `RevokeCapability`, `RevokePrincipal`, and
`ClockMoves`. Each is one step because better-sqlite3 is synchronous and the service is the
one writing process. `VerifyCapability` is the whole check of a bearer, the walk over its
ancestors included; the recursive SQL of the revocation is the least closed set
(`Closure`). Namespaces are left out: a store serves one.

### Inbox

Messages are ids: `tokens` on markers in the file, `broken` ones that do not parse,
`archived`, `memory` (type memory-update). `marks` is table `cursor`. `GET /inbox` is two
steps, `ReadCursors` and `ReadChannel`, as the code awaits the file in between; either may
be lost. `MoveMark` is both cursor routes, with `KindsToAdvance` the rule for the second
view. `Post` mints with `NewId`: the process's monotonic factory (`minted`), floored on the
highest id in the file; `Restart` forgets the factory, which stands for any clock step
across restarts. The `Hand` actions are what the comments of `core/channel.js` and
`core/ids.js` say people do to the file with an editor. `byHand` and `shown` are history
variables. `Limit` is the option of `collabcast inbox`.

### Enrollment

The hook's handler (`hook`, `asked`), the reserved request on its way (`wire`), the answer
(`reply`), tables `approval` and `enrollment_code` (one function, as they are one to one),
root principals, capabilities, the build's allowlist and the clock. A handler of the service
is one step; the hook's is one per await. `GiveUp` is the timer or a broken socket: it
leaves the request on the wire and the answer undelivered, as the code does. `Redeem` is the
whole transaction of the exchange: both burns, the second look at the policy, the live root
or a new one, the capability. `Restart` may change the allowlist: that is a new build.

### McpSession

A request is a slot, `sent -> answered -> heard`; any number are in flight. `state`, `box`
and `identity` are the holder's variables (an identity is named by the token it was asked
with). `Adopt` and `Confirm` are the halves of `adopt` around its await, `Retain` and
`DiscardRefused` the two outcomes of `noteResolveFailure`, `NoteUnauthenticated` the guard
that `http-client.js` puts around every call. `FailToVerify` is the gate of `daemon/auth.js`
answering for a store that threw. `minted` and `live` are what the service issued and would
accept. Tool calls and enrollments overlap in every way, as the server serves them as they
arrive. `stale` is a history variable: the state was last set by an answer about a token that was
not in the box by then (`SetBy`).

### McpSubscriptions, McpServer

`subscriptions`, `stream` and `opening` are the variables of `buildResources` (a stream and
the promise `opening` are named by the connection they belong to); `waiting` are the
subscribe requests that await `opening`, `conn` how far each connection has got. A step
is a turn of the event loop with the promise continuations it sets off. `Lose` is the whole
of `onStreamError`, which starts its reopen beside `opening`. `streamState` follows from
`stream` and is left out; `Active` is what `requireActive` answers. `TellClient` is what becomes of
a `notifications/message`: the server declares no logging capability (`mcp-server/index.js:61`), so
the SDK refuses to send it, and the rejected promise is nobody's. Under the runtime's default that
ends the process (`running`); told otherwise, it only leaves the client uninformed. Both happen in
the model. `McpServer` composes session and subscriptions in one process.

### ChannelFile, ChannelText, AtomicChannel

`ChannelText` is what one write makes of a file: a function from ids to blocks. `ChannelFile`
is the write path, one step between two awaits: the route's look at the file (`Refuse`,
`Submit`), the queue of the process (`Turn`, `Leave`), the lock (`TakeLock`, `ShedWrite`,
`FailToLock`), read, history, rename (`ReadText`, `AppendRevision`, `Rewrite`, `Abort`), release
(`Release`, `FailToUnlock`), then audit and answer in one step, there being no await between
them (`Record`, `LoseRecord`). `Crash` kills a process with its queue and leaves its lock.
`AtomicChannel` is the abstract specification: a write takes effect at one instant, on the
channel as it is then, or never; and what clients are told agrees. `ChannelFile` implements
it (`WritesAreAtomic`) under `answer <- ClientAnswer`, the other variables being the same.

### RuntimeFiles

`secretFile` and `credFile` are the two files of the runtime directory that outlive the
service: absent, unusable (a loose mode, garbage, a directory, a token that grants less) or a
value. `pc` is how far a boot has got; each step is one file operation or one transaction of
the store. `PublishSecret` and `PublishCred` are `link`, which fails on a name that exists;
`Mint` is the transaction of `mintCapability`, `RevokeLoser` what the loser of a race does.
`Arm` is the second reading of the secret when the authority starts. `Die` may come anywhere.
The operator's actions are the remedies that the refusals name (remove the file, chmod), a
backup put back, and revocation through a service that is up; they are external, and `meddled`
remembers whom they may have surprised.

### ServiceSockets

A process takes two addresses in turn, each with `Look`, `OwnerIsGone`, `ProbeIsRefused`,
`UnlinkSocket`, `Unclaim`, `Bind` and `Claim` (or one of the refusals), writes its pid file, and
gives all up in reverse (`RemovePid`, `CloseServer`, `UnlinkAgain`, `Release`). `sock` says whose socket
lies at a name, `listens` which listeners a process really has: what a process removes is what
lies at the name by then. That `server.close()` removes the name at once is what the JavaScript
runtime does; `UnlinkAgain` and `Release` are the callback that comes when the last connection has
ended. `cli` is `stopDaemon`, step by step. Starts, stops and the command overlap in every way, as
nothing in the code keeps them apart. `contested` is a history variable: the addresses a process has
bound in the way of another one, which had read that the owner before was dead and will still
unlink, or waits for the callback of a server it has closed there, or listened there before
its claim was written (`Rivals`, `OwnerIsGone`).

### StoreTx, AtomicUnits

A unit is a call of `store.tx`. The code is synchronous, so the units under way are a stack:
`top` is the one whose body runs, `caller` leads down. `Begin`, `Write`, `Commit`, `Rollback`,
`Savepoint`, `Release`, `RollbackTo` are one SQL statement each, `Leave` and `Raise` the return
to the caller, with success or with an error from which the body recovers or does not. What
SQLite may do to the connection is external and taken from what the comments and branches of
`runTx` provide for: a statement that fails may end the whole transaction (`Abandon`), a COMMIT
may fail and leave it open or ended, or return and leave it open (`FailToCommit`), a ROLLBACK
may not close it (`CloseHandle`). `saves` is SQLite's savepoint stack as snapshots.
`AtomicUnits` is the abstract specification: a unit takes effect at one instant with all that was
completed inside it (`Kept`), or never, and its caller is told which. `StoreTx` implements it
under `outer <- caller`, `ended <- told` and `landed` as the units all of whose rows are durable.
`Heedless` lets a body that recovers from a nested error go on although SQLite has ended the
transaction, which nothing in `runTx` would prevent.

### ChannelGrammar, RevisionHistory, ChannelFormat

`ChannelGrammar` has the pure part: a file is a sequence of lines, a line its kind and, of a
marker or fence, its fields. `FormatMessage` and `ParseMessage` with its parts
(`ExtractBody`, `LegacyBody`, `UnwrapArchived`) are those of `core/format.js`; `BlockStarts`,
`BlockAt` and `FindMessageBlock` the scan of `core/channel.js`. `RevisionHistory` is
`core/history.js` on the lines of a history file: what `appendRevision` appends
(`FormatRevision`), where a text goes that is appended to one cut short in the middle of a line
(`Appended`, `RunOn`, and `Tears` for what may be cut), and what `readHistory` finds: the fences of
the id (`RevOpens`), how far each revision may reach (`Limit`), the last close of its own there
(`ReadRevision`), or, in a file without a fence, the revisions of v0.3.0 (`ReadLegacy`).
`ChannelFormat` is what writes and hands make of the files: `AppendMessage`, `EditMessage`,
`ArchiveMessage`, an edit that fails or dies with its revision on file in whole or in part
(`LoseEdit`), and a hand that takes a line out of the channel, puts one in or spoils
a marker. A write is atomic here; how writes exclude each other is ChannelFile's concern. `book`
is what `parseChannel` makes of the file. Of the fields of `revs` only `file` is the program's:
`written` and `replaced` are history variables, the revisions that were given to `appendRevision`
and those of them whose edit then reached the channel.
`OldAssumption` is what any file of a service satisfies: ids are unique, and a fence is that of
a message of the file. `OldIsTidy`, every block of the first file is as some version of the service
writes it (`TidyBlock`), is a hypothesis of one theorem only.

### Identities, Registration, StoreUpgrade, ProjectSetup

`Identities` is the host map and the resolution of a directory: `Parses` is what
`parseIdentities` guarantees, `Resolves` the nearest registration at or above the repository
root. `Registration` is `init` and `config --set` as processes, a step per call on the file
system: `TakeLock`, `ReadMap` (with the claims of `registerNamespace`), `RenameDraft`,
`ReleaseLock`, `MakeDirectories`, then `config.json` opened (and empty) and written. `Crash`
may come anywhere. `Unlist`, `Enlist`, `Misspell` and `Wipe` are the operator's hand, as
`docs/setup.md` has it. A `config --set` takes no lock and waits for nobody. `told` is a history
variable: what an operator was told of a directory by an init, until something comes between
that no init can answer for (see `InitLeavesItWorking`). `StoreUpgrade` is `openStore` over the files of every build since
schema version 3: one step per transaction of `migrate`, one per statement of `schema.sql`,
then `reconcileMeta`. Openings of one store overlap, as a service opens its store before it claims a
socket; `overlapped` remembers the stores where they did. `ProjectSetup` composes them: a service resolves its directory, checks
the config and opens the store with what it found (`StartService`).

### MC modules and proof modules

`MC<Module>.tla` holds the symmetry of an instance; its `.cfg` files are the runs.
`<Module>_proofs.tla` holds theorems and proofs; those about StoreTx are in
`CapabilityStore_proofs`, those about ProjectSetup in `RuntimeFiles_proofs`, those about
McpSession and McpSubscriptions in `McpServer_proofs`, those about ChannelGrammar in
`ChannelFormat_proofs`. In the component modules a definition
headed "Mutant:" is a broken variant of the definition that follows, kept next to it: put
in its place it makes one property fail, which shows that the property depends on it.

## 3. Runs

| run | asks | instance |
|---|---|---|
| `capability_store` | does authority only narrow, does revocation reach everything, is the walk consistent with the writes | 2 principals, 3 capabilities, 2 scopes, 2 instants, symmetric |
| `inbox` | can an acknowledgement hide an unseen message; can a post land under a mark; is every message of the default view shown to a reader whose hook polls it | 1 reader, 2 views, 2 ids, 1 hand-edit, the ack marks, fairness |
| `inbox_capped` (violation) | the same as `inbox`, with `--limit 1` | 2 ids, no hand-edit |
| `enrollment` | approval, one use, atomic burns, one root, blocked is final | 2 calls, 2 capabilities, 2 scopes, 3 instants, symmetric |
| `mcp_server` | split state, tokens thrown away, resources registered on a dead feed | 3 tokens, 2 requests in flight, 2 resources, 3 connections, symmetric |
| `channel_file` | atomic writes, kept bodies, honest history and audit, no stuck queue | 2 writes, 1 old message, author and operator, 2 processes, fairness |
| `runtime_files` | one operator, no authority that nobody holds, boots refused only for cause, serving means usable | 3 processes, capabilities and secrets, 2 principals, 2 interventions, symmetric |
| `service_sockets` | is a service that is up ever robbed; can leftovers be reclaimed | 3 processes, 3 faults, any overlap, symmetric |
| `service_ready` (violation) | does `/health` imply that the authority can be reached | 2 processes, no fault |
| `store_tx` | does a unit land whole, is a transaction left open, do callers hear the truth | 4 units, 2 rows each, symmetric |
| `channel_format` | is a write seen as that write and nothing else, is damage left as it is and local, is what an edit replaces readable, is a kept body ever guessed | 2 ids, 2 bodies, one of lines that mean something outside a fence, an empty channel, a v0.2 block or a history of v0.3.0, 1 hand-edit or failed edit, 2 revisions |
| `project_setup` | does init leave a working project working, can two projects have one namespace, is an open store current, does the map only grow | 2 nested directories, 2 namespaces, 2 commands, 2 openers, 3 program runs, 1 hand-edit, stores of versions 3, 4, 5 and one that is newer, symmetric |

**Why these bounds are enough to be of interest.** Three capabilities make every shape of
derivation up to a grandchild, a renewal of a delegation and a delegation of a renewal; the
proofs cover longer chains. `MaxChainDepth` is 1 so that the walk's limit is met.
Two ids in `inbox` make an older and a newer message under two marks, with the highest id
reached, where posts are refused; three ids (a message between two others) are covered by the proofs of `NoSilentLoss`
and `PostsOnTop`, and the run stays small enough for liveness. One reader is enough as readers
share nothing but the file.
Lifetimes in `enrollment` straddle the policy's range, and codes expire within the clock's
range. Two writes of three kinds are enough for every pair to interleave at every await, each
also as the only survivor of a crash, on the same message or on different ones.
Two requests in flight are a call, or a second enrollment, inside the await of an enrollment; the
third token comes of an enrollment after two that overlapped; three connections are a feed that is
lost, its reopen and a subscribe beside it.
Three boots make a winner, a loser and a late comer that finds what they left. Three processes
on the sockets make a service that dies, one that dies while it reclaims what the first left, and
one that reclaims both, or two that reclaim side by side; three faults let each of them fail.
`service_ready` needs a service that stops and one that starts.
Four units make a chain of four, a unit with siblings, and a unit after one that failed; two
rows each let a unit be cut in half. Two ids make a block with a neighbour above or below; one
of the bodies holds a rule, both ends of an archive wrapper and blank lines, whatever could be taken
for the end of a block; two revisions are one that fails and one that is appended to what it left,
with the same number. In `project_setup` three runs are two inits and a third program that meets
what they left, be it an init, a change of the config or a service; nested directories are the
case where the nearest registration decides.

The invariant of types is proved rather than run (`TypeCorrect` of each proof module, and
`SetupTypeCorrect`), where there is a proof module: the runs are left with what may be wrong.

**Deadlock** is checked but in `store_tx`, `channel_format`, `project_setup`, `runtime_files`,
`mcp_server` and `service_sockets`: there every bounded behaviour ends, when all units are over, the ids, runs, tokens and edits are
used up or the processes gone, and a program at rest is what one expects.

**Fairness.** `inbox`: strong fairness of both halves of `GET /inbox` for the default view, and
weak fairness of the end of a request: the prompt hook (`hooks/scripts/check-inbox.sh:139`) asks at
each prompt, for the default view only; a restart or a lost answer may interrupt any one request but not
all of them for ever, and each is answered or given up by its timer (`client/api.js`). Nothing asks
for memory-updates of its own accord, and nothing is assumed of that view. `channel_file`: each
write's next step is taken, which says that the event loop runs and file operations end; it is
not said that locks are granted, or that any operation succeeds.

**What the violations show.** `inbox_capped`: `--limit` prints the newest messages and the hint
below them acknowledges all of them (`src/cli/inbox.js:23`), against `test/cli/inbox.test.js:162`.
`service_ready`: a service started while the one before it waits for its last enrollment connection
loses its authority socket to the old one's callback (`authority/socket.js:509`), and answers
`/health` all the same, which `daemon/daemon-entry.js:103` calls unrepresentable.

**What a changed configuration shows.** These are instances of the same modules in which a property
fails, each by what the code does in a situation that the run leaves out:

| change | fails | what happens |
|---|---|---|
| `NoOrphanedStream` as an invariant in `MCMcpServer.cfg` | it | a subscribe during the reopen after a lost feed opens a second stream that nobody can close (`mcp-server/resources.js:120`) |
| `Heedless = TRUE` in `MCStoreTx.cfg` | `UnitsAreAtomic` | a body that recovers after SQLite ended the transaction writes outside of any (`store/db.js:152`); no caller recovers from a nested failure today |
| `HistoryStillReads` as a property in `MCChannelFormat.cfg` | it | one revision with a fence, and the revisions that v0.3.0 kept without are read no more (`core/history.js:177`); an append after one that was cut off just before its last newlines makes the entry of that failed edit unterminated |
| `PruneNewest = TRUE` in `MCInbox.cfg` | `PostsLandOnTop`, `NothingLost` | an id is minted that marks already cover (`core/channel.js:308`, see Inbox in section 4) |

**Where a property stops.** Some properties except what the code does in a situation that the runs
do reach; a history variable marks exactly that situation:

- `ServiceIsKept`, `LeftoversAreReclaimable`: an address bound in the way of another process
  (`contested`). Two starts that both read a dead claim rob each other, as does a stopping service the
  one started after it (`service_ready`).
- `OpenMeansCurrent`: a store whose openings overlapped, until all who have it are gone
  (`overlapped`). `migrate` reads the version before its first transaction (`store/db.js:370`), so the
  second of two that upgrade drops the table `cursor` under the first, which already serves.
- `InitLeavesItWorking`: a directory where a `config --set` had found the namespace of a directory
  above and overlaps an init (`cli/config.js:72` writes it over the config of the init), where a
  command died writing the config, or where a hand was (`told`); and a directory within a repository
  that is not its root: init claims success there, and resolution asks for the root.
- `OneHomePerNamespace`: a namespace whose own entry a hand took out of the map (`hand.out`).
- `SessionCoherent`: after an answer about a token that was not held any more set the state, until
  it is set again (`stale`).
- `TokenKeptUntilRefused` counts the late 401 about a token held before as a refusal: it throws away
  the token that replaced it (`mcp-server/capability.js:266`), which the server never refused, where
  `:206` says that such a token is "never allowed to" go "unless the server actually refused it".

**Met while modelling, without a run.** `mcp-server/resources.js:105` says "What must never happen
again is silence", and `docs/architecture.md:207` and `docs/api.md:226` tell of notifications to the client; all of them
go through `tellClient`, which the SDK refuses (see McpSubscriptions). Nothing calls `revalidate()`
(`mcp-server/capability.js:230`), so a session that could not confirm a live token stays
`unverified` until it enrolls again. A database read that throws is answered `unauthenticated`
(`daemon/auth.js:122`, `FailToVerify` in McpSession), which the holder takes as final. The walk over
the ancestors in `verifyCapability` refuses no bearer that its own row does not (`WalkNeverNeeded`, for
rows that the store's operations wrote), where `store/capabilities.js:217` and `store/principals.js:160`
speak of it as needed. `collabcast stop`
signals the pid it finds, not the process that answered it, and removes the pid file of a live service
when `/health` is answered late (`daemon/lifecycle.js:324`).

## 4. Proofs

Every theorem is for all values of the constants, under the assumptions named in the
modules (bounds are naturals, `None` is none of the values, and so on).

- **CapabilityStore** (6): all checked properties, and that a revoked principal holds nothing.
  The inductive invariant adds to types that each row is within its parent, step by step (`StepNarrows`). `NarrowsAlongAncestry` takes that to all
  ancestors without induction over chains: the set of capabilities that bound a row is closed
  upwards, so it contains the least such set. `LineageLive` is the same argument with revocation.
  `RefusalIsFinal` needs that a step never adds to the ancestry of a row that exists
  (`AncestryFixed`).
- **Inbox** (5): `DefaultLeads` and `MarksAdvance` always; `PostsOnTop` if the newest block
  is not pruned, from `BelowNewest` (marks, held cutoffs and what was shown lie below the
  newest id of the file); `NoSilentLoss` if also the whole inbox is printed. Its invariant
  says that a held cutoff is not ahead of the mark, and that whatever was shown in a view
  came with everything deliverable between the cutoff and it (`ShownIsCut`): so a mark moved
  to a shown message passes only over shown ones. `inbox_capped` drops the second assumption.
  The first is needed too: the floor of new ids is what the file holds, so when its newest
  block is taken out by hand and the service restarts with its clock behind, an id is minted
  that marks already cover, and the comment at `core/channel.js:308` claims too much; set
  `PruneNewest = TRUE` in `MCInbox.cfg` to see it.
- **Enrollment** (7): all checked properties, and that nothing beyond the policy is issued. The invariant ties the stages together: what is
  on the wire or answered belongs to an approved call (`Progress`), an approval holds what was
  asked (`Recorded`), and a capability is attested by a spent approval, one each (`Attested`).
- **McpServer** (4), session and subscriptions however they overlap: types, `SessionCoherent`
  (`NoSplitBrain`), `TokenKeptUntilRefused` and `SubscribedMeansLive`. A bearer that adopt sends is a
  token (`CarriesToken`), and state, box and identity agree whenever nothing is being resolved and
  the state was set last by an answer about the token held (`Agrees`). The handle is always that of
  an open stream (`HandleIsOpen`), though not of the only one; what a step of the subscriptions needs
  of the session it looks up anew.
- **ChannelFile** (6): all safety properties, that it implements `AtomicChannel`, and that a
  write is shed only because of another process or a lock left behind (`NoSelfContention`). The
  invariant: a write in the lock holds the lock and heads its queue (`LockExcludes`, `Queued`),
  so what it read is still the channel (`ReadStands`); a permission seen before the lock still
  holds in it, as authors never change (`PermissionHolds`); an edit about to be written has its
  revision in the history (`RevisionKept`).

- **RuntimeFiles** (6): all checked properties, and that no service removes or replaces a file (`NeverABypass`). The invariant says where every token is (`Tokens`: in
  the file once, or in the memory of one boot), and what a boot may rely on at each stage
  (`SecretStage`, `CredStage`): no service removes or replaces a file, so what it has seen there is
  there until the operator intervenes.
- **ServiceSockets** (4), for any overlap of starts, stops and the command: types, both checked
  properties, and that `/health` tells the truth of a service that has not bound the authority's
  address in the way of another process (`HealthTellsTheTruth`), which is the part of
  `ReadyMeansEnrollable` that holds. Of an address that a process has bound in nobody's way: while it
  listens there its socket lies there and nobody has decided to unlink it (`Kept`); as long as the
  socket lies there, whether its owner lives or not, nobody else listens there nor will remove its
  claim (`Backed`).
- **StoreTx** (3, in `CapabilityStore_proofs`), assuming `~ Heedless`: all checked properties, for
  any depth of nesting. The invariant: the units under way are a stack (`Stacked`, `CallersBelow`),
  SQLite's savepoints are theirs (`Connected`), and at each stage of a unit the file, the
  transaction and every savepoint hold all its rows or none (`Accounted`). That alone does not
  give the refinement: a COMMIT has to make durable exactly what the unit *kept*, the least set
  closed under completed inner units. One inclusion is `AllLed` (whatever a snapshot
  holds that is not durable belongs to every closed set around the units it was taken in), the
  other `Follows` (a unit that was completed is in every snapshot with the unit around it).
  Both quantify over sets, which stands in for induction over the depth.
- **ProjectSetup** (5, in `RuntimeFiles_proofs`): all checked properties. `MapInv`: who is at the map
  holds its lock (`Locked`), and a draft extends the map as it
  is (`Drafted`). `StoresInv`: an object that is there is no older than the version that the opener has
  read or the file says (`Upgraded`, `Knows`), however openings overlap, and an opening that none
  overlaps finds what it made still there (`Stage`). `Homes`: a store's namespace is that of the map's
  entry for its directory, also of those whose opening is under way. `ProjectsInv`: whoever is past its
  claim has the directory registered for the namespace it will write (`Rightful`), so it does not
  matter in which order the commands in one directory write; a project said to be ready names one
  that its directory is registered for (`Ready`).
- **ChannelFormat** (8), for files of any length: all checked properties, that parsing what
  was rendered gives the message back (`RoundTrip`), and that rendering once more what was just
  written changes nothing (`RewritesStable`, as `core/channel.js:259` and `:377` claim). The scans are choices of a least line, not
  recursions, so no induction is needed: lemmas say what a scan finds in `Cat(s, t)` from what it
  finds in `s` and `t`, first for lines, then for a block between others (`MadeOf`), then for a
  file that a write splices (`SpliceIs`, `AppendIs`) or a hand changes in one line (`OneChanged`).
  `FormatInv` has no two markers of one id in the file, so a write finds the block it means and
  leaves every other as it is: `WritesAreExact` and `DamageIsKept` follow, whatever hands did.
  `EditsAreKept` and `NoBodyIsGuessed` are of the lines of the history file, whatever was there first:
  a body cannot hold a fence, so each fence is one that an append wrote (`HistoryInv`); an append adds
  its fences behind all others and, whole or torn, closes none of theirs (`HistoryGrows`), though it
  may run the last line of one cut short together with its own first. `HandStaysLocal` needs `OldIsTidy`: until the
  first edit by hand all blocks are tidy (`TidyInv`), and what an edit leaves of a tidy block is
  read as its own message, or as no message and part of the one above (`ScrapIsLocal`, `TidyAbove`).

**Only model-checked:** liveness (`EveryMessageShown`, `EveryWriteIsAnswered`), which is beyond the
prover, and the two violations. No module declares a RECURSIVE operator.

## 5. What the models leave out

- The stale time of the lock: a holder that lives is taken to refresh it in time. A process
  whose event loop is blocked longer than `stale` (`core/channel.js:193`) can lose the lock
  and overwrite another's write.
- The wording of markers, headings and metadata lines, the percent-encoding of marker values, and
  mentions: ChannelFormat knows a line by its kind.
- What a hand can do to a channel beyond one edit. An open fence that is lost makes the block
  one of v0.2, which is cut at its first rule when it is edited; a block whose marker is lost becomes
  part of the body region of the one above, and goes when that is edited. `HandStaysLocal` is for the first edit.
- WAL, the busy timeout and file modes of the database; within `Registration` and `StoreUpgrade` a
  transaction is one step, as StoreTx shows it may be.
- A repeated init drops `paseoProjectKey` from the entry of the map (`cli/init.js:220`): the model's entries have no such key.
- The check for an existing `.collabcast/` comes before the wait for the lock (`cli/init.js`), so
  two inits of one directory without `--force` can both pass it, and the second replaces the templates,
  `channel.md` among them. Templates and the channel are not part of Registration.
- `config.json` is written in place: a crash leaves it torn, and only `init --force` mends it. In the
  model it is `Torn` until then.
- A hand at the host map while an init is at it: people take no lock, and a rename loses their edit.
- After `Unlist` and an init under another namespace the store that is still there belongs to
  the old one, and the service refuses to start.
- A store whose very first opening, by an older build, died before its version was written is not
  among the initial states.
- The checks that the state is kept out of git, the operator's name, the derivation of a namespace from
  git, the `COLLABCAST_NAMESPACE` hint, and the validation of configuration keys other than the namespace.
- Hand-edits during a write of the service: people take no lock, and a rename loses their edit.
- Namespaces, peer checks and the framing of the sockets.
- The expiry of the operator credential, and the secret given by the environment, when there is no
  file. What an unusable file holds: it only has to be refused.
- In ServiceSockets: TCP listeners; pids that come back are only the refusal of `OwnerIsNotProvenGone`.
- In RevisionHistory: a fence that is rendered otherwise than `appendRevision` does, and hand-edits of a
  history file.
- Permits and holds, which nothing outside the store calls; delegation roles, aliases, and the
  event feed with its file watcher: see the plan.

## 6. Plan

Done, in order of importance: the authority store (who may act), delivery, enrollment (how
authority is obtained), the credential holder (how it is held), the write path, subscriptions,
the files and sockets a service lives on, the transactions under every write of the store, the
lines of the channel, and the way from `init` to a service that serves.

Next, in order:

1. **Delegation** (`daemon/routes/{enroll,principals,capability}.js`) on CapabilityStore: roles
   and scopes at `/delegate`, one transaction for principal and capability, aliases.
2. **GatedChannel**: the gate of `daemon/auth.js` before the queue of ChannelFile, composing
   revocation with writes in flight and with open feeds.
3. **Event feed** (`daemon/{events,watcher}.js`, `routes/events.js`): `isInternalWrite` takes every
   change within 200 ms of a write for the service's own, an edit by hand among them.
4. **Permits and holds**, once something calls them.

Theorem to add: narrowing by delegation as a refinement of `IssueCapability`.
