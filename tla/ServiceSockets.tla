----------------------------- MODULE ServiceSockets -----------------------------
(***************************************************************************)
(* The two socket addresses of a namespace and its pid file, between the   *)
(* processes that serve it, or want to, and the stop command.              *)
(*                                                                         *)
(* A process takes the authority's address and then the transport's, and   *)
(* gives them up in the reverse order.  Beside a socket lies a claim that  *)
(* names the pid of its owner; only a claim that names a dead process lets *)
(* another one remove the socket.  The pid file is for the stop command,   *)
(* which first asks /health who answers.  Paths are names: what a process  *)
(* removes is whatever lies there by then.  A step is a system call, or    *)
(* several that follow each other without an await and touch the same name.*)
(* Nothing keeps starts and stops apart: a service may be started while     *)
(* another one boots, serves or closes.                                    *)
(***************************************************************************)
EXTENDS Naturals

CONSTANTS
  Proc,      \* service processes, and their pids
  None,
  MaxFaults  \* bound on crashes and on steps of a boot that throw

ASSUME ValueAssumption == None \notin Proc
ASSUME BoundAssumption == MaxFaults \in Nat

Address == {"authority", "transport"}

VARIABLES
  phase,    \* how far a process is with the address it is at
  at,
  listens,  \* the addresses a process has a listening server for
  sock,     \* whose socket lies at an address
  claim,    \* whom the claim beside it names
  owned,    \* addresses that a process has claimed, ever
  pidFile,  \* whom collabcast.pid names
  cli,      \* what the stop command does next
  target,   \* the pid it has read
  contested, \* history: the addresses a process has bound in the way of another one
  faults

paths   == <<sock, claim>>
command == <<cli, target>>
vars    == <<phase, at, listens, paths, owned, pidFile, command, contested, faults>>

Booting  == {"look", "owner", "probe", "unlink", "unclaim", "bind", "claim", "pid"}
Stopping == {"unpid", "close", "finish", "release"}
Alive(p) == phase[p] \in Booting \cup Stopping \cup {"ready"}

\* A connection to the address reaches p.
Answers(a, p) == sock[a] = p /\ a \in listens[p]

\* GET /health: ok, from p.
Healthy(p) == Answers("transport", p) /\ "authority" \in listens[p]

Fault == faults < MaxFaults /\ faults' = faults + 1

Step(p, from, to) == phase[p] = from /\ phase' = [phase EXCEPT ![p] = to]

\* A start that is refused unwinds: what was built is closed again.
Refuse(p, from) ==
  /\ phase[p] = from
  /\ IF at[p] = "authority"
       THEN phase' = [phase EXCEPT ![p] = "gone"] /\ UNCHANGED at
       ELSE /\ phase' = [phase EXCEPT ![p] = "close"]
            /\ at' = [at EXCEPT ![p] = "authority"]

Init ==
  /\ phase = [p \in Proc |-> "off"]
  /\ at = [p \in Proc |-> "authority"]
  /\ listens = [p \in Proc |-> {}]
  /\ sock = [a \in Address |-> None]
  /\ claim = [a \in Address |-> None]
  /\ owned = [p \in Proc |-> {}]
  /\ pidFile = None
  /\ cli = "idle" /\ target = None
  /\ contested = [p \in Proc |-> {}]
  /\ faults = 0

--------------------------------------------------------------------------------
(* Taking an address. *)

\* What q will remove at an address is what lies there by then: it has read that the
\* owner is dead, or has closed its server and waits for the callback.
WillRemove(q, a) ==
  /\ at[q] = a
  /\ phase[q] \in {"probe", "unlink", "unclaim", "finish", "release"}

\* Whoever else is at an address: it listens there, reached or not, or will remove.
Rivals(p, a) == {q \in Proc \ {p} : a \in listens[q] \/ WillRemove(q, a)}

\* A supervisor just starts the service; startDaemon, at the command line, only when
\* nobody answers.  Nothing keeps two processes apart.
Start(p) ==
  /\ Step(p, "off", "look")
  /\ UNCHANGED <<at, listens, paths, owned, pidFile, command, contested, faults>>

\* lstat.
Look(p) ==
  /\ Step(p, "look", IF sock[at[p]] = None THEN "bind" ELSE "owner")
  /\ UNCHANGED <<at, listens, paths, owned, pidFile, command, contested, faults>>

\* Mutant: any claim, or none, will do, since the probe decides.
OwnerIsNotAsked(p) ==
  /\ Step(p, "owner", "probe")
  /\ UNCHANGED <<at, listens, paths, owned, pidFile, command, contested, faults>>

\* The claim names a process that is gone: only then is the socket probed.
OwnerIsGone(p) ==
  /\ claim[at[p]] # None /\ ~ Alive(claim[at[p]])
  /\ Step(p, "owner", "probe")
  /\ contested' = [q \in Proc |-> contested[q] \cup
                     (IF q # p /\ at[p] \in listens[q] THEN {at[p]} ELSE {})]
  /\ UNCHANGED <<at, listens, paths, owned, pidFile, command, faults>>

\* No claim, a live owner, or a dead one whose pid is in use again.
OwnerIsNotProvenGone(p) ==
  /\ Refuse(p, "owner")
  /\ UNCHANGED <<listens, paths, owned, pidFile, command, contested, faults>>

\* A hard refusal, which a listener with a full accept queue gives too.
ProbeIsRefused(p) ==
  /\ Step(p, "probe", "unlink")
  /\ UNCHANGED <<at, listens, paths, owned, pidFile, command, contested, faults>>

\* A connection, or no answer in time.
ProbeIsNotRefused(p) ==
  /\ sock[at[p]] # None
  /\ Refuse(p, "probe")
  /\ UNCHANGED <<listens, paths, owned, pidFile, command, contested, faults>>

\* Mutant: the claim goes first.
UnlinkClaimFirst(p) ==
  /\ sock[at[p]] # None
  /\ Step(p, "unlink", "unclaim")
  /\ claim' = [claim EXCEPT ![at[p]] = None]
  /\ UNCHANGED <<at, listens, sock, owned, pidFile, command, contested, faults>>

\* unlinkSync of the socket, which throws if it has gone.
UnlinkSocket(p) ==
  /\ sock[at[p]] # None
  /\ Step(p, "unlink", "unclaim")
  /\ sock' = [sock EXCEPT ![at[p]] = None]
  /\ UNCHANGED <<at, listens, claim, owned, pidFile, command, contested, faults>>

\* Somebody else has unlinked it, or the system will not.
UnlinkFails(p) ==
  /\ (sock[at[p]] = None /\ UNCHANGED faults) \/ Fault
  /\ Refuse(p, "unlink")
  /\ UNCHANGED <<listens, paths, owned, pidFile, command, contested>>

Unclaim(p) ==
  /\ Step(p, "unclaim", "bind")
  /\ claim' = [claim EXCEPT ![at[p]] = None]
  /\ UNCHANGED <<at, listens, sock, owned, pidFile, command, contested, faults>>

Bind(p) ==
  /\ sock[at[p]] = None
  /\ Step(p, "bind", "claim")
  /\ sock' = [sock EXCEPT ![at[p]] = p]
  /\ listens' = [listens EXCEPT ![p] = @ \cup {at[p]}]
  /\ contested' = [contested EXCEPT ![p] =
                     @ \cup IF Rivals(p, at[p]) = {} THEN {} ELSE {at[p]}]
  /\ UNCHANGED <<at, claim, owned, pidFile, command, faults>>

\* EADDRINUSE, or another errno.
BindFails(p) ==
  /\ (sock[at[p]] # None /\ UNCHANGED faults) \/ Fault
  /\ Refuse(p, "bind")
  /\ UNCHANGED <<listens, paths, owned, pidFile, command, contested>>

\* After the bind, "never before"; then the next address, or the pid file.
Claim(p) ==
  /\ IF at[p] = "authority"
       THEN Step(p, "claim", "look") /\ at' = [at EXCEPT ![p] = "transport"]
       ELSE Step(p, "claim", "pid") /\ UNCHANGED at
  /\ claim' = [claim EXCEPT ![at[p]] = p]
  /\ owned' = [owned EXCEPT ![p] = @ \cup {at[p]}]
  /\ UNCHANGED <<listens, sock, pidFile, command, contested, faults>>

\* The claim cannot be written: the socket stays, and its server until the exit.
ClaimFails(p) ==
  /\ Fault
  /\ Refuse(p, "claim")
  /\ listens' = [listens EXCEPT ![p] = IF at[p] = "authority" THEN {} ELSE @]
  /\ UNCHANGED <<paths, owned, pidFile, command, contested>>

\* The last step of a boot that others see; then it installs the signal handlers.
WritePid(p) ==
  /\ Step(p, "pid", "ready")
  /\ pidFile' = p
  /\ UNCHANGED <<at, listens, paths, owned, command, contested, faults>>

\* The pid file cannot be written, or something throws after it was: all is unwound.
LateBootFails(p) ==
  /\ Fault
  /\ \/ Step(p, "pid", "close") /\ UNCHANGED pidFile
     \/ Step(p, "pid", "unpid") /\ pidFile' = p
  /\ UNCHANGED <<at, listens, paths, owned, command, contested>>

--------------------------------------------------------------------------------
(* Giving it up. *)

\* SIGTERM, or SIGINT.  A service that is up unwinds; one that boots has no handler
\* yet, and in one that unwinds already the second stop() returns at once, to exit.
Signalled(p) ==
  LET next == IF phase[p] = "ready" THEN "unpid" ELSE IF Alive(p) THEN "gone" ELSE phase[p]
  IN  /\ phase' = [phase EXCEPT ![p] = next]
      /\ listens' = [listens EXCEPT ![p] = IF next = "unpid" THEN @ ELSE {}]

\* From a supervisor, or the keyboard.
Stop(p) ==
  /\ phase[p] = "ready"
  /\ Signalled(p)
  /\ UNCHANGED <<at, paths, owned, pidFile, command, contested, faults>>

RemovePid(p) ==
  /\ Step(p, "unpid", "close")
  /\ pidFile' = None
  /\ UNCHANGED <<at, listens, paths, owned, command, contested, faults>>

\* server.close() ends listening at once, and the runtime removes the name it bound;
\* the callback waits for the connections that are open.
CloseServer(p) ==
  /\ Step(p, "close", "finish")
  /\ listens' = [listens EXCEPT ![p] = @ \ {at[p]}]
  /\ sock' = [sock EXCEPT ![at[p]] = None]
  /\ UNCHANGED <<at, claim, owned, pidFile, command, contested, faults>>

\* The callback, whenever it comes: the name is unlinked (again), whose ever it is, ...
UnlinkAgain(p) ==
  /\ Step(p, "finish", "release")
  /\ sock' = [sock EXCEPT ![at[p]] = None]
  /\ UNCHANGED <<at, listens, claim, owned, pidFile, command, contested, faults>>

\* ... and the claim beside it removed; then the next address, or the exit.
Release(p) ==
  /\ IF at[p] = "transport"
       THEN Step(p, "release", "close") /\ at' = [at EXCEPT ![p] = "authority"]
       ELSE Step(p, "release", "gone") /\ UNCHANGED at
  /\ claim' = [claim EXCEPT ![at[p]] = None]
  /\ listens' = [listens EXCEPT ![p] = IF at[p] = "authority" THEN {} ELSE @]
  /\ UNCHANGED <<sock, owned, pidFile, command, contested, faults>>

\* SIGKILL, or SIGTERM before the handlers are installed: names and claims stay.
Crash(p) ==
  /\ Alive(p)
  /\ Fault
  /\ phase' = [phase EXCEPT ![p] = "gone"]
  /\ listens' = [listens EXCEPT ![p] = {}]
  /\ UNCHANGED <<at, paths, owned, pidFile, command, contested>>

--------------------------------------------------------------------------------
(* stopDaemon. *)

\* GET /health.  When nobody answers, or not in time, there is a stale pid file to
\* clear, if any.
AskHealth ==
  /\ cli = "idle"
  /\ \/ (\E q \in Proc : Healthy(q)) /\ cli' = "read"
     \/ cli' = "tidy"
  /\ UNCHANGED <<phase, at, listens, paths, owned, pidFile, target, contested, faults>>

\* Without a pid file the command refuses.
ReadPid ==
  /\ cli = "read" /\ cli' = IF pidFile = None THEN "idle" ELSE "signal"
  /\ target' = pidFile
  /\ UNCHANGED <<phase, at, listens, paths, owned, pidFile, contested, faults>>

\* SIGTERM to the pid; ESRCH will do too.
Signal ==
  /\ cli = "signal" /\ cli' = "wait"
  /\ Signalled(target)
  /\ UNCHANGED <<at, paths, owned, pidFile, target, contested, faults>>

\* Until the transport answers no more.
Wait ==
  /\ cli = "wait" /\ cli' = "tidy"
  /\ \A q \in Proc : ~ Answers("transport", q)
  /\ UNCHANGED <<phase, at, listens, paths, owned, pidFile, target, contested, faults>>

\* Not in time.
GiveUpWaiting ==
  /\ cli = "wait" /\ cli' = "idle"
  /\ UNCHANGED <<phase, at, listens, paths, owned, pidFile, target, contested, faults>>

Tidy ==
  /\ cli = "tidy" /\ cli' = "idle"
  /\ pidFile' = None
  /\ UNCHANGED <<phase, at, listens, paths, owned, target, contested, faults>>

--------------------------------------------------------------------------------
Take(p) ==
  \/ Look(p) \/ OwnerIsGone(p) \/ OwnerIsNotProvenGone(p)
  \/ ProbeIsRefused(p) \/ ProbeIsNotRefused(p)
  \/ UnlinkSocket(p) \/ UnlinkFails(p) \/ Unclaim(p)
  \/ Bind(p) \/ BindFails(p) \/ Claim(p) \/ ClaimFails(p)

GiveUp(p) == Stop(p) \/ RemovePid(p) \/ CloseServer(p) \/ UnlinkAgain(p) \/ Release(p)

StopCommand == AskHealth \/ ReadPid \/ Signal \/ Wait \/ GiveUpWaiting \/ Tidy

Next ==
  \/ \E p \in Proc : Start(p) \/ Take(p) \/ WritePid(p) \/ LateBootFails(p)
                     \/ GiveUp(p) \/ Crash(p)
  \/ StopCommand

Spec == Init /\ [][Next]_vars

--------------------------------------------------------------------------------
(***************************************************************************)
(* Properties.                                                             *)
(***************************************************************************)

\* Types; a service that is up listens at both addresses, and one that is gone at none.
TypeOK ==
  /\ phase \in [Proc -> Booting \cup Stopping \cup {"off", "ready", "gone"}]
  /\ at \in [Proc -> Address]
  /\ listens \in [Proc -> SUBSET Address]
  /\ sock \in [Address -> Proc \cup {None}]
  /\ claim \in [Address -> Proc \cup {None}]
  /\ owned \in [Proc -> SUBSET Address]
  /\ pidFile \in Proc \cup {None}
  /\ cli \in {"idle", "read", "signal", "wait", "tidy"}
  /\ target \in Proc \cup {None}
  /\ cli = "signal" => target \in Proc
  /\ contested \in [Proc -> SUBSET Address]
  /\ faults \in 0..MaxFaults
  /\ \A p \in Proc :
       /\ phase[p] = "ready" => listens[p] = Address
       /\ phase[p] \in {"off", "gone"} => listens[p] = {}
       /\ phase[p] \in {"finish", "release"} => at[p] \notin listens[p]

\* "Unlinking it while a listener is still there is address theft" (socket-claim.js): a
\* service that is up keeps its addresses and its claims to them, whoever is started or
\* stopped beside it, however full its accept queue is and whatever crashed before. What
\* it does not keep is what it has bound in the way of another process: one that had read
\* that the owner before was dead, or would still close that owner's server, or one that
\* found a dead claim beside it before its own was written.
ServiceIsKept ==
  \A p \in Proc, a \in Address : phase[p] = "ready" /\ a \notin contested[p] =>
    sock[a] = p /\ claim[a] = p

\* "A surface that answers while the only door in is shut" must not exist
\* (startService): where /health answers ok, the authority's address reaches the same
\* service. False of the code: the callback of a service that stops (authority/socket.js)
\* and a start that has read a dead claim remove whatever socket lies there by then.
ReadyMeansEnrollable == \A p \in Proc : Healthy(p) => Answers("authority", p)

\* A socket left behind by a service that had claimed it can be reclaimed: the claim
\* that proves its owner dead is still there, also after a reclaim that crashed half-way,
\* unless it was bound in the way of another process.
LeftoversAreReclaimable ==
  \A a \in Address, p \in Proc :
    /\ sock[a] = p /\ phase[p] = "gone" /\ a \in owned[p]
    /\ a \notin contested[p]
    => claim[a] = p
================================================================================
