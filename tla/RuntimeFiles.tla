------------------------------ MODULE RuntimeFiles ------------------------------
(***************************************************************************)
(* hook.secret and operator.cred: the two files of the runtime directory   *)
(* that outlive the service, made by whichever service process finds them  *)
(* missing.                                                                *)
(*                                                                         *)
(* Processes boot side by side (nothing keeps them apart before they bind  *)
(* the authority socket), and a step is a system call on a file or a       *)
(* transaction of the store.  A file is staged under a name of its own and *)
(* published with link, which is one step and fails on a name that exists. *)
(***************************************************************************)
EXTENDS Naturals

CONSTANTS
  Proc,        \* service processes: each boots once
  Cap,         \* capabilities with the whole operator grant, and their tokens
  Principal,   \* principals of role operator
  Secret,      \* hook secrets
  Absent,      \* no such file, no such value
  Unusable,    \* a directory, a loose mode, garbage, a token that grants less
  MaxMeddles   \* bound on what the operator does

ASSUME ValueAssumption ==
  /\ Absent \notin Cap \cup Secret \cup Principal
  /\ Unusable \notin Cap \cup Secret
  /\ Absent # Unusable
ASSUME BoundAssumption == MaxMeddles \in Nat

VARIABLES
  secretFile, credFile,
  pc,         \* what a process does next
  secret,     \* the secret it has generated, or that its authority compares with
  minted,     \* the capability whose token it holds in memory
  owner,      \* the principal of each capability that was issued
  revoked,    \* revoked capabilities
  fired,      \* revoked principals
  published,  \* tokens that have been in the file, which the operator may have kept
  meddled,    \* processes that were up or booting when the operator last intervened
  meddles

files  == <<secretFile, credFile>>
database == <<owner, revoked, fired>>
memory == <<secret, minted>>
human  == <<meddled, meddles>>
vars   == <<files, pc, memory, database, published, human>>

Live(c)   == owner[c] # Absent /\ c \notin revoked
Used(r)   == r \in fired \/ \E c \in Cap : owner[c] = r
Operators == {r \in Principal : r \notin fired /\ \E c \in Cap : owner[c] = r}

\* inspectExisting: only a live capability with the whole operator grant will do.
CredUsable == credFile \in Cap /\ Live(credFile)

Go(p, here, next) == pc[p] = here /\ pc' = [pc EXCEPT ![p] = next]

Init ==
  /\ secretFile \in {Absent, Unusable}
  /\ credFile \in {Absent, Unusable}
  /\ pc = [p \in Proc |-> "off"]
  /\ secret = [p \in Proc |-> Absent]
  /\ minted = [p \in Proc |-> Absent]
  /\ owner = [c \in Cap |-> Absent]
  /\ revoked = {} /\ fired = {} /\ published = {}
  /\ meddled = {} /\ meddles = 0

--------------------------------------------------------------------------------
(* ensureSecret. *)

Start(p) ==
  /\ Go(p, "off", "look secret")
  /\ UNCHANGED <<files, memory, database, published, human>>

\* loadSecret finds no file; the secret is generated.
GenerateSecret(p, s) ==
  /\ secretFile = Absent
  /\ \A q \in Proc : secret[q] # s
  /\ Go(p, "look secret", "publish secret")
  /\ secret' = [secret EXCEPT ![p] = s]
  /\ UNCHANGED <<files, minted, database, published, human>>

\* After a lost race there is no file any more.
LoseSecret(p) ==
  /\ secretFile = Absent
  /\ Go(p, "relook secret", "refused")
  /\ UNCHANGED <<files, memory, database, published, human>>

\* loadSecret finds a file, on the way in or after a lost race.
FindSecret(p) ==
  /\ secretFile # Absent
  /\ pc[p] \in {"look secret", "relook secret"}
  /\ pc' = [pc EXCEPT ![p] = "read secret"]
  /\ UNCHANGED <<files, memory, database, published, human>>

ReadSecret(p) ==
  /\ Go(p, "read secret", IF secretFile \in Secret THEN "look cred" ELSE "refused")
  /\ UNCHANGED <<files, memory, database, published, human>>

\* link: the file, or EEXIST and another authority's secret is the live one.
PublishSecret(p) ==
  /\ Go(p, "publish secret", IF secretFile = Absent THEN "look cred" ELSE "relook secret")
  /\ secretFile' = IF secretFile = Absent THEN secret[p] ELSE secretFile
  /\ UNCHANGED <<credFile, memory, database, published, human>>

--------------------------------------------------------------------------------
(* ensureOperatorCredential. *)

LookCred(p) ==
  /\ Go(p, "look cred", IF credFile = Absent THEN "mint" ELSE "read cred")
  /\ UNCHANGED <<files, memory, database, published, human>>

\* Mutant: a principal for every boot.
MintAfresh(p, c, r) ==
  /\ Go(p, "mint", "publish cred")
  /\ owner[c] = Absent
  /\ ~ Used(r)
  /\ owner' = [owner EXCEPT ![c] = r]
  /\ minted' = [minted EXCEPT ![p] = c]
  /\ UNCHANGED <<files, secret, revoked, fired, published, human>>

\* mintCapability, after ENOENT: one transaction, for the live operator if there is one.
Mint(p, c, r) ==
  /\ Go(p, "mint", "publish cred")
  /\ owner[c] = Absent
  /\ IF Operators # {} THEN r \in Operators ELSE ~ Used(r)
  /\ owner' = [owner EXCEPT ![c] = r]
  /\ minted' = [minted EXCEPT ![p] = c]
  /\ UNCHANGED <<files, secret, revoked, fired, published, human>>

ReadCred(p) ==
  /\ Go(p, "read cred", IF CredUsable THEN "arm" ELSE "refused")
  /\ UNCHANGED <<files, memory, database, published, human>>

\* Mutant: the file is opened with 'wx' and then written to.
WriteCred(p) ==
  /\ \/ credFile = Absent /\ credFile' = Unusable /\ UNCHANGED <<pc, published>>
     \/ /\ credFile = Unusable
        /\ Go(p, "publish cred", "arm")
        /\ credFile' = minted[p]
        /\ published' = published \cup {minted[p]}
     \/ credFile \in Cap /\ Go(p, "publish cred", "lost") /\ UNCHANGED <<credFile, published>>
  /\ pc[p] = "publish cred"
  /\ UNCHANGED <<secretFile, memory, database, human>>

\* link: the file, or EEXIST.
PublishCred(p) ==
  /\ Go(p, "publish cred", IF credFile = Absent THEN "arm" ELSE "lost")
  /\ credFile' = IF credFile = Absent THEN minted[p] ELSE credFile
  /\ published' = IF credFile = Absent THEN published \cup {minted[p]} ELSE published
  /\ UNCHANGED <<secretFile, memory, database, human>>

\* Mutant: the loser forgets the token and nothing else.
ForgetLoser(p) ==
  /\ Go(p, "lost", "relook cred")
  /\ UNCHANGED <<files, memory, database, published, human>>

\* Mutant: the loser tidies up the principal as well.
RevokeLosingPrincipal(p) ==
  /\ Go(p, "lost", "relook cred")
  /\ revoked' = revoked \cup {c \in Cap : owner[c] = owner[minted[p]]}
  /\ fired' = fired \cup {owner[minted[p]]}
  /\ UNCHANGED <<files, memory, owner, published, human>>

\* The loser's capability is revoked, since nobody can ever present it; its
\* principal, which is the winner's too, is not.
RevokeLoser(p) ==
  /\ Go(p, "lost", "relook cred")
  /\ revoked' = revoked \cup {minted[p]}
  /\ UNCHANGED <<files, memory, owner, fired, published, human>>

RelookCred(p) ==
  /\ Go(p, "relook cred", IF credFile = Absent THEN "refused" ELSE "read cred")
  /\ UNCHANGED <<files, memory, database, published, human>>

--------------------------------------------------------------------------------
(* The rest of the life of a service. *)

\* startAuthoritySocket reads the secret once more, and compares with that.
Arm(p) ==
  /\ Go(p, "arm", IF secretFile \in Secret THEN "serving" ELSE "refused")
  /\ secret' = [secret EXCEPT ![p] = IF secretFile \in Secret THEN secretFile ELSE @]
  /\ UNCHANGED <<files, minted, database, published, human>>

\* SIGKILL or SIGTERM, or a call that throws: the process ends, what it has
\* committed and published stays, and what it was holding is gone.
Die(p) ==
  /\ pc[p] \notin {"off", "refused", "down"}
  /\ pc' = [pc EXCEPT ![p] = "down"]
  /\ UNCHANGED <<files, memory, database, published, human>>

--------------------------------------------------------------------------------
(* The operator. *)

Meddle ==
  /\ meddles < MaxMeddles
  /\ meddles' = meddles + 1
  /\ meddled' = {p \in Proc : pc[p] # "off"}
  /\ UNCHANGED <<pc, memory>>

\* "delete that file and restart the service", chmod, an editor, a backup.
TouchSecret ==
  /\ Meddle
  /\ secretFile' \in {Absent, Unusable}
  /\ UNCHANGED <<credFile, database, published>>

TouchCred ==
  /\ Meddle
  /\ credFile' \in {Absent, Unusable} \cup published
  /\ UNCHANGED <<secretFile, database, published>>

\* `collabcast revoke`, through a service that is up.
RevokeCapability(c) ==
  /\ \E p \in Proc : pc[p] = "serving"
  /\ Meddle
  /\ Live(c)
  /\ revoked' = revoked \cup {c}
  /\ UNCHANGED <<files, owner, fired, published>>

RevokePrincipal(r) ==
  /\ \E p \in Proc : pc[p] = "serving"
  /\ Meddle
  /\ r \in Operators
  /\ fired' = fired \cup {r}
  /\ revoked' = revoked \cup {c \in Cap : owner[c] = r}
  /\ UNCHANGED <<files, owner, published>>

--------------------------------------------------------------------------------
SecretStep(p) ==
  \/ Start(p)
  \/ \E s \in Secret : GenerateSecret(p, s)
  \/ FindSecret(p) \/ LoseSecret(p) \/ ReadSecret(p) \/ PublishSecret(p)

CredStep(p) ==
  \/ LookCred(p) \/ ReadCred(p)
  \/ \E c \in Cap, r \in Principal : Mint(p, c, r)
  \/ PublishCred(p) \/ RevokeLoser(p) \/ RelookCred(p)

Operator ==
  \/ TouchSecret \/ TouchCred
  \/ \E c \in Cap : RevokeCapability(c)
  \/ \E r \in Principal : RevokePrincipal(r)

Next ==
  \/ \E p \in Proc : SecretStep(p) \/ CredStep(p) \/ Arm(p) \/ Die(p)
  \/ Operator

Spec == Init /\ [][Next]_vars

--------------------------------------------------------------------------------
(***************************************************************************)
(* Properties.                                                             *)
(***************************************************************************)

\* Types; a revoked principal has no live capability.
TypeOK ==
  /\ secretFile \in Secret \cup {Absent, Unusable}
  /\ credFile \in Cap \cup {Absent, Unusable}
  /\ pc \in [Proc -> {"off", "look secret", "read secret", "publish secret", "relook secret",
                      "look cred", "mint", "publish cred", "lost", "relook cred", "read cred",
                      "arm", "serving", "refused", "down"}]
  /\ secret \in [Proc -> Secret \cup {Absent}]
  /\ minted \in [Proc -> Cap \cup {Absent}]
  /\ owner \in [Cap -> Principal \cup {Absent}]
  /\ revoked \subseteq Cap /\ fired \subseteq Principal
  /\ published \subseteq Cap /\ meddled \subseteq Proc
  /\ meddles \in 0..MaxMeddles
  /\ \A c \in Cap : owner[c] \in fired => c \in revoked

\* "A cold double-boot" never makes two operator identities (mintCapability), however
\* many processes mint at once and whichever of them then publishes.
OneOperator == \A r, q \in Operators : r = q

\* No "live row nothing holds" (ensureOperatorCredential): a live capability has been
\* in the file, or belongs to a process on its way to publish or revoke it, or to one
\* that died on that way.
NothingHeldByNobody ==
  \A c \in Cap : Live(c) /\ c \notin published =>
    \E p \in Proc : minted[p] = c /\ pc[p] \in {"publish cred", "lost", "down"}

\* "Never a bypass": whatever is in the files, a service leaves it there. Only the
\* operator gets back in after a revocation, by removing the file.
LockoutHolds ==
  [][meddles' = meddles =>
       /\ credFile # Absent => credFile' = credFile
       /\ secretFile # Absent => secretFile' = secretFile]_vars

\* "Readiness implies the OPERATOR can act", and the hook too: what a serving authority
\* compares with is what the hook reads from hook.secret, and operator.cred holds a live
\* operator token, unless the operator has intervened since that service was started. In
\* particular no other process's boot, lost race or crash takes either away.
ServingIsUsable ==
  \A p \in Proc : pc[p] = "serving" /\ p \notin meddled => secret[p] = secretFile /\ CredUsable

\* A boot is refused for a file the operator has to see to, and never for what other
\* boots did or left undone when they crashed ("that state never clears itself").
RefusedForCause ==
  \A p \in Proc : pc[p] = "refused" /\ p \notin meddled =>
    secretFile = Unusable \/ (credFile # Absent /\ ~ CredUsable)
================================================================================
