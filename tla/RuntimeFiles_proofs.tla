-------------------------- MODULE RuntimeFiles_proofs --------------------------
(***************************************************************************)
(* Proofs about what is on a host's disk: the secret and the operator's    *)
(* credential that services share (RuntimeFiles), and the map, the configs *)
(* and the stores that set a project up (ProjectSetup, further down), for  *)
(* any number of processes and any interventions.                          *)
(*                                                                         *)
(* The properties of a service that is up need, of each process on its way *)
(* there, what it may still rely on: which token is whose (Tokens) and     *)
(* what it has seen of the two files (SecretStage, CredStage), as long as  *)
(* the operator has not intervened.                                        *)
(***************************************************************************)
EXTENDS RuntimeFiles, ProjectSetup, TLAPS

USE ValueAssumption, BoundAssumption

\* A token belongs to one process until it is published, and to the file then.
Tokens ==
  /\ \A c \in published \cup revoked : owner[c] # Absent
  /\ credFile \in Cap => credFile \in published
  /\ \A p \in Proc : minted[p] # Absent => owner[minted[p]] # Absent
  /\ \A p, q \in Proc : minted[p] = minted[q] /\ minted[p] # Absent => p = q
  /\ \A p \in Proc : pc[p] \in {"publish cred", "lost"} => minted[p] \in Cap \ published

PastSecret == {"look cred", "mint", "publish cred", "lost", "relook cred", "read cred",
               "arm", "serving"}

SecretStage ==
  /\ \A p \in Proc : pc[p] = "publish secret" => secret[p] \in Secret
  /\ \A p \in Proc \ meddled :
       /\ pc[p] \in {"relook secret", "read secret"} => secretFile # Absent
       /\ pc[p] \in PastSecret => secretFile \in Secret
       /\ pc[p] = "serving" => secret[p] = secretFile

CredStage ==
  \A p \in Proc \ meddled :
    /\ pc[p] = "publish cred" => minted[p] \notin revoked
    /\ pc[p] \in {"lost", "relook cred", "read cred"} => credFile # Absent
    /\ pc[p] \in {"arm", "serving"} => CredUsable

IInv == /\ TypeOK /\ Tokens /\ SecretStage /\ CredStage
        /\ OneOperator /\ NothingHeldByNobody /\ RefusedForCause

--------------------------------------------------------------------------------
\* What every intervention does.
LEMMA MeddleTypes ==
  ASSUME TypeOK, Meddle
  PROVE  meddled' \subseteq Proc /\ meddles' \in 0..MaxMeddles /\ meddles' # meddles
<1>1. meddles' = meddles + 1 /\ meddles \in 0..MaxMeddles /\ meddles < MaxMeddles
  BY DEF TypeOK, Meddle
<1>2. meddles' \in 0..MaxMeddles /\ meddles' # meddles
  BY <1>1
<1>3. meddled' \subseteq Proc
  BY DEF Meddle
<1>4. QED
  BY <1>2, <1>3

\* Types.
LEMMA TypeStep ==
  ASSUME TypeOK, Tokens, SecretStage, [Next]_vars
  PROVE  TypeOK'
<1> USE DEF TypeOK, files, database, memory, human
<1>1. ASSUME NEW p \in Proc, Start(p) PROVE TypeOK'
  BY <1>1 DEF Start, Go
<1>2. ASSUME NEW p \in Proc, FindSecret(p) PROVE TypeOK'
  BY <1>2 DEF FindSecret, Go
<1>3. ASSUME NEW p \in Proc, LoseSecret(p) PROVE TypeOK'
  BY <1>3 DEF LoseSecret, Go
<1>4. ASSUME NEW p \in Proc, ReadSecret(p) PROVE TypeOK'
  BY <1>4 DEF ReadSecret, Go
<1>5. ASSUME NEW p \in Proc, PublishSecret(p) PROVE TypeOK'
  BY <1>5 DEF PublishSecret, Go, SecretStage
<1>6. ASSUME NEW p \in Proc, LookCred(p) PROVE TypeOK'
  BY <1>6 DEF LookCred, Go
<1>7. ASSUME NEW p \in Proc, ReadCred(p) PROVE TypeOK'
  BY <1>7 DEF ReadCred, Go
<1>8. ASSUME NEW p \in Proc, PublishCred(p) PROVE TypeOK'
  BY <1>8 DEF PublishCred, Go, Tokens
<1>9. ASSUME NEW p \in Proc, RevokeLoser(p) PROVE TypeOK'
  BY <1>9, ZenonT(40) DEF RevokeLoser, Go, Tokens
<1>10. ASSUME NEW p \in Proc, RelookCred(p) PROVE TypeOK'
  BY <1>10 DEF RelookCred, Go
<1>11. ASSUME NEW p \in Proc, Arm(p) PROVE TypeOK'
  BY <1>11 DEF Arm, Go
<1>12. ASSUME NEW p \in Proc, Die(p) PROVE TypeOK'
  BY <1>12 DEF Die, Go
<1>13. ASSUME NEW p \in Proc, NEW s \in Secret, GenerateSecret(p, s) PROVE TypeOK'
  BY <1>13 DEF GenerateSecret, Go
<1>14. ASSUME NEW p \in Proc, NEW c \in Cap, NEW r \in Principal, Mint(p, c, r) PROVE TypeOK'
  <2>1. pc' \in [Proc -> {"off", "look secret", "read secret", "publish secret", "relook secret",
                      "look cred", "mint", "publish cred", "lost", "relook cred", "read cred",
                      "arm", "serving", "refused", "down"}]
    BY <1>14 DEF Mint, Go
  <2>2. owner' \in [Cap -> Principal \cup {Absent}] /\ minted' \in [Proc -> Cap \cup {Absent}]
    BY <1>14 DEF Mint
  <2>3. r \notin fired
    BY <1>14 DEF Mint, Operators, Used
  <2>4. \A d \in Cap : owner'[d] \in fired => d \in revoked
    BY <1>14, <2>3 DEF Mint
  <2>5. QED
    BY <1>14, <2>1, <2>2, <2>4 DEF Mint
<1>15. ASSUME TouchSecret PROVE TypeOK'
  <2>1. meddled' \subseteq Proc /\ meddles' \in 0..MaxMeddles
    BY <1>15, MeddleTypes DEF TouchSecret
  <2>2. QED
    BY <1>15, <2>1 DEF TouchSecret, Meddle
<1>16. ASSUME TouchCred PROVE TypeOK'
  <2>1. meddled' \subseteq Proc /\ meddles' \in 0..MaxMeddles
    BY <1>16, MeddleTypes DEF TouchCred
  <2>2. QED
    BY <1>16, <2>1 DEF TouchCred, Meddle
<1>17. ASSUME NEW c \in Cap, RevokeCapability(c) PROVE TypeOK'
  <2>1. meddled' \subseteq Proc /\ meddles' \in 0..MaxMeddles
    BY <1>17, MeddleTypes DEF RevokeCapability
  <2>2. QED
    BY <1>17, <2>1 DEF RevokeCapability, Meddle
<1>18. ASSUME NEW r \in Principal, RevokePrincipal(r) PROVE TypeOK'
  <2>1. meddled' \subseteq Proc /\ meddles' \in 0..MaxMeddles
    BY <1>18, MeddleTypes DEF RevokePrincipal
  <2>2. fired' \subseteq Principal /\ revoked' \subseteq Cap
    BY <1>18 DEF RevokePrincipal
  <2>3. \A c \in Cap : owner'[c] \in fired' => c \in revoked'
    BY <1>18 DEF RevokePrincipal
  <2>4. QED
    BY <1>18, <2>1, <2>2, <2>3 DEF RevokePrincipal, Meddle
<1>19. CASE UNCHANGED vars
  BY <1>19 DEF vars
<1>20. QED
  BY <1>1, <1>2, <1>3, <1>4, <1>5, <1>6, <1>7, <1>8, <1>9, <1>10,
     <1>11, <1>12, <1>13, <1>14, <1>15, <1>16, <1>17, <1>18, <1>19
  DEF Next, SecretStep, CredStep, Operator

\* Tokens.
LEMMA TokensStep ==
  ASSUME TypeOK, Tokens, [Next]_vars
  PROVE  Tokens'
<1> USE DEF TypeOK, Tokens, files, database, memory, human
<1>1. ASSUME NEW p \in Proc, Start(p) PROVE Tokens'
  BY <1>1 DEF Start, Go
<1>2. ASSUME NEW p \in Proc, FindSecret(p) PROVE Tokens'
  BY <1>2 DEF FindSecret, Go
<1>3. ASSUME NEW p \in Proc, LoseSecret(p) PROVE Tokens'
  BY <1>3 DEF LoseSecret, Go
<1>4. ASSUME NEW p \in Proc, ReadSecret(p) PROVE Tokens'
  BY <1>4 DEF ReadSecret, Go
<1>5. ASSUME NEW p \in Proc, PublishSecret(p) PROVE Tokens'
  BY <1>5 DEF PublishSecret, Go
<1>6. ASSUME NEW p \in Proc, LookCred(p) PROVE Tokens'
  BY <1>6 DEF LookCred, Go
<1>7. ASSUME NEW p \in Proc, ReadCred(p) PROVE Tokens'
  BY <1>7 DEF ReadCred, Go
<1>8. ASSUME NEW p \in Proc, PublishCred(p) PROVE Tokens'
  <2>1. minted[p] \in Cap /\ owner[minted[p]] # Absent /\ minted[p] # Absent
    BY <1>8 DEF PublishCred, Go
  <2>2. \A q \in Proc : pc'[q] \in {"publish cred", "lost"} => minted[q] \in Cap \ published'
    BY <1>8, <2>1, ZenonT(40) DEF PublishCred, Go
  <2>3. credFile' \in Cap => credFile' \in published'
    BY <1>8, <2>1 DEF PublishCred
  <2>4. QED
    BY <1>8, <2>1, <2>2, <2>3 DEF PublishCred
<1>9. ASSUME NEW p \in Proc, RevokeLoser(p) PROVE Tokens'
  <2>1. minted[p] \in Cap /\ minted[p] # Absent /\ owner[minted[p]] # Absent
    BY <1>9, ZenonT(40) DEF RevokeLoser, Go
  <2>2. \A c \in published' \cup revoked' : owner'[c] # Absent
    BY <1>9, <2>1 DEF RevokeLoser
  <2>3. QED
    BY <1>9, <2>2 DEF RevokeLoser, Go
<1>10. ASSUME NEW p \in Proc, RelookCred(p) PROVE Tokens'
  BY <1>10 DEF RelookCred, Go
<1>11. ASSUME NEW p \in Proc, Arm(p) PROVE Tokens'
  BY <1>11 DEF Arm, Go
<1>12. ASSUME NEW p \in Proc, Die(p) PROVE Tokens'
  BY <1>12, ZenonT(40) DEF Die, Go
<1>13. ASSUME NEW p \in Proc, NEW s \in Secret, GenerateSecret(p, s) PROVE Tokens'
  BY <1>13 DEF GenerateSecret, Go
<1>14. ASSUME NEW p \in Proc, NEW c \in Cap, NEW r \in Principal, Mint(p, c, r) PROVE Tokens'
  BY <1>14 DEF Mint, Go
<1>15. ASSUME TouchSecret PROVE Tokens'
  BY <1>15 DEF TouchSecret, Meddle
<1>16. ASSUME TouchCred PROVE Tokens'
  <2>1. credFile' \in Cap => credFile' \in published
    BY <1>16, ZenonT(40) DEF TouchCred
  <2>2. QED
    BY <1>16, <2>1 DEF TouchCred, Meddle
<1>17. ASSUME NEW c \in Cap, RevokeCapability(c) PROVE Tokens'
  BY <1>17 DEF RevokeCapability, Meddle, Live
<1>18. ASSUME NEW r \in Principal, RevokePrincipal(r) PROVE Tokens'
  BY <1>18 DEF RevokePrincipal, Meddle
<1>19. CASE UNCHANGED vars
  <2>1. /\ published' = published /\ owner' = owner /\ credFile' = credFile /\ revoked' = revoked
        /\ minted' = minted /\ pc' = pc
    BY <1>19 DEF vars
  <2>2. QED
    BY <2>1
<1>20. QED
  BY <1>1, <1>2, <1>3, <1>4, <1>5, <1>6, <1>7, <1>8, <1>9, <1>10,
     <1>11, <1>12, <1>13, <1>14, <1>15, <1>16, <1>17, <1>18, <1>19
  DEF Next, SecretStep, CredStep, Operator

\* The secret, as a process that boots sees it.
LEMMA SecretStageStep ==
  ASSUME TypeOK, SecretStage, [Next]_vars
  PROVE  SecretStage'
<1> USE DEF TypeOK, SecretStage, PastSecret, files, database, memory, human
<1>1. ASSUME NEW p \in Proc, Start(p) PROVE SecretStage'
  BY <1>1 DEF Start, Go
<1>2. ASSUME NEW p \in Proc, FindSecret(p) PROVE SecretStage'
  BY <1>2 DEF FindSecret, Go
<1>3. ASSUME NEW p \in Proc, LoseSecret(p) PROVE SecretStage'
  BY <1>3 DEF LoseSecret, Go
<1>4. ASSUME NEW p \in Proc, ReadSecret(p) PROVE SecretStage'
  BY <1>4 DEF ReadSecret, Go
<1>5. ASSUME NEW p \in Proc, PublishSecret(p) PROVE SecretStage'
  BY <1>5 DEF PublishSecret, Go
<1>6. ASSUME NEW p \in Proc, LookCred(p) PROVE SecretStage'
  BY <1>6 DEF LookCred, Go
<1>7. ASSUME NEW p \in Proc, ReadCred(p) PROVE SecretStage'
  BY <1>7 DEF ReadCred, Go
<1>8. ASSUME NEW p \in Proc, PublishCred(p) PROVE SecretStage'
  BY <1>8 DEF PublishCred, Go
<1>9. ASSUME NEW p \in Proc, RevokeLoser(p) PROVE SecretStage'
  BY <1>9 DEF RevokeLoser, Go
<1>10. ASSUME NEW p \in Proc, RelookCred(p) PROVE SecretStage'
  BY <1>10 DEF RelookCred, Go
<1>11. ASSUME NEW p \in Proc, Arm(p) PROVE SecretStage'
  BY <1>11 DEF Arm, Go
<1>12. ASSUME NEW p \in Proc, Die(p) PROVE SecretStage'
  BY <1>12 DEF Die, Go
<1>13. ASSUME NEW p \in Proc, NEW s \in Secret, GenerateSecret(p, s) PROVE SecretStage'
  BY <1>13 DEF GenerateSecret, Go
<1>14. ASSUME NEW p \in Proc, NEW c \in Cap, NEW r \in Principal, Mint(p, c, r) PROVE SecretStage'
  BY <1>14 DEF Mint, Go
<1>15. ASSUME TouchSecret PROVE SecretStage'
  BY <1>15 DEF TouchSecret, Meddle
<1>16. ASSUME TouchCred PROVE SecretStage'
  BY <1>16 DEF TouchCred, Meddle
<1>17. ASSUME NEW c \in Cap, RevokeCapability(c) PROVE SecretStage'
  BY <1>17 DEF RevokeCapability, Meddle, Live
<1>18. ASSUME NEW r \in Principal, RevokePrincipal(r) PROVE SecretStage'
  BY <1>18 DEF RevokePrincipal, Meddle
<1>19. CASE UNCHANGED vars
  BY <1>19 DEF vars
<1>20. QED
  BY <1>1, <1>2, <1>3, <1>4, <1>5, <1>6, <1>7, <1>8, <1>9, <1>10,
     <1>11, <1>12, <1>13, <1>14, <1>15, <1>16, <1>17, <1>18, <1>19
  DEF Next, SecretStep, CredStep, Operator

\* The credential, as a process that boots sees it.
LEMMA CredStageStep ==
  ASSUME TypeOK, Tokens, CredStage, [Next]_vars
  PROVE  CredStage'
<1> USE DEF TypeOK, Tokens, CredStage, CredUsable, Live, files, database, memory, human
<1>1. ASSUME NEW p \in Proc, Start(p) PROVE CredStage'
  BY <1>1 DEF Start, Go
<1>2. ASSUME NEW p \in Proc, FindSecret(p) PROVE CredStage'
  BY <1>2 DEF FindSecret, Go
<1>3. ASSUME NEW p \in Proc, LoseSecret(p) PROVE CredStage'
  BY <1>3 DEF LoseSecret, Go
<1>4. ASSUME NEW p \in Proc, ReadSecret(p) PROVE CredStage'
  BY <1>4 DEF ReadSecret, Go
<1>5. ASSUME NEW p \in Proc, PublishSecret(p) PROVE CredStage'
  BY <1>5 DEF PublishSecret, Go
<1>6. ASSUME NEW p \in Proc, LookCred(p) PROVE CredStage'
  BY <1>6 DEF LookCred, Go
<1>7. ASSUME NEW p \in Proc, ReadCred(p) PROVE CredStage'
  BY <1>7 DEF ReadCred, Go
<1>8. ASSUME NEW p \in Proc, PublishCred(p) PROVE CredStage'
  <2>1. minted[p] \in Cap /\ owner[minted[p]] # Absent /\ minted[p] # Absent
    BY <1>8, ZenonT(40) DEF PublishCred, Go
  <2>2. credFile # Absent => credFile' = credFile
    BY <1>8 DEF PublishCred
  <2>3. p \notin meddled => minted[p] \notin revoked
    BY <1>8 DEF PublishCred, Go
  <2>4. CASE credFile = Absent
    BY <1>8, <2>1, <2>3, <2>4 DEF PublishCred, Go
  <2>5. CASE credFile # Absent
    BY <1>8, <2>2, <2>5 DEF PublishCred, Go
  <2>6. QED
    BY <2>4, <2>5
<1>9. ASSUME NEW p \in Proc, RevokeLoser(p) PROVE CredStage'
  <2>1. minted[p] \in Cap \ published /\ minted[p] # Absent
    BY <1>9 DEF RevokeLoser, Go
  <2>2. CredUsable => CredUsable'
    BY <1>9, <2>1 DEF RevokeLoser
  <2>3. \A q \in Proc : pc'[q] = "publish cred" => q # p /\ minted[q] # minted[p]
    BY <1>9, <2>1, ZenonT(40) DEF RevokeLoser, Go
  <2>4. QED
    BY <1>9, <2>2, <2>3 DEF RevokeLoser, Go
<1>10. ASSUME NEW p \in Proc, RelookCred(p) PROVE CredStage'
  BY <1>10 DEF RelookCred, Go
<1>11. ASSUME NEW p \in Proc, Arm(p) PROVE CredStage'
  BY <1>11 DEF Arm, Go
<1>12. ASSUME NEW p \in Proc, Die(p) PROVE CredStage'
  BY <1>12 DEF Die, Go
<1>13. ASSUME NEW p \in Proc, NEW s \in Secret, GenerateSecret(p, s) PROVE CredStage'
  BY <1>13 DEF GenerateSecret, Go
<1>14. ASSUME NEW p \in Proc, NEW c \in Cap, NEW r \in Principal, Mint(p, c, r) PROVE CredStage'
  <2>1. c \notin revoked
    BY <1>14 DEF Mint
  <2>2. CredUsable => CredUsable'
    BY <1>14 DEF Mint
  <2>3. QED
    BY <1>14, <2>1, <2>2 DEF Mint, Go
<1>15. ASSUME TouchSecret PROVE CredStage'
  BY <1>15 DEF TouchSecret, Meddle
<1>16. ASSUME TouchCred PROVE CredStage'
  BY <1>16 DEF TouchCred, Meddle
<1>17. ASSUME NEW c \in Cap, RevokeCapability(c) PROVE CredStage'
  BY <1>17 DEF RevokeCapability, Meddle, Live
<1>18. ASSUME NEW r \in Principal, RevokePrincipal(r) PROVE CredStage'
  BY <1>18 DEF RevokePrincipal, Meddle
<1>19. CASE UNCHANGED vars
  BY <1>19 DEF vars
<1>20. QED
  BY <1>1, <1>2, <1>3, <1>4, <1>5, <1>6, <1>7, <1>8, <1>9, <1>10,
     <1>11, <1>12, <1>13, <1>14, <1>15, <1>16, <1>17, <1>18, <1>19
  DEF Next, SecretStep, CredStep, Operator

\* One live operator.
LEMMA OneOperatorStep ==
  ASSUME TypeOK, OneOperator, [Next]_vars
  PROVE  OneOperator'
<1> USE DEF TypeOK, OneOperator, Operators, files, database, memory, human
<1>1. ASSUME NEW p \in Proc, Start(p) PROVE OneOperator'
  BY <1>1 DEF Start, Go
<1>2. ASSUME NEW p \in Proc, FindSecret(p) PROVE OneOperator'
  BY <1>2 DEF FindSecret, Go
<1>3. ASSUME NEW p \in Proc, LoseSecret(p) PROVE OneOperator'
  BY <1>3 DEF LoseSecret, Go
<1>4. ASSUME NEW p \in Proc, ReadSecret(p) PROVE OneOperator'
  BY <1>4 DEF ReadSecret, Go
<1>5. ASSUME NEW p \in Proc, PublishSecret(p) PROVE OneOperator'
  BY <1>5 DEF PublishSecret, Go
<1>6. ASSUME NEW p \in Proc, LookCred(p) PROVE OneOperator'
  BY <1>6 DEF LookCred, Go
<1>7. ASSUME NEW p \in Proc, ReadCred(p) PROVE OneOperator'
  BY <1>7 DEF ReadCred, Go
<1>8. ASSUME NEW p \in Proc, PublishCred(p) PROVE OneOperator'
  BY <1>8 DEF PublishCred, Go
<1>9. ASSUME NEW p \in Proc, RevokeLoser(p) PROVE OneOperator'
  BY <1>9 DEF RevokeLoser, Go
<1>10. ASSUME NEW p \in Proc, RelookCred(p) PROVE OneOperator'
  BY <1>10 DEF RelookCred, Go
<1>11. ASSUME NEW p \in Proc, Arm(p) PROVE OneOperator'
  BY <1>11 DEF Arm, Go
<1>12. ASSUME NEW p \in Proc, Die(p) PROVE OneOperator'
  BY <1>12 DEF Die, Go
<1>13. ASSUME NEW p \in Proc, NEW s \in Secret, GenerateSecret(p, s) PROVE OneOperator'
  BY <1>13 DEF GenerateSecret, Go
<1>14. ASSUME NEW p \in Proc, NEW c \in Cap, NEW r \in Principal, Mint(p, c, r) PROVE OneOperator'
  BY <1>14 DEF Mint, Go, Used
<1>15. ASSUME TouchSecret PROVE OneOperator'
  BY <1>15 DEF TouchSecret, Meddle
<1>16. ASSUME TouchCred PROVE OneOperator'
  BY <1>16 DEF TouchCred, Meddle
<1>17. ASSUME NEW c \in Cap, RevokeCapability(c) PROVE OneOperator'
  BY <1>17 DEF RevokeCapability, Meddle, Live
<1>18. ASSUME NEW r \in Principal, RevokePrincipal(r) PROVE OneOperator'
  BY <1>18 DEF RevokePrincipal, Meddle
<1>19. CASE UNCHANGED vars
  BY <1>19 DEF vars
<1>20. QED
  BY <1>1, <1>2, <1>3, <1>4, <1>5, <1>6, <1>7, <1>8, <1>9, <1>10,
     <1>11, <1>12, <1>13, <1>14, <1>15, <1>16, <1>17, <1>18, <1>19
  DEF Next, SecretStep, CredStep, Operator

\* Live tokens.
LEMMA NothingHeldStep ==
  ASSUME TypeOK, Tokens, NothingHeldByNobody, [Next]_vars
  PROVE  NothingHeldByNobody'
<1> USE DEF TypeOK, Tokens, NothingHeldByNobody, Live, files, database, memory, human
<1>1. ASSUME NEW p \in Proc, Start(p) PROVE NothingHeldByNobody'
  BY <1>1 DEF Start, Go
<1>2. ASSUME NEW p \in Proc, FindSecret(p) PROVE NothingHeldByNobody'
  BY <1>2 DEF FindSecret, Go
<1>3. ASSUME NEW p \in Proc, LoseSecret(p) PROVE NothingHeldByNobody'
  BY <1>3 DEF LoseSecret, Go
<1>4. ASSUME NEW p \in Proc, ReadSecret(p) PROVE NothingHeldByNobody'
  BY <1>4 DEF ReadSecret, Go
<1>5. ASSUME NEW p \in Proc, PublishSecret(p) PROVE NothingHeldByNobody'
  BY <1>5 DEF PublishSecret, Go
<1>6. ASSUME NEW p \in Proc, LookCred(p) PROVE NothingHeldByNobody'
  BY <1>6 DEF LookCred, Go
<1>7. ASSUME NEW p \in Proc, ReadCred(p) PROVE NothingHeldByNobody'
  BY <1>7 DEF ReadCred, Go
<1>8. ASSUME NEW p \in Proc, PublishCred(p) PROVE NothingHeldByNobody'
  BY <1>8 DEF PublishCred, Go
<1>9. ASSUME NEW p \in Proc, RevokeLoser(p) PROVE NothingHeldByNobody'
  BY <1>9 DEF RevokeLoser, Go
<1>10. ASSUME NEW p \in Proc, RelookCred(p) PROVE NothingHeldByNobody'
  BY <1>10 DEF RelookCred, Go
<1>11. ASSUME NEW p \in Proc, Arm(p) PROVE NothingHeldByNobody'
  BY <1>11 DEF Arm, Go
<1>12. ASSUME NEW p \in Proc, Die(p) PROVE NothingHeldByNobody'
  BY <1>12 DEF Die, Go
<1>13. ASSUME NEW p \in Proc, NEW s \in Secret, GenerateSecret(p, s) PROVE NothingHeldByNobody'
  BY <1>13 DEF GenerateSecret, Go
<1>14. ASSUME NEW p \in Proc, NEW c \in Cap, NEW r \in Principal, Mint(p, c, r) PROVE NothingHeldByNobody'
  <2>1. \A d \in Cap \ {c} : Live(d)' => Live(d)
    BY <1>14 DEF Mint
  <2>2. minted'[p] = c /\ pc'[p] = "publish cred"
    BY <1>14 DEF Mint, Go
  <2>3. \A q \in Proc \ {p} : minted'[q] = minted[q] /\ pc'[q] = pc[q]
    BY <1>14 DEF Mint, Go
  <2>4. ASSUME NEW d \in Cap, Live(d)', d \notin published'
        PROVE  \E q \in Proc : minted'[q] = d /\ pc'[q] \in {"publish cred", "lost", "down"}
    <3>1. CASE d = c
      BY <2>2, <3>1
    <3>2. CASE d # c
      <4>1. Live(d) /\ d \notin published
        BY <1>14, <2>1, <2>4, <3>2 DEF Mint
      <4>2. PICK q \in Proc : minted[q] = d /\ pc[q] \in {"publish cred", "lost", "down"}
        BY <4>1
      <4>3. q # p
        BY <1>14, <4>2 DEF Mint, Go
      <4>4. QED
        BY <2>3, <4>2, <4>3
    <3>3. QED
      BY <3>1, <3>2
  <2>5. QED
    BY <2>4, ZenonT(40)
<1>15. ASSUME TouchSecret PROVE NothingHeldByNobody'
  BY <1>15 DEF TouchSecret, Meddle
<1>16. ASSUME TouchCred PROVE NothingHeldByNobody'
  BY <1>16 DEF TouchCred, Meddle
<1>17. ASSUME NEW c \in Cap, RevokeCapability(c) PROVE NothingHeldByNobody'
  BY <1>17 DEF RevokeCapability, Meddle, Live
<1>18. ASSUME NEW r \in Principal, RevokePrincipal(r) PROVE NothingHeldByNobody'
  BY <1>18 DEF RevokePrincipal, Meddle
<1>19. CASE UNCHANGED vars
  BY <1>19 DEF vars
<1>20. QED
  BY <1>1, <1>2, <1>3, <1>4, <1>5, <1>6, <1>7, <1>8, <1>9, <1>10,
     <1>11, <1>12, <1>13, <1>14, <1>15, <1>16, <1>17, <1>18, <1>19
  DEF Next, SecretStep, CredStep, Operator

\* Refusals.
LEMMA RefusedStep ==
  ASSUME TypeOK, Tokens, SecretStage, CredStage, RefusedForCause, [Next]_vars
  PROVE  RefusedForCause'
<1> USE DEF RefusedForCause, CredUsable, Live, files, database, memory, human
<1>0. pc = [q \in Proc |-> pc[q]] /\ secretFile \in Secret \cup {Absent, Unusable}
  BY DEF TypeOK
<1>1. ASSUME NEW p \in Proc, Start(p) PROVE RefusedForCause'
  BY <1>0, <1>1 DEF Start, Go
<1>2. ASSUME NEW p \in Proc, FindSecret(p) PROVE RefusedForCause'
  BY <1>0, <1>2 DEF FindSecret, Go
<1>3. ASSUME NEW p \in Proc, LoseSecret(p) PROVE RefusedForCause'
  <2>1. p \in meddled
    BY <1>0, <1>3 DEF LoseSecret, Go, SecretStage, CredStage, PastSecret
  <2>2. \A q \in Proc \ {p} : pc'[q] = pc[q]
    BY <1>0, <1>3 DEF LoseSecret, Go, SecretStage, CredStage, PastSecret
  <2>3. QED
    BY <1>3, <2>1, <2>2 DEF LoseSecret
<1>4. ASSUME NEW p \in Proc, ReadSecret(p) PROVE RefusedForCause'
  BY <1>0, <1>4 DEF ReadSecret, Go, SecretStage
<1>5. ASSUME NEW p \in Proc, PublishSecret(p) PROVE RefusedForCause'
  BY <1>0, <1>5 DEF PublishSecret, Go
<1>6. ASSUME NEW p \in Proc, LookCred(p) PROVE RefusedForCause'
  BY <1>0, <1>6 DEF LookCred, Go
<1>7. ASSUME NEW p \in Proc, ReadCred(p) PROVE RefusedForCause'
  BY <1>0, <1>7 DEF ReadCred, Go, SecretStage, CredStage, PastSecret
<1>8. ASSUME NEW p \in Proc, PublishCred(p) PROVE RefusedForCause'
  BY <1>0, <1>8 DEF PublishCred, Go
<1>9. ASSUME NEW p \in Proc, RevokeLoser(p) PROVE RefusedForCause'
  BY <1>0, <1>9 DEF RevokeLoser, Go
<1>10. ASSUME NEW p \in Proc, RelookCred(p) PROVE RefusedForCause'
  BY <1>0, <1>10 DEF RelookCred, Go, SecretStage, CredStage, PastSecret
<1>11. ASSUME NEW p \in Proc, Arm(p) PROVE RefusedForCause'
  BY <1>0, <1>11 DEF Arm, Go, SecretStage, CredStage, PastSecret
<1>12. ASSUME NEW p \in Proc, Die(p) PROVE RefusedForCause'
  <2>1. \A q \in Proc : pc'[q] = "refused" => pc[q] = "refused"
    BY <1>0, <1>12 DEF Die
  <2>2. QED
    BY <1>12, <2>1 DEF Die
<1>13. ASSUME NEW p \in Proc, NEW s \in Secret, GenerateSecret(p, s) PROVE RefusedForCause'
  BY <1>0, <1>13 DEF GenerateSecret, Go
<1>14. ASSUME NEW p \in Proc, NEW c \in Cap, NEW r \in Principal, Mint(p, c, r) PROVE RefusedForCause'
  <2>1. c # credFile /\ owner = [d \in Cap |-> owner[d]]
    BY <1>14 DEF Mint, Tokens, TypeOK
  <2>2. CredUsable' => CredUsable
    BY <1>14, <2>1 DEF Mint
  <2>3. \A q \in Proc : pc'[q] = "refused" => pc[q] = "refused"
    BY <1>0, <1>14 DEF Mint, Go
  <2>4. QED
    BY <1>14, <2>2, <2>3 DEF Mint
<1>15. ASSUME TouchSecret PROVE RefusedForCause'
  BY <1>0, <1>15 DEF TouchSecret, Meddle
<1>16. ASSUME TouchCred PROVE RefusedForCause'
  BY <1>0, <1>16 DEF TouchCred, Meddle
<1>17. ASSUME NEW c \in Cap, RevokeCapability(c) PROVE RefusedForCause'
  BY <1>0, <1>17 DEF RevokeCapability, Meddle, Live
<1>18. ASSUME NEW r \in Principal, RevokePrincipal(r) PROVE RefusedForCause'
  BY <1>0, <1>18 DEF RevokePrincipal, Meddle
<1>19. CASE UNCHANGED vars
  BY <1>19 DEF vars
<1>20. QED
  BY <1>1, <1>2, <1>3, <1>4, <1>5, <1>6, <1>7, <1>8, <1>9, <1>10,
     <1>11, <1>12, <1>13, <1>14, <1>15, <1>16, <1>17, <1>18, <1>19
  DEF Next, SecretStep, CredStep, Operator

--------------------------------------------------------------------------------
\* The strengthening is inductive.
LEMMA Inductive == Spec => []IInv
<1>1. Init => IInv
  BY DEF Init, IInv, TypeOK, Tokens, SecretStage, PastSecret, CredStage, OneOperator, Operators,
         NothingHeldByNobody, RefusedForCause, Live
<1>2. IInv /\ [Next]_vars => IInv'
  BY TypeStep, TokensStep, SecretStageStep, CredStageStep, OneOperatorStep, NothingHeldStep,
     RefusedStep DEF IInv
<1>3. QED
  BY <1>1, <1>2, PTL DEF Spec

\* Types, for any number of boots (RuntimeFiles!TypeOK).
THEOREM TypeCorrect == Spec => []TypeOK
BY Inductive, PTL DEF IInv

\* However many services mint at once, there is one live operator identity.
THEOREM OperatorIsUnique == Spec => []OneOperator
BY Inductive, PTL DEF IInv

\* A lost race leaves no live capability that nobody holds.
THEOREM NoOrphanedRow == Spec => []NothingHeldByNobody
BY Inductive, PTL DEF IInv

\* A serving authority accepts the secret the hook reads, and readiness implies that
\* the operator can act, whatever other boots do.
THEOREM ReadyMeansUsable == Spec => []ServingIsUsable
<1>1. IInv => ServingIsUsable
  BY DEF IInv, SecretStage, CredStage, ServingIsUsable
<1>2. QED
  BY <1>1, Inductive, PTL

\* No boot is refused for what other boots did or left undone.
THEOREM BootsAreNotWedged == Spec => []RefusedForCause
BY Inductive, PTL DEF IInv

\* What is in the files stays until the operator takes it away.
THEOREM NeverABypass == Spec => LockoutHolds
<1> DEFINE A == meddles' = meddles =>
                  /\ credFile # Absent => credFile' = credFile
                  /\ secretFile # Absent => secretFile' = secretFile
<1>1. IInv /\ [Next]_vars => [A]_vars
  <2> SUFFICES ASSUME IInv, [Next]_vars PROVE A
    OBVIOUS
  <2> USE DEF files, human
  <2>1. ASSUME UNCHANGED vars PROVE A
    BY <2>1 DEF vars
  <2>2. ASSUME Operator PROVE A
    <3>1. Meddle
      BY <2>2 DEF Operator, TouchSecret, TouchCred, RevokeCapability, RevokePrincipal
    <3>2. QED
      BY <3>1, MeddleTypes DEF IInv
  <2>3. ASSUME NEW p \in Proc, Arm(p) \/ Die(p) PROVE A
    BY <2>3 DEF Arm, Die
  <2>4. ASSUME NEW p \in Proc, SecretStep(p) PROVE A
    BY <2>4 DEF SecretStep, Start, GenerateSecret, FindSecret, LoseSecret, ReadSecret,
                PublishSecret
  <2>5. ASSUME NEW p \in Proc, CredStep(p) PROVE A
    BY <2>5 DEF CredStep, LookCred, ReadCred, Mint, PublishCred, RevokeLoser, RelookCred
  <2>6. QED
    BY <2>1, <2>2, <2>3, <2>4, <2>5 DEF Next
<1>2. QED
  BY <1>1, Inductive, PTL DEF Spec, LockoutHolds

--------------------------------------------------------------------------------
(* ProjectSetup: the map.  Whoever is at it holds its lock, and what is going *)
(* to be renamed into place extends what is there.                            *)

Extends(m2, m1) ==
  \A n \in DOMAIN m1 :
    /\ n \in DOMAIN m2
    /\ m2[n].canonicalRoot = m1[n].canonicalRoot
    /\ m1[n].registrations \subseteq m2[n].registrations

AtTheMap == {"read", "rename", "release"}

Locked ==
  \A p \in Command :
    /\ job[p].step # "idle" => job[p].dir \in Dir /\ job[p].ns \in Ns
    /\ job[p].step \in AtTheMap => lock = p

Drafted ==
  \A p \in Command : job[p].step = "rename" =>
    /\ Readable(identities) /\ Parses(job[p].draft)
    /\ Extends(job[p].draft, Entries(identities))
    /\ job[p].ns \in DOMAIN job[p].draft
    /\ job[p].draft[job[p].ns].canonicalRoot = job[p].dir
    /\ job[p].dir \in job[p].draft[job[p].ns].registrations

(* Stores: no older build's object outlives the migrations, whoever overlaps  *)
(* whom, for an opener never takes a step that an old object needs for done.   *)
Upgraded(d) ==
  \A o \in Objects : store[d].shape[o] = "old" =>
    store[d].version \in {3, 4, 5} /\ store[d].version < Since(o)

Knows(s) ==
  ~ InStep(s, "closed") =>
    /\ opening[s].dir \in Dir /\ opening[s].ns \in Ns
    /\ \A o \in Objects : TheStore(s).shape[o] = "old" =>
         InStep(s, "migrate") /\ opening[s].version \in {3, 4, 5} /\ opening[s].version < Since(o)

\* One that no other overlaps knows the version of the file it is at, and what it made
\* is there.
Stage(s) ==
  ~ InStep(s, "closed") /\ opening[s].dir \notin overlapped =>
    /\ ~ InStep(s, "open") => TheStore(s).version = opening[s].version
    /\ opening[s].at \in {"schema", "meta"} => ~ HasStep(opening[s].version)
    /\ InStep(s, "migrate") => opening[s].made = 0
    /\ InStep(s, "schema") =>
         \A i \in 1 .. opening[s].made : TheStore(s).shape[Schema[i]] # "absent"
    /\ InStep(s, "meta") => \A o \in Objects : TheStore(s).shape[o] # "absent"
    /\ InStep(s, "open") => /\ TheStore(s).version = SCHEMA_VERSION
                            /\ TheStore(s).ns = opening[s].ns
                            /\ \A o \in Objects : TheStore(s).shape[o] = "current"
    /\ \A t \in Opener : s # t /\ opening[s].dir = opening[t].dir =>
         InStep(s, "open") \/ InStep(t, "open")

(* Homes: while the map can be read, a store is of the namespace that has its *)
(* directory for a root; and its namespace is of no other store, also when the *)
(* map is spoilt.                                                              *)
RootOf(n, d) == identities \in Map /\ n \in DOMAIN identities /\ identities[n].canonicalRoot = d

Holds(n, d) ==
  \/ store[d].ns = n
  \/ \E s \in Opener : ~ InStep(s, "closed") /\ opening[s].dir = d /\ opening[s].ns = n

Homes ==
  \A n \in Ns \ hand.out :
    /\ identities # Garbage => \A d \in Dir : Holds(n, d) => RootOf(n, d)
    /\ \A d, e \in Dir : Holds(n, d) /\ Holds(n, e) => d = e

(* Projects: a command past its claim has it, and so has a `config --set`,     *)
(* until a hand takes it.                                                      *)
Claimed(m, n, d) == m = Garbage \/ (m \in Map /\ n \in DOMAIN m /\ d \in m[n].registrations)

Entitled == {"release", "scaffold", "config", "init", "change", "set"}

Rightful ==
  \A p \in Command, d \in Dir : job[p].dir = d /\ told[d] # "touched" =>
    /\ job[p].step \in Entitled => Claimed(identities, job[p].ns, d)
    /\ job[p].step = "init" => d \in scaffold

Ready ==
  \A d \in Dir : told[d] = "ready" =>
    /\ d \in scaffold
    /\ \/ \E p \in Command : job[p].dir = d /\ job[p].step \in {"init", "set"}
       \/ config[d] \in Ns /\ Claimed(identities, config[d], d)

--------------------------------------------------------------------------------
LEMMA EmptyFacts == EmptyMap \in Map /\ DOMAIN EmptyMap = {} /\ Parses(EmptyMap)
<1>1. EmptyMap \in [{} -> Entry] /\ DOMAIN EmptyMap = {}
  BY DEF EmptyMap
<1>2. EmptyMap \in Map
  BY <1>1 DEF Map
<1>3. QED
  BY <1>1, <1>2 DEF Parses

LEMMA MapFacts ==
  ASSUME NEW m \in Map
  PROVE  DOMAIN m \subseteq Ns /\ m \in [DOMAIN m -> Entry]
BY DEF Map

LEMMA IsMap ==
  ASSUME NEW N \in SUBSET Ns, NEW m \in [N -> Entry]
  PROVE  m \in Map
BY DEF Map

\* registerNamespace extends a map that parses to one that does.
LEMMA RegisteredFacts ==
  ASSUME NEW m \in Map, Parses(m), NEW n \in Ns, NEW d \in Dir, Claimable(m, n, d)
  PROVE  /\ Registered(m, n, d) \in Map
         /\ Parses(Registered(m, n, d))
         /\ Extends(Registered(m, n, d), m)
         /\ n \in DOMAIN Registered(m, n, d)
         /\ Registered(m, n, d)[n].canonicalRoot = d
         /\ d \in Registered(m, n, d)[n].registrations
<1> DEFINE r == Registered(m, n, d)
           e == [canonicalRoot |-> d,
                 registrations |-> {d} \cup IF n \in DOMAIN m THEN m[n].registrations ELSE {}]
<1>1. DOMAIN m \subseteq Ns /\ m \in [DOMAIN m -> Entry]
  BY MapFacts
<1>2. e \in Entry
  BY <1>1 DEF Entry
<1>3. /\ DOMAIN r = DOMAIN m \cup {n}
      /\ r[n] = e
      /\ \A o \in DOMAIN m : o # n => r[o] = m[o]
  BY DEF Registered
<1>4. r \in [DOMAIN m \cup {n} -> Entry]
  <2>1. r = [o \in DOMAIN m \cup {n} |-> IF o # n THEN m[o] ELSE e]
    BY DEF Registered
  <2>2. \A o \in DOMAIN m \cup {n} : (IF o # n THEN m[o] ELSE e) \in Entry
    BY <1>1, <1>2
  <2>3. QED
    BY <2>1, <2>2
<1>5. r \in Map
  BY <1>1, <1>4, IsMap
<1>6. Extends(r, m)
  <2>1. SUFFICES ASSUME NEW o \in DOMAIN m
                 PROVE  /\ o \in DOMAIN r
                        /\ r[o].canonicalRoot = m[o].canonicalRoot
                        /\ m[o].registrations \subseteq r[o].registrations
    BY DEF Extends
  <2>2. CASE o = n
    BY <1>3, <2>2 DEF Claimable
  <2>3. CASE o # n
    BY <1>3, <2>3
  <2>4. QED
    BY <2>2, <2>3
<1>7. Parses(r)
  <2>1. ASSUME NEW o \in DOMAIN r
        PROVE  r[o].canonicalRoot \in r[o].registrations
    BY <1>3 DEF Parses
  <2>2. ASSUME NEW o1 \in DOMAIN r, NEW o2 \in DOMAIN r, o1 # o2
        PROVE  r[o1].registrations \cap r[o2].registrations = {}
    <3>1. ASSUME NEW o \in DOMAIN m, o # n
          PROVE  m[o].registrations \cap r[n].registrations = {}
      <4>1. d \notin m[o].registrations
        BY <3>1 DEF Claimable
      <4>2. n \in DOMAIN m => m[o].registrations \cap m[n].registrations = {}
        BY <3>1 DEF Parses
      <4>3. QED
        BY <1>3, <4>1, <4>2
    <3>2. CASE o1 = n
      <4>1. o2 \in DOMAIN m /\ o2 # n /\ r[o2] = m[o2]
        BY <1>3, <2>2, <3>2
      <4>2. QED
        BY <3>1, <3>2, <4>1
    <3>3. CASE o2 = n
      <4>1. o1 \in DOMAIN m /\ o1 # n /\ r[o1] = m[o1]
        BY <1>3, <2>2, <3>3
      <4>2. QED
        BY <3>1, <3>3, <4>1
    <3>4. CASE o1 # n /\ o2 # n
      BY <1>3, <2>2, <3>4 DEF Parses
    <3>5. QED
      BY <3>2, <3>3, <3>4
  <2>3. QED
    BY <1>5, <2>1, <2>2 DEF Parses
<1>8. QED
  BY <1>3, <1>5, <1>6, <1>7

--------------------------------------------------------------------------------
(* Types. *)

Job == [step : Steps, dir : Dir \cup {None}, ns : Ns \cup {None}, draft : Map]

RegistrationTypes ==
  /\ identities \in Map \cup {NoMap, Garbage}
  /\ lock \in Command \cup {Nobody, Dead}
  /\ scaffold \subseteq Dir
  /\ config \in [Dir -> Ns \cup {NoConfig, Torn}]
  /\ job \in [Command -> Job]
  /\ told \in [Dir -> {"none", "ready", "touched"}]
  /\ runs \in Nat /\ hand \in [edits : Nat, out : SUBSET Ns]

Opening == [at : {"closed", "migrate", "schema", "meta", "open"},
            dir : Dir \cup {None}, ns : Ns \cup {None}, version : Nat, made : 0 .. 4]

UpgradeTypes ==
  store \in [Dir -> File] /\ opening \in [Opener -> Opening] /\ overlapped \subseteq Dir

LEMMA TypesAre == SetupTypeOK <=> RegistrationTypes /\ UpgradeTypes
BY DEF SetupTypeOK, RegistrationTypes, UpgradeTypes, Job, Opening

LEMMA NoJobFacts == NoJob \in Job /\ NoJob.step = "idle" /\ NoJob.dir = None
BY EmptyFacts DEF NoJob, Job, Steps

MapInv == RegistrationTypes /\ Locked /\ Drafted

LEMMA MapInitially == SetupInit => MapInv
<1> SUFFICES ASSUME SetupInit PROVE MapInv
  OBVIOUS
<1>1. /\ lock = Nobody /\ job = [p \in Command |-> NoJob] /\ told = [d \in Dir |-> "none"]
      /\ runs = 0 /\ hand = [edits |-> 0, out |-> {}]
  BY DEF SetupInit
<1>2. identities \in Map \cup {NoMap, Garbage} /\ scaffold \subseteq Dir
      /\ config \in [Dir -> Ns \cup {NoConfig, Torn}]
  <2>1. CASE NeverSetUp
    BY <2>1 DEF NeverSetUp
  <2>2. ASSUME NEW d \in Dir, NEW n \in Ns, NEW v \in {3, 4, 5, Newer}, NEW c \in BOOLEAN,
               LeftBy(d, n, v, c)
        PROVE  identities \in Map /\ scaffold \subseteq Dir /\ config \in [Dir -> Ns \cup {NoConfig, Torn}]
    <3>1. identities \in [{n} -> Entry]
      BY <2>2 DEF LeftBy, Entry
    <3>2. identities \in Map
      BY <3>1, IsMap
    <3>3. QED
      BY <2>2, <3>2 DEF LeftBy
  <2>3. QED
    BY <2>1, <2>2, Zenon DEF SetupInit
<1>3. RegistrationTypes
  BY <1>1, <1>2, NoJobFacts DEF RegistrationTypes
<1>4. Locked /\ Drafted
  BY <1>1, NoJobFacts DEF Locked, Drafted, AtTheMap
<1>5. QED
  BY <1>3, <1>4 DEF MapInv

\* What a step of the map leaves to be shown, of the job that takes it.
LEMMA JobStep ==
  ASSUME MapInv, NEW p \in Command, NEW j \in Job, job' = [job EXCEPT ![p] = j],
         j.step # "idle" => j.dir \in Dir /\ j.ns \in Ns,
         j.step \in AtTheMap => lock' = p,
         \A q \in Command : q # p /\ job[q].step \in AtTheMap => lock' = q,
         j.step = "rename" => /\ Readable(identities') /\ Parses(j.draft)
                              /\ Extends(j.draft, Entries(identities'))
                              /\ j.ns \in DOMAIN j.draft
                              /\ j.draft[j.ns].canonicalRoot = j.dir
                              /\ j.dir \in j.draft[j.ns].registrations,
         identities' = identities \/ \A q \in Command : q # p => job[q].step # "rename"
  PROVE  job' \in [Command -> Job] /\ Locked' /\ Drafted'
<1>1. /\ job' \in [Command -> Job] /\ job'[p] = j
      /\ \A q \in Command : q # p => job'[q] = job[q]
  BY DEF MapInv, RegistrationTypes
<1>2. Locked'
  BY <1>1 DEF MapInv, Locked
<1>3. Drafted'
  <2>1. SUFFICES ASSUME NEW q \in Command, job'[q].step = "rename"
                 PROVE  /\ Readable(identities') /\ Parses(job'[q].draft)
                        /\ Extends(job'[q].draft, Entries(identities'))
                        /\ job'[q].ns \in DOMAIN job'[q].draft
                        /\ job'[q].draft[job'[q].ns].canonicalRoot = job'[q].dir
                        /\ job'[q].dir \in job'[q].draft[job'[q].ns].registrations
    BY DEF Drafted
  <2>2. CASE q = p
    BY <1>1, <2>1, <2>2
  <2>3. CASE q # p
    BY <1>1, <2>1, <2>3 DEF MapInv, Drafted
  <2>4. QED
    BY <2>2, <2>3
<1>4. QED
  BY <1>1, <1>2, <1>3

LEMMA CommandStep ==
  ASSUME MapInv, NEW p \in Command,
         \/ \E d \in Dir, n \in Ns : BeginSet(p, d, n) \/ \E force \in BOOLEAN : BeginInit(p, d, n, force)
         \/ TakeLock(p) \/ GiveUpLock(p) \/ ReadMap(p) \/ RefuseClaim(p) \/ RenameDraft(p)
         \/ ReleaseLock(p) \/ MakeDirectories(p) \/ OpenNewConfig(p) \/ FinishInit(p)
         \/ OpenOldConfig(p) \/ FinishSet(p) \/ Crash(p)
  PROVE  MapInv'
<1> USE DEF Readable, AtTheMap
<1> USE LockAssumption
<1>0. RegistrationTypes /\ Locked /\ Drafted /\ job[p] \in Job
  BY DEF MapInv, RegistrationTypes
<1>1. ASSUME NEW d \in Dir, NEW n \in Ns,
             BeginSet(p, d, n) \/ \E force \in BOOLEAN : BeginInit(p, d, n, force)
      PROVE  MapInv'
  <2> DEFINE j(s) == [NoJob EXCEPT !.step = s, !.dir = d, !.ns = n]
  <2>1. PICK s \in {"lock", "change"} : job' = [job EXCEPT ![p] = j(s)] /\ runs' = runs + 1
    BY <1>1 DEF BeginSet, BeginInit, Begins
  <2>2. UNCHANGED <<identities, lock, scaffold, config, hand>>
    BY <1>1 DEF BeginSet, BeginInit, project
  <2>3. told' \in [Dir -> {"none", "ready", "touched"}]
    BY <1>0, <1>1 DEF BeginSet, BeginInit, RegistrationTypes
  <2>4. j(s) \in Job /\ j(s).step = s /\ j(s).dir = d /\ j(s).ns = n
    BY NoJobFacts DEF Job, Steps
  <2>5. job' \in [Command -> Job] /\ Locked' /\ Drafted'
    <3>1. \A q \in Command : q # p /\ job[q].step \in AtTheMap => lock' = q
      BY <1>0, <2>2 DEF Locked
    <3>2. QED
      BY <2>1, <2>2, <2>4, <3>1, JobStep
  <2>6. QED
    BY <1>0, <2>1, <2>2, <2>3, <2>5 DEF RegistrationTypes, MapInv
\* A job goes on, or ends, with nothing done to the map or its lock.
<1>2. ASSUME UNCHANGED <<identities, lock, runs, hand>>,
             scaffold' \subseteq Dir, config' \in [Dir -> Ns \cup {NoConfig, Torn}],
             told' \in [Dir -> {"none", "ready", "touched"}],
             \/ job' = [job EXCEPT ![p] = NoJob]
             \/ \E s \in {"config", "init", "set"} :
                  job[p].step # "idle" /\ job' = [job EXCEPT ![p].step = s]
      PROVE  MapInv'
  <2>1. \A q \in Command : q # p /\ job[q].step \in AtTheMap => lock' = q
    BY <1>0, <1>2 DEF Locked
  <2>2. job' \in [Command -> Job] /\ Locked' /\ Drafted'
    <3>1. CASE job' = [job EXCEPT ![p] = NoJob]
      BY <1>2, <2>1, <3>1, NoJobFacts, JobStep
    <3>2. ASSUME NEW s \in {"config", "init", "set"}, job[p].step # "idle",
                 job' = [job EXCEPT ![p].step = s]
          PROVE  job' \in [Command -> Job] /\ Locked' /\ Drafted'
      <4> DEFINE j == [job[p] EXCEPT !.step = s]
      <4>1. j \in Job /\ j.step = s /\ j.dir = job[p].dir /\ j.ns = job[p].ns
        BY <1>0 DEF Job, Steps
      <4>2. job' = [job EXCEPT ![p] = j] /\ j.dir \in Dir /\ j.ns \in Ns
        BY <1>0, <3>2, <4>1 DEF Locked, RegistrationTypes
      <4>3. QED
        BY <1>2, <2>1, <4>1, <4>2, JobStep
    <3>3. QED
      BY <1>2, <3>1, <3>2
  <2>3. QED
    BY <1>0, <1>2, <2>2 DEF RegistrationTypes, MapInv
\* A job goes on among the others that are at the map, or stays away from it.
<1>3. CASE TakeLock(p)
  <2> DEFINE j == [job[p] EXCEPT !.step = "read"]
  <2>1. /\ j \in Job /\ j.step = "read" /\ j.dir = job[p].dir /\ j.ns = job[p].ns
        /\ job' = [job EXCEPT ![p] = j] /\ job[p].step = "lock"
        /\ UNCHANGED <<identities, scaffold, config, told, runs, hand>> /\ lock' = p
    BY <1>0, <1>3 DEF TakeLock, Job, Steps, At, Goes, project, RegistrationTypes
  <2>2. \A q \in Command : q # p => job[q].step \notin AtTheMap
    BY <1>0, <1>3 DEF TakeLock, Locked
  <2>3. j.dir \in Dir /\ j.ns \in Ns
    BY <1>0, <2>1 DEF Locked
  <2>4. job' \in [Command -> Job] /\ Locked' /\ Drafted'
    BY <2>1, <2>2, <2>3, JobStep
  <2>5. QED
    BY <1>0, <2>1, <2>4 DEF RegistrationTypes, MapInv
<1>4. CASE GiveUpLock(p)
  BY <1>0, <1>2, <1>4 DEF GiveUpLock, Ends, project, RegistrationTypes
<1>5. CASE ReadMap(p)
  <2> DEFINE d == Registered(Entries(identities), job[p].ns, job[p].dir)
             j == [job[p] EXCEPT !.step = "rename", !.draft = d]
  <2>1. /\ job[p].step = "read" /\ Readable(identities)
        /\ Claimable(Entries(identities), job[p].ns, job[p].dir)
        /\ job' = [job EXCEPT ![p].step = "rename", ![p].draft = d]
        /\ UNCHANGED <<identities, lock, scaffold, config, told, runs, hand>>
    BY <1>5 DEF ReadMap, At, project
  <2>2. lock = p /\ job[p].dir \in Dir /\ job[p].ns \in Ns
    BY <1>0, <2>1 DEF Locked
  <2>3. Entries(identities) \in Map /\ Parses(Entries(identities))
    BY <2>1, EmptyFacts DEF Entries, Parses
  <2>4. /\ d \in Map /\ Parses(d) /\ Extends(d, Entries(identities))
        /\ job[p].ns \in DOMAIN d /\ d[job[p].ns].canonicalRoot = job[p].dir
        /\ job[p].dir \in d[job[p].ns].registrations
    BY <2>1, <2>2, <2>3, RegisteredFacts
  <2>5. /\ j \in Job /\ j.step = "rename" /\ j.draft = d /\ j.dir = job[p].dir /\ j.ns = job[p].ns
        /\ job' = [job EXCEPT ![p] = j]
    BY <1>0, <2>1, <2>4 DEF Job, Steps, RegistrationTypes
  <2>6. \A q \in Command : q # p /\ job[q].step \in AtTheMap => lock' = q
    BY <1>0, <2>1 DEF Locked
  <2>7. job' \in [Command -> Job] /\ Locked' /\ Drafted'
    <3>1. identities' = identities /\ Entries(identities') = Entries(identities) /\ lock' = p
      BY <2>1, <2>2
    <3>2. /\ Readable(identities') /\ Parses(j.draft)
          /\ Extends(j.draft, Entries(identities'))
          /\ j.ns \in DOMAIN j.draft
          /\ j.draft[j.ns].canonicalRoot = j.dir
          /\ j.dir \in j.draft[j.ns].registrations
      BY <2>1, <2>4, <2>5, <3>1
    <3>3. QED
      BY <2>2, <2>5, <2>6, <3>1, <3>2, JobStep
  <2>8. QED
    BY <1>0, <2>1, <2>7 DEF RegistrationTypes, MapInv
<1>6. CASE RefuseClaim(p)
  <2>1. /\ job[p].step = "read" /\ job' = [job EXCEPT ![p] = NoJob] /\ lock' = Nobody
        /\ UNCHANGED <<identities, scaffold, config, told, runs, hand>>
    BY <1>6 DEF RefuseClaim, At, Ends, project
  <2>2. \A q \in Command : q # p => job[q].step \notin AtTheMap
    BY <1>0, <2>1 DEF Locked
  <2>3. job' \in [Command -> Job] /\ Locked' /\ Drafted'
    BY <2>1, <2>2, NoJobFacts, JobStep
  <2>4. QED
    BY <1>0, <2>1, <2>3 DEF RegistrationTypes, MapInv
<1>7. CASE RenameDraft(p)
  <2> DEFINE j == [job[p] EXCEPT !.step = "release", !.draft = EmptyMap]
  <2>1. /\ job[p].step = "rename" /\ identities' = job[p].draft
        /\ job' = [job EXCEPT ![p] = j]
        /\ UNCHANGED <<lock, scaffold, config, told, runs, hand>>
    BY <1>0, <1>7 DEF RenameDraft, At, project, RegistrationTypes
  <2>2. /\ lock = p /\ job[p].dir \in Dir /\ job[p].ns \in Ns
        /\ \A q \in Command : q # p => job[q].step \notin AtTheMap
    BY <1>0, <2>1 DEF Locked
  <2>3. j \in Job /\ j.step = "release" /\ j.dir = job[p].dir /\ j.ns = job[p].ns
    BY <1>0, EmptyFacts DEF Job, Steps
  <2>4. job' \in [Command -> Job] /\ Locked' /\ Drafted'
    BY <2>1, <2>2, <2>3, JobStep
  <2>5. identities' \in Map
    BY <1>0, <2>1 DEF Job
  <2>6. QED
    BY <1>0, <2>1, <2>4, <2>5 DEF RegistrationTypes, MapInv
<1>8. CASE ReleaseLock(p)
  <2> DEFINE j == [job[p] EXCEPT !.step = "scaffold"]
  <2>1. /\ j \in Job /\ j.step = "scaffold" /\ j.dir = job[p].dir /\ j.ns = job[p].ns
        /\ job' = [job EXCEPT ![p] = j] /\ job[p].step = "release"
        /\ UNCHANGED <<identities, scaffold, config, told, runs, hand>> /\ lock' = Nobody
    BY <1>0, <1>8 DEF ReleaseLock, Job, Steps, At, Goes, project, RegistrationTypes
  <2>2. /\ job[p].dir \in Dir /\ job[p].ns \in Ns
        /\ \A q \in Command : q # p => job[q].step \notin AtTheMap
    BY <1>0, <2>1 DEF Locked
  <2>3. job' \in [Command -> Job] /\ Locked' /\ Drafted'
    BY <2>1, <2>2, JobStep
  <2>4. QED
    BY <1>0, <2>1, <2>3 DEF RegistrationTypes, MapInv
<1>9. CASE MakeDirectories(p)
  <2>1. job[p].dir \in Dir /\ job[p].step # "idle"
    BY <1>0, <1>9 DEF MakeDirectories, At, Locked
  <2>2. QED
    BY <1>0, <1>2, <1>9, <2>1 DEF MakeDirectories, Goes, RegistrationTypes
<1>10. CASE OpenNewConfig(p) \/ OpenOldConfig(p)
  <2>1. PICK here \in {"config", "change"}, there \in {"init", "set"} : OpenConfig(p, here, there)
    BY <1>10 DEF OpenNewConfig, OpenOldConfig
  <2>2. job[p].step # "idle" /\ UNCHANGED <<identities, lock, scaffold, told, runs, hand>>
    BY <2>1 DEF OpenConfig, At
  <2>3. \/ job' = [job EXCEPT ![p] = NoJob]
        \/ \E s \in {"config", "init", "set"} :
             job[p].step # "idle" /\ job' = [job EXCEPT ![p].step = s]
    BY <2>1, <2>2 DEF OpenConfig, Ends, Goes
  <2>4. config' \in [Dir -> Ns \cup {NoConfig, Torn}]
    BY <1>0, <2>1 DEF OpenConfig, RegistrationTypes
  <2>5. QED
    BY <1>0, <1>2, <2>2, <2>3, <2>4 DEF RegistrationTypes
<1>11. CASE FinishInit(p) \/ FinishSet(p)
  <2>1. WriteConfig(p) /\ Ends(p) /\ job[p].step # "idle"
        /\ UNCHANGED <<identities, lock, scaffold, runs, hand>>
    BY <1>11 DEF FinishInit, FinishSet, At
  <2>2. job[p].dir \in Dir /\ job[p].ns \in Ns
    BY <1>0, <2>1 DEF Locked
  <2>3. config' \in [Dir -> Ns \cup {NoConfig, Torn}]
    BY <1>0, <2>1, <2>2 DEF WriteConfig, RegistrationTypes
  <2>4. told' \in [Dir -> {"none", "ready", "touched"}]
    BY <1>0, <1>11 DEF FinishInit, FinishSet, RegistrationTypes
  <2>5. QED
    BY <1>0, <1>2, <2>1, <2>3, <2>4 DEF Ends, RegistrationTypes
<1>12. CASE Crash(p)
  <2>1. /\ job' = [job EXCEPT ![p] = NoJob] /\ lock' = IF lock = p THEN Dead ELSE lock
        /\ UNCHANGED <<identities, scaffold, config, runs, hand>>
    BY <1>12 DEF Crash, Ends, project
  <2>2. told' \in [Dir -> {"none", "ready", "touched"}]
    BY <1>0, <1>12 DEF Crash, RegistrationTypes
  <2>3. \A q \in Command : q # p /\ job[q].step \in AtTheMap => lock' = q
    BY <1>0, <2>1 DEF Locked
  <2>4. job' \in [Command -> Job] /\ Locked' /\ Drafted'
    BY <2>1, <2>3, NoJobFacts, JobStep
  <2>5. QED
    BY <1>0, <2>1, <2>2, <2>4 DEF RegistrationTypes, MapInv
<1>13. QED
  BY <1>1, <1>3, <1>4, <1>5, <1>6, <1>7, <1>8, <1>9, <1>10, <1>11, <1>12

LEMMA UnlistedIsMap ==
  ASSUME NEW m \in Map, NEW n
  PROVE  [o \in DOMAIN m \ {n} |-> m[o]] \in Map
<1> DEFINE new == [o \in DOMAIN m \ {n} |-> m[o]]
<1>1. DOMAIN m \subseteq Ns /\ m \in [DOMAIN m -> Entry]
  BY MapFacts
<1>2. new \in [DOMAIN m \ {n} -> Entry]
  BY <1>1
<1>3. QED
  BY <1>1, <1>2, IsMap

LEMMA EnlistedIsMap ==
  ASSUME NEW m \in Map, NEW n \in DOMAIN m, NEW d \in Dir
  PROVE  [m EXCEPT ![n].registrations = @ \cup {d}] \in Map
<1> DEFINE new == [m EXCEPT ![n].registrations = @ \cup {d}]
<1>1. DOMAIN m \subseteq Ns /\ m \in [DOMAIN m -> Entry]
  BY MapFacts
<1>2. new \in [DOMAIN m -> Entry]
  BY <1>1 DEF Entry
<1>3. QED
  BY <1>1, <1>2, IsMap

LEMMA HandStep ==
  ASSUME MapInv,
         \/ \E n \in Ns : Unlist(n) \/ \E d \in Dir : Enlist(n, d)
         \/ Misspell
         \/ \E d \in Dir : Wipe(d)
  PROVE  MapInv'
<1> USE LockAssumption
<1>0. RegistrationTypes /\ Locked /\ Drafted
  BY DEF MapInv
<1>1. /\ UNCHANGED <<lock, job, runs>> /\ lock \notin Command
      /\ hand' \in [edits : Nat, out : SUBSET Ns]
  <2>1. PICK out \in SUBSET Ns : ByHand(out)
    BY DEF Unlist, Enlist, Misspell, Wipe
  <2>2. QED
    BY <1>0, <2>1 DEF ByHand, RegistrationTypes
<1>2. \A p \in Command : job[p].step \notin AtTheMap
  BY <1>0, <1>1 DEF Locked
<1>3. Locked' /\ Drafted'
  BY <1>0, <1>1, <1>2 DEF Locked, Drafted, AtTheMap
<1>4. RegistrationTypes'
  <2>1. ASSUME NEW n \in Ns, Unlist(n)
        PROVE  RegistrationTypes'
    <3>1. identities' \in Map
      BY <2>1, UnlistedIsMap DEF Unlist
    <3>2. QED
      BY <1>0, <1>1, <2>1, <3>1 DEF Unlist, project, RegistrationTypes
  <2>2. ASSUME NEW n \in Ns, NEW d \in Dir, Enlist(n, d)
        PROVE  RegistrationTypes'
    <3>1. identities' \in Map
      BY <2>2, EnlistedIsMap DEF Enlist
    <3>2. QED
      BY <1>0, <1>1, <2>2, <3>1 DEF Enlist, project, RegistrationTypes
  <2>3. CASE Misspell
    BY <1>0, <1>1, <2>3 DEF Misspell, project, RegistrationTypes
  <2>4. ASSUME NEW d \in Dir, Wipe(d)
        PROVE  RegistrationTypes'
    BY <1>0, <1>1, <2>4 DEF Wipe, RegistrationTypes
  <2>5. QED
    BY <2>1, <2>2, <2>3, <2>4
<1>5. QED
  BY <1>3, <1>4 DEF MapInv

LEMMA MapStep == MapInv /\ [SetupNext]_setupVars => MapInv'
<1> SUFFICES ASSUME MapInv, [SetupNext]_setupVars PROVE MapInv'
  OBVIOUS
<1>1. CASE UNCHANGED registrationVars
  BY <1>1 DEF MapInv, RegistrationTypes, Locked, Drafted, registrationVars, project
<1>2. ASSUME NEW s \in Opener, NEW d \in Dir, NEW n \in Ns, StartService(s, d, n)
      PROVE  MapInv'
  <2>1. runs' = runs + 1 /\ UNCHANGED <<identities, lock, scaffold, config, job, told, hand>>
    BY <1>2 DEF StartService, project
  <2>2. QED
    BY <2>1 DEF MapInv, RegistrationTypes, Locked, Drafted
<1>3. QED
  BY <1>1, <1>2, CommandStep, HandStep DEF SetupNext, Only, Opens, WipeProject, setupVars

LEMMA MapInvariance == SetupSpec => []MapInv
BY MapInitially, MapStep, PTL DEF SetupSpec

\* Only a rename into place changes the map, but for the operator.
LEMMA OnlyRenames ==
  ASSUME MapInv, SetupNext, identities' # identities, hand' = hand
  PROVE  /\ Readable(identities) /\ Parses(identities') /\ Extends(identities', Entries(identities))
         /\ \E p \in Command :
              /\ job[p].step = "rename" /\ identities' = job[p].draft
              /\ UNCHANGED <<scaffold, config, told, lock>>
              /\ job' = [job EXCEPT ![p].step = "release", ![p].draft = EmptyMap]
<1>1. PICK p \in Command : RenameDraft(p)
  <2>1. \A out : ~ ByHand(out)
    BY DEF ByHand, MapInv, RegistrationTypes
  <2>2. QED
    BY <2>1 DEF SetupNext, Only, Opens, registrationVars, project, WipeProject, StartService,
      BeginInit, BeginSet, TakeLock, GiveUpLock, ReadMap, RefuseClaim, ReleaseLock,
      MakeDirectories, OpenNewConfig, FinishInit, OpenOldConfig, FinishSet, OpenConfig, Crash,
      Unlist, Enlist, Misspell, Wipe
<1>2. job[p].step = "rename" /\ identities' = job[p].draft
  BY <1>1 DEF RenameDraft, At
<1>3. QED
  BY <1>1, <1>2 DEF MapInv, Drafted, RenameDraft, project

\* withIdentitiesLock and writeIdentitiesMap: whatever commands run side by side and die,
\* none takes an entry from the map or renames one into place that others cannot read.
THEOREM MapIsKept == SetupSpec => MapOnlyGrows
<1> DEFINE Kept ==
      identities' # identities /\ hand' = hand =>
        /\ Readable(identities) /\ Parses(identities')
        /\ \A n \in DOMAIN Entries(identities) :
             /\ n \in DOMAIN identities'
             /\ identities'[n].canonicalRoot = identities[n].canonicalRoot
             /\ identities[n].registrations \subseteq identities'[n].registrations
<1>1. MapInv /\ [SetupNext]_setupVars => [Kept]_setupVars
  <2>1. SUFFICES ASSUME MapInv, SetupNext, identities' # identities, hand' = hand PROVE Kept
    BY DEF setupVars
  <2>2. Readable(identities) /\ Parses(identities') /\ Extends(identities', Entries(identities))
    BY <2>1, OnlyRenames
  <2>3. \A n \in DOMAIN Entries(identities) : Entries(identities) = identities
    BY EmptyFacts DEF Entries
  <2>4. QED
    BY <2>2, <2>3 DEF Extends
<1>2. QED
  BY <1>1, MapInvariance, PTL DEF SetupSpec, MapOnlyGrows

--------------------------------------------------------------------------------
(* Stores. *)

StoresInv ==
  /\ UpgradeTypes
  /\ \A d \in Dir : Upgraded(d)
  /\ \A s \in Opener : Knows(s) /\ Stage(s)

LEMMA VersionFacts ==
  /\ NoVersion \in Nat /\ SCHEMA_VERSION \in Nat /\ NoVersion \notin {3, 4, 5}
  /\ SCHEMA_VERSION \notin {3, 4, 5}
  /\ \A o \in Objects : Since(o) \in 4 .. 6
  /\ \A v \in {3, 4, 5} : \A o \in Objects : v < Since(o) /\ o \notin Dropped(v) => v + 1 < Since(o)
BY DEF NoVersion, SCHEMA_VERSION, Since, Objects, Dropped

LEMMA SchemaFacts ==
  /\ Len(Schema) = 4 /\ DOMAIN Schema = 1 .. 4
  /\ \A i \in 1 .. 4 : Schema[i] \in Objects
  /\ \A o \in Objects : \E i \in 1 .. 4 : Schema[i] = o
BY DEF Schema, Objects

LEMMA FreshFacts == Fresh \in File /\ \A o \in Objects : Fresh.shape[o] # "old"
BY VersionFacts DEF Fresh, File

LEMMA LeftAtFacts ==
  ASSUME NEW v \in {3, 4, 5, Newer}, NEW n \in Ns, NEW c \in BOOLEAN
  PROVE  /\ LeftAt(v, n, c) \in File /\ LeftAt(v, n, c).ns = n
         /\ \A o \in Objects : LeftAt(v, n, c).shape[o] = "old" =>
              LeftAt(v, n, c).version \in {3, 4, 5} /\ LeftAt(v, n, c).version < Since(o)
<1>1. v \in Nat /\ LeftAt(v, n, c).version = v /\ LeftAt(v, n, c).ns = n
  BY NewerAssumption DEF LeftAt
<1>2. [o \in Objects |-> IF v < Since(o) THEN "old" ELSE "current"] \in [Objects -> {"old", "absent", "current"}]
  OBVIOUS
<1>3. LeftAt(v, n, c) \in File
  BY <1>1, <1>2 DEF LeftAt, File
<1>4. \A o \in Objects : LeftAt(v, n, c).shape[o] = "old" => v < Since(o)
  BY DEF LeftAt
<1>5. v = Newer => \A o \in Objects : ~ (v < Since(o))
  BY NewerAssumption, VersionFacts
<1>6. QED
  BY <1>1, <1>3, <1>4, <1>5

LEMMA ClosedFacts == Closed \in Opening /\ Closed.at = "closed" /\ Closed.dir = None
BY VersionFacts DEF Closed, Opening

LEMMA StoresInitially == SetupInit => StoresInv
<1> SUFFICES ASSUME SetupInit PROVE StoresInv
  OBVIOUS
<1>1. opening = [s \in Opener |-> Closed] /\ overlapped = {}
  BY DEF SetupInit
<1>2. store \in [Dir -> File] /\ \A d \in Dir : Upgraded(d)
  <2>1. CASE NeverSetUp
    BY <2>1, FreshFacts DEF NeverSetUp, Upgraded
  <2>2. ASSUME NEW d \in Dir, NEW n \in Ns, NEW v \in {3, 4, 5, Newer}, NEW c \in BOOLEAN,
               LeftBy(d, n, v, c)
        PROVE  store \in [Dir -> File] /\ \A e \in Dir : Upgraded(e)
    BY <2>2, FreshFacts, LeftAtFacts DEF LeftBy, Upgraded
  <2>3. QED
    BY <2>1, <2>2, Zenon DEF SetupInit
<1>3. ASSUME NEW s \in Opener
      PROVE  Knows(s) /\ Stage(s)
  BY <1>1, ClosedFacts DEF Knows, Stage, InStep
<1>4. QED
  BY <1>1, <1>2, <1>3, ClosedFacts DEF StoresInv, UpgradeTypes

\* Opener s goes on to j and leaves f at its store.
MovesOn(s, j, f) ==
  /\ j \in Opening /\ opening' = [opening EXCEPT ![s] = j] /\ overlapped' = overlapped
  /\ f \in File /\ opening[s].dir \in Dir /\ store' = [store EXCEPT ![opening[s].dir] = f]
  /\ IF j.at = "closed" THEN j.dir = None
     ELSE j.dir = opening[s].dir /\ j.ns = opening[s].ns /\ ~ InStep(s, "closed")

\* No object is old that was not, and an opener that is not done with it has its step to take.
OldGoes(s, j, f) ==
  \A o \in Objects : f.shape[o] = "old" =>
    /\ TheStore(s).shape[o] = "old"
    /\ f.version \in {3, 4, 5} /\ f.version < Since(o)
    /\ j.at # "closed" => j.at = "migrate" /\ j.version \in {3, 4, 5} /\ j.version < Since(o)

\* The only one at its store that has not got it open.
Alone(s, j, f) ==
  /\ j.at \in {"migrate", "schema", "meta"} => f.version = j.version
  /\ j.at \in {"schema", "meta"} => ~ HasStep(j.version)
  /\ j.at = "migrate" => j.made = 0
  /\ j.at = "schema" => \A i \in 1 .. j.made : f.shape[Schema[i]] # "absent"
  /\ j.at = "meta" => \A o \in Objects : f.shape[o] # "absent"
  /\ j.at = "open" => /\ f.version = SCHEMA_VERSION /\ f.ns = j.ns
                      /\ \A o \in Objects : f.shape[o] = "current"
  /\ InStep(s, "open") => f = TheStore(s) /\ j.at \in {"closed", "open"}
  /\ \A t \in Opener : t # s /\ opening[t].dir = opening[s].dir /\ InStep(t, "open") =>
       /\ f.version = SCHEMA_VERSION /\ f.ns = opening[t].ns
       /\ \A o \in Objects : f.shape[o] = "current"

LEMMA OpenerStep ==
  ASSUME StoresInv, NEW s \in Opener, NEW j, NEW f, ~ InStep(s, "closed"),
         MovesOn(s, j, f), OldGoes(s, j, f), opening[s].dir \notin overlapped => Alone(s, j, f)
  PROVE  StoresInv'
<1>0. UpgradeTypes /\ (\A d \in Dir : Upgraded(d)) /\ \A t \in Opener : Knows(t) /\ Stage(t)
  BY DEF StoresInv
<1>1. /\ opening' \in [Opener -> Opening] /\ opening'[s] = j
      /\ \A t \in Opener : t # s => opening'[t] = opening[t]
      /\ store' \in [Dir -> File] /\ store'[opening[s].dir] = f
      /\ \A d \in Dir : d # opening[s].dir => store'[d] = store[d]
      /\ overlapped' = overlapped /\ opening[s].dir \in Dir
  BY <1>0 DEF UpgradeTypes, MovesOn
<1>2. ASSUME NEW d \in Dir
      PROVE  Upgraded(d)'
  <2>1. CASE d = opening[s].dir
    BY <1>1, <2>1 DEF Upgraded, OldGoes
  <2>2. CASE d # opening[s].dir
    BY <1>0, <1>1, <2>2 DEF Upgraded
  <2>3. QED
    BY <2>1, <2>2
<1>3. ASSUME NEW t \in Opener
      PROVE  Knows(t)'
  <2>0. Knows(t) /\ Knows(s)
    BY <1>0
  <2>1. CASE t = s
    BY <1>1, <2>0, <2>1 DEF Knows, InStep, TheStore, MovesOn, OldGoes
  <2>2. CASE t # s /\ opening[t].dir = opening[s].dir
    BY <1>1, <2>0, <2>2 DEF Knows, InStep, TheStore, OldGoes
  <2>3. CASE t # s /\ opening[t].dir # opening[s].dir
    BY <1>1, <2>0, <2>3 DEF Knows, InStep, TheStore
  <2>4. QED
    BY <2>1, <2>2, <2>3
<1>4. ASSUME NEW t \in Opener, opening'[t].at # "closed", opening'[t].dir \notin overlapped
      PROVE  Stage(t)'
  <2>0. Stage(t) /\ Stage(s) /\ Knows(t) /\ Knows(s)
    BY <1>0
  <2>1. CASE t = s
    <3>1. store'[j.dir] = f /\ j.dir = opening[s].dir /\ Alone(s, j, f)
      BY <1>1, <1>4, <2>1 DEF MovesOn
    <3>2. ASSUME NEW r \in Opener, r # s, j.dir = opening[r].dir
          PROVE  j.at = "open" \/ opening[r].at = "open"
      BY <1>1, <1>4, <2>0, <2>1, <3>1, <3>2 DEF Stage, InStep, Alone
    <3>3. j.at = "open" \/ f.version = j.version
      BY <1>1, <1>4, <2>1, <3>1 DEF Alone, Opening
    <3>4. QED
      BY <1>1, <2>1, <3>1, <3>2, <3>3 DEF Stage, InStep, TheStore, Alone
  <2>2. CASE t # s
    <3>1. opening'[t] = opening[t] /\ opening[t].at # "closed" /\ opening[t].dir \notin overlapped
      BY <1>1, <1>4, <2>2
    <3>2. opening[t].dir \in Dir /\ opening[t].ns \in Ns
      BY <2>0, <3>1 DEF Knows, InStep
    <3>3. \A r \in Opener : t # r /\ opening[t].dir = opening'[r].dir =>
            opening[t].at = "open" \/ opening'[r].at = "open"
      <4>1. TAKE r \in Opener
      <4>2. CASE r # s
        BY <1>1, <2>0, <3>1, <4>2 DEF Stage, InStep
      <4>3. CASE r = s /\ j.at = "closed"
        BY <1>1, <3>2, <4>3, NsAssumption DEF MovesOn
      <4>4. CASE r = s /\ j.at # "closed" /\ opening[t].dir = j.dir
        <5>1. j.dir = opening[s].dir /\ Alone(s, j, f)
          BY <3>1, <4>4 DEF MovesOn
        <5>2. opening[t].at = "open" \/ opening[s].at = "open"
          BY <2>0, <2>2, <3>1, <4>4, <5>1 DEF Stage, InStep
        <5>3. QED
          BY <1>1, <4>4, <5>1, <5>2 DEF Alone, InStep
      <4>5. QED
        BY <1>1, <4>2, <4>3, <4>4
    <3>4. CASE opening[t].dir # opening[s].dir
      BY <1>1, <2>0, <3>1, <3>2, <3>3, <3>4 DEF Stage, InStep, TheStore
    <3>5. CASE opening[t].dir = opening[s].dir /\ opening[t].at = "open"
      BY <1>1, <2>0, <2>2, <3>1, <3>2, <3>3, <3>5 DEF Stage, InStep, TheStore, Alone
    <3>6. CASE opening[t].dir = opening[s].dir /\ opening[t].at # "open"
      <4>1. opening[s].at = "open"
        BY <2>0, <2>2, <3>1, <3>6 DEF Stage, InStep
      <4>2. store'[opening[t].dir] = store[opening[t].dir]
        BY <1>1, <3>1, <3>6, <4>1 DEF InStep, TheStore, Alone
      <4>3. QED
        BY <1>1, <2>0, <3>1, <3>2, <3>3, <3>6, <4>2 DEF Stage, InStep, TheStore
    <3>7. QED
      BY <3>4, <3>5, <3>6
  <2>3. QED
    BY <2>1, <2>2
<1>5. \A t \in Opener : Stage(t)'
  BY <1>1, <1>4 DEF Stage, InStep
<1>6. QED
  BY <1>0, <1>1, <1>2, <1>3, <1>5 DEF StoresInv, UpgradeTypes

LEMMA StoresStep == StoresInv /\ [SetupNext]_setupVars => StoresInv'
<1> SUFFICES ASSUME StoresInv, [SetupNext]_setupVars PROVE StoresInv'
  OBVIOUS
<1>0. UpgradeTypes /\ (\A d \in Dir : Upgraded(d)) /\ \A t \in Opener : Knows(t) /\ Stage(t)
  BY DEF StoresInv
<1>1. CASE UNCHANGED upgradeVars
  BY <1>0, <1>1 DEF StoresInv, UpgradeTypes, Upgraded, Knows, Stage, InStep, TheStore, upgradeVars
<1>2. ASSUME NEW s \in Opener, NEW d \in Dir, NEW n \in Ns, OpenStore(s, d, n)
      PROVE  StoresInv'
  <2> DEFINE j == [at |-> "migrate", dir |-> d, ns |-> n, version |-> store[d].version, made |-> 0]
  <2>1. opening[s].at = "closed" /\ opening' = [opening EXCEPT ![s] = j] /\ store' = store
    BY <1>2 DEF OpenStore, InStep
  <2>2. j \in Opening /\ j.at = "migrate"
    BY <1>0 DEF Opening, UpgradeTypes, File
  <2>3. /\ opening' \in [Opener -> Opening] /\ opening'[s] = j
        /\ \A t \in Opener : t # s => opening'[t] = opening[t]
    BY <1>0, <2>1, <2>2 DEF UpgradeTypes
  <2>4. /\ overlapped' \subseteq Dir
        /\ \A e \in Dir : e # d => (e \in overlapped' <=> e \in overlapped)
        /\ d \notin overlapped' => \A t \in Opener : opening[t].dir = d =>
             opening[t].at = "open" /\ d \notin overlapped
    BY <1>0, <1>2 DEF OpenStore, UpgradeTypes, Users, InStep
  <2>5. ASSUME NEW t \in Opener
        PROVE  Knows(t)'
    <3>1. CASE t = s
      BY <1>0, <2>1, <2>3, <3>1 DEF Knows, InStep, TheStore, Upgraded
    <3>2. CASE t # s
      BY <1>0, <2>1, <2>3, <3>2 DEF Knows, InStep, TheStore
    <3>3. QED
      BY <3>1, <3>2
  <2>6. ASSUME NEW t \in Opener, opening'[t].at # "closed", opening'[t].dir \notin overlapped'
        PROVE  Stage(t)'
    <3>1. CASE t = s
      BY <2>1, <2>3, <2>4, <2>6, <3>1 DEF Stage, InStep, TheStore
    <3>2. CASE t # s /\ opening[t].dir = d
      <4>1. Stage(t) /\ opening[t].at = "open" /\ d \notin overlapped
        BY <1>0, <2>3, <2>4, <2>6, <3>2
      <4>2. QED
        BY <2>1, <2>3, <3>2, <4>1 DEF Stage, InStep, TheStore
    <3>3. CASE t # s /\ opening[t].dir # d
      <4>1. Stage(t) /\ Knows(t) /\ opening[t].at # "closed"
        BY <1>0, <2>3, <2>6, <3>3
      <4>2. opening[t].dir \in Dir /\ opening[t].dir \notin overlapped
        BY <2>3, <2>4, <2>6, <3>3, <4>1 DEF Knows, InStep
      <4>3. QED
        BY <2>1, <2>3, <3>3, <4>1, <4>2 DEF Stage, InStep, TheStore
    <3>4. QED
      BY <3>1, <3>2, <3>3
  <2>7. \A t \in Opener : Stage(t)'
    BY <2>6 DEF Stage, InStep
  <2>8. \A e \in Dir : Upgraded(e)'
    BY <1>0, <2>1 DEF Upgraded
  <2>9. QED
    BY <1>0, <2>1, <2>3, <2>4, <2>5, <2>7, <2>8 DEF StoresInv, UpgradeTypes
\* Nobody's store changes, but for objects that a hand or a wipe takes out of the way.
<1>3. ASSUME opening' = opening, overlapped' = overlapped, NEW d \in Dir, NEW f \in File,
             store' = [store EXCEPT ![d] = f],
             \/ f = Fresh /\ \A t \in Opener : opening[t].dir # d
             \/ f.shape = store[d].shape /\ f.version = store[d].version /\ f.ns = store[d].ns
      PROVE  StoresInv'
  <2>1. store' \in [Dir -> File] /\ store'[d] = f /\ \A e \in Dir : e # d => store'[e] = store[e]
    BY <1>0, <1>3 DEF UpgradeTypes
  <2>2. ASSUME NEW e \in Dir
        PROVE  Upgraded(e)'
    <3>1. Upgraded(e)
      BY <1>0
    <3>2. QED
      BY <1>3, <2>1, <3>1, FreshFacts DEF Upgraded
  <2>3. ASSUME NEW t \in Opener
        PROVE  Knows(t)' /\ Stage(t)'
    <3>1. Knows(t) /\ Stage(t)
      BY <1>0
    <3>2. CASE opening[t].dir = d
      BY <1>3, <2>1, <3>1, <3>2 DEF Knows, Stage, InStep, TheStore
    <3>3. CASE opening[t].dir # d
      BY <1>3, <2>1, <3>1, <3>3 DEF Knows, Stage, InStep, TheStore
    <3>4. QED
      BY <3>2, <3>3
  <2>4. QED
    BY <1>0, <1>3, <2>1, <2>2, <2>3 DEF StoresInv, UpgradeTypes
<1>4. ASSUME NEW d \in Dir, WipeProject(d)
      PROVE  StoresInv'
  BY <1>3, <1>4, FreshFacts DEF WipeProject
<1>5. ASSUME NEW d \in Dir, RenameAlias(d)
      PROVE  StoresInv'
  <2> DEFINE f == [store[d] EXCEPT !.clash = FALSE]
  <2>1. /\ f \in File /\ f.shape = store[d].shape /\ f.version = store[d].version
        /\ f.ns = store[d].ns /\ store' = [store EXCEPT ![d] = f]
        /\ opening' = opening /\ overlapped' = overlapped
    BY <1>0, <1>5 DEF RenameAlias, UpgradeTypes, File
  <2>2. QED
    BY <1>3, <2>1
\* From here on an opener s is at a store.
<1>6. ASSUME NEW s \in Opener, ~ InStep(s, "closed")
      PROVE  /\ opening[s].dir \in Dir /\ opening[s].ns \in Ns /\ opening[s] \in Opening
             /\ TheStore(s) \in File
             /\ \A o \in Objects : TheStore(s).shape[o] = "old" =>
                  /\ TheStore(s).version \in {3, 4, 5} /\ TheStore(s).version < Since(o)
                  /\ InStep(s, "migrate")
                  /\ opening[s].version \in {3, 4, 5} /\ opening[s].version < Since(o)
             /\ Stage(s)
  <2>1. Stage(s) /\ Knows(s)
    BY <1>0
  <2>2. opening[s].dir \in Dir
    BY <1>6, <2>1 DEF Knows
  <2>3. QED
    BY <1>0, <1>6, <2>1, <2>2 DEF Knows, Upgraded, UpgradeTypes, TheStore
\* And if it overlaps with no other, then those that are at it too have it open.
<1>7. ASSUME NEW s \in Opener, ~ InStep(s, "closed"), opening[s].dir \notin overlapped
      PROVE  \A t \in Opener : t # s /\ opening[t].dir = opening[s].dir /\ InStep(t, "open") =>
               /\ TheStore(s).version = SCHEMA_VERSION /\ TheStore(s).ns = opening[t].ns
               /\ \A o \in Objects : TheStore(s).shape[o] = "current"
  <2>1. SUFFICES ASSUME NEW t \in Opener, opening[t].dir = opening[s].dir, InStep(t, "open")
                 PROVE  /\ TheStore(s).version = SCHEMA_VERSION /\ TheStore(s).ns = opening[t].ns
                        /\ \A o \in Objects : TheStore(s).shape[o] = "current"
    OBVIOUS
  <2>2. Stage(t)
    BY <1>0
  <2>3. QED
    BY <1>7, <2>1, <2>2 DEF Stage, TheStore, InStep
<1>8. ASSUME NEW s \in Opener, ~ InStep(s, "closed"), opening' = [opening EXCEPT ![s] = Closed],
             store' = store, overlapped' = overlapped
      PROVE  StoresInv'
  <2>1. store' = [store EXCEPT ![opening[s].dir] = TheStore(s)]
    BY <1>0, <1>6, <1>8 DEF UpgradeTypes, TheStore
  <2>2. MovesOn(s, Closed, TheStore(s)) /\ OldGoes(s, Closed, TheStore(s))
    BY <1>6, <1>8, <2>1, ClosedFacts DEF MovesOn, OldGoes
  <2>3. opening[s].dir \notin overlapped => Alone(s, Closed, TheStore(s))
    BY <1>7, <1>8, ClosedFacts DEF Alone
  <2>4. QED
    BY <1>8, <2>2, <2>3, OpenerStep
<1>9. ASSUME NEW s \in Opener, RefuseClash(s) \/ RefuseMeta(s) \/ CloseStore(s)
      PROVE  StoresInv'
  BY <1>8, <1>9 DEF RefuseClash, RefuseMeta, CloseStore, InStep
<1>10. ASSUME NEW s \in Opener, MigrateStep(s)
      PROVE  StoresInv'
  <2> DEFINE v == opening[s].version
             j == [opening[s] EXCEPT !.version = v + 1]
             g == [o \in Objects |-> IF o \in Dropped(v) THEN "absent" ELSE TheStore(s).shape[o]]
             f == [TheStore(s) EXCEPT !.version = v + 1, !.shape = g]
  <2>1. /\ InStep(s, "migrate") /\ ~ InStep(s, "closed") /\ v \in {3, 4, 5}
        /\ store' = [store EXCEPT ![opening[s].dir] = f]
        /\ opening' = [opening EXCEPT ![s] = j] /\ overlapped' = overlapped
    BY <1>0, <1>10 DEF MigrateStep, HasStep, Changes, UpgradeTypes, InStep
  <2>2. /\ j \in Opening /\ j.at = "migrate" /\ j.dir = opening[s].dir /\ j.ns = opening[s].ns
        /\ j.version = v + 1 /\ j.made = opening[s].made
    BY <1>6, <2>1 DEF Opening, InStep
  <2>3. f \in File /\ f.version = v + 1 /\ f.shape = g
    <3>1. TheStore(s) \in File
      BY <1>6, <2>1
    <3>2. g \in [Objects -> {"old", "absent", "current"}]
      BY <3>1 DEF File
    <3> HIDE DEF g
    <3>3. v + 1 \in Nat
      BY <2>1
    <3>4. QED
      BY <3>1, <3>2, <3>3 DEF File
  <2>4. ASSUME NEW o \in Objects, f.shape[o] = "old"
        PROVE  TheStore(s).shape[o] = "old" /\ v + 1 \in {3, 4, 5} /\ v + 1 < Since(o)
    <3>1. o \notin Dropped(v) /\ TheStore(s).shape[o] = "old"
      BY <2>3, <2>4
    <3>2. v < Since(o)
      BY <1>6, <2>1, <3>1
    <3>3. v + 1 < Since(o) /\ Since(o) \in 4 .. 6
      BY <2>1, <3>1, <3>2, VersionFacts
    <3>4. QED
      BY <2>1, <3>1, <3>3
  <2>5. ASSUME opening[s].dir \notin overlapped
        PROVE  /\ TheStore(s).version = v /\ opening[s].made = 0
               /\ \A t \in Opener : t # s /\ opening[t].dir = opening[s].dir => ~ InStep(t, "open")
    <3>1. TheStore(s).version = v /\ opening[s].made = 0
      BY <1>6, <2>1, <2>5 DEF Stage, InStep
    <3>2. QED
      BY <1>7, <2>1, <2>5, <3>1, VersionFacts
  <2> HIDE DEF j, f
  <2>6. MovesOn(s, j, f) /\ OldGoes(s, j, f)
    BY <1>6, <2>1, <2>2, <2>3, <2>4 DEF MovesOn, OldGoes
  <2>7. opening[s].dir \notin overlapped => Alone(s, j, f)
    BY <2>1, <2>2, <2>3, <2>5 DEF Alone, InStep
  <2>8. QED
    BY <2>1, <2>6, <2>7, OpenerStep
<1>11. ASSUME NEW s \in Opener, EndMigrate(s) \/ EndSchema(s)
       PROVE  StoresInv'
  <2>1. PICK a \in {"schema", "meta"} :
          /\ opening' = [opening EXCEPT ![s].at = a]
          /\ a = "schema" => InStep(s, "migrate") /\ ~ HasStep(opening[s].version)
          /\ a = "meta" => InStep(s, "schema") /\ opening[s].made = Len(Schema)
    BY <1>11 DEF EndMigrate, EndSchema, GoesTo
  <2> DEFINE j == [opening[s] EXCEPT !.at = a]
  <2>2. /\ opening[s].at \in {"migrate", "schema"} /\ ~ InStep(s, "closed") /\ ~ InStep(s, "open")
        /\ store' = store /\ overlapped' = overlapped
        /\ opening' = [opening EXCEPT ![s] = j]
    BY <1>0, <1>11, <2>1 DEF EndMigrate, EndSchema, InStep, UpgradeTypes
  <2>3. j \in Opening /\ j.at = a /\ j.dir = opening[s].dir /\ j.ns = opening[s].ns
        /\ j.version = opening[s].version /\ j.made = opening[s].made
    BY <1>6, <2>2 DEF Opening
  <2>4. store' = [store EXCEPT ![opening[s].dir] = TheStore(s)]
    BY <1>0, <1>6, <2>2 DEF UpgradeTypes, TheStore
  <2>5. \A o \in Objects : TheStore(s).shape[o] # "old"
    <3>1. CASE a = "schema"
      BY <1>6, <2>1, <2>2, <3>1 DEF HasStep
    <3>2. CASE a = "meta"
      BY <1>6, <2>1, <2>2, <3>2 DEF InStep
    <3>3. QED
      BY <2>1, <3>1, <3>2
  <2>6. ASSUME opening[s].dir \notin overlapped
        PROVE  /\ TheStore(s).version = opening[s].version /\ ~ HasStep(opening[s].version)
               /\ a = "meta" => \A o \in Objects : TheStore(s).shape[o] # "absent"
               /\ a = "schema" => \A i \in 1 .. opening[s].made : TheStore(s).shape[Schema[i]] # "absent"
    <3>1. TheStore(s).version = opening[s].version /\ ~ HasStep(opening[s].version)
      BY <1>6, <2>1, <2>2, <2>6 DEF Stage, InStep
    <3>2. a = "meta" => \A i \in 1 .. 4 : TheStore(s).shape[Schema[i]] # "absent"
      BY <1>6, <2>1, <2>2, <2>6, SchemaFacts DEF Stage, InStep
    <3>3. a = "meta" => \A o \in Objects : TheStore(s).shape[o] # "absent"
      BY <3>2, SchemaFacts
    <3>4. QED
      BY <1>6, <2>1, <2>2, <2>6, <3>1, <3>3 DEF Stage, InStep
  <2> HIDE DEF j
  <2>7. MovesOn(s, j, TheStore(s)) /\ OldGoes(s, j, TheStore(s))
    BY <1>6, <2>1, <2>2, <2>3, <2>4, <2>5 DEF MovesOn, OldGoes
  <2>8. opening[s].dir \notin overlapped => Alone(s, j, TheStore(s))
    BY <1>7, <2>1, <2>2, <2>3, <2>6 DEF Alone, InStep
  <2>9. QED
    BY <2>2, <2>7, <2>8, OpenerStep
<1>12. ASSUME NEW s \in Opener, CreateObject(s)
       PROVE  StoresInv'
  <2> DEFINE i == opening[s].made + 1
             j == [opening[s] EXCEPT !.made = i]
             f == [TheStore(s) EXCEPT !.shape[Schema[i]] = IF @ = "absent" THEN "current" ELSE @]
  <2>1. /\ InStep(s, "schema") /\ ~ InStep(s, "closed") /\ i \in 1 .. 4 /\ Schema[i] \in Objects
        /\ store' = [store EXCEPT ![opening[s].dir] = f]
        /\ opening' = [opening EXCEPT ![s] = j] /\ overlapped' = overlapped
    BY <1>0, <1>12, SchemaFacts DEF CreateObject, Changes, InStep, UpgradeTypes
  <2>2. /\ f \in File /\ f.version = TheStore(s).version /\ f.ns = TheStore(s).ns
        /\ \A o \in Objects : f.shape[o] = IF o = Schema[i] /\ TheStore(s).shape[o] = "absent"
                                           THEN "current" ELSE TheStore(s).shape[o]
    <3>1. TheStore(s) \in File
      BY <1>6, <2>1
    <3>2. TheStore(s).shape \in [Objects -> {"old", "absent", "current"}]
      BY <3>1 DEF File
    <3>3. QED
      BY <2>1, <3>1, <3>2 DEF File
  <2>3. /\ j \in Opening /\ j.at = "schema" /\ j.dir = opening[s].dir /\ j.ns = opening[s].ns
        /\ j.version = opening[s].version /\ j.made = i
    BY <1>6, <2>1 DEF Opening, InStep
  <2>4. \A o \in Objects : f.shape[o] # "old"
    BY <1>6, <2>1, <2>2 DEF InStep
  <2>5. ASSUME opening[s].dir \notin overlapped
        PROVE  /\ f.version = opening[s].version /\ ~ HasStep(opening[s].version)
               /\ \A k \in 1 .. i : f.shape[Schema[k]] # "absent"
               /\ \A t \in Opener : t # s /\ opening[t].dir = opening[s].dir /\ InStep(t, "open") =>
                    /\ f.version = SCHEMA_VERSION /\ f.ns = opening[t].ns
                    /\ \A o \in Objects : f.shape[o] = "current"
    <3>1. /\ TheStore(s).version = opening[s].version /\ ~ HasStep(opening[s].version)
          /\ \A k \in 1 .. opening[s].made : TheStore(s).shape[Schema[k]] # "absent"
      BY <1>6, <2>1, <2>5 DEF Stage, InStep
    <3>2. ASSUME NEW k \in 1 .. i
          PROVE  f.shape[Schema[k]] # "absent"
      <4>1. Schema[k] \in Objects /\ opening[s].made \in 0 .. 4
        BY <1>6, <2>1, SchemaFacts DEF Opening
      <4>2. k = i \/ k \in 1 .. opening[s].made
        BY <4>1
      <4>3. QED
        BY <2>2, <3>1, <4>1, <4>2
    <3>3. f.version = opening[s].version
      BY <2>2, <3>1
    <3>4. ASSUME NEW t \in Opener, t # s, opening[t].dir = opening[s].dir, InStep(t, "open")
          PROVE  /\ f.version = SCHEMA_VERSION /\ f.ns = opening[t].ns
                 /\ \A o \in Objects : f.shape[o] = "current"
      <4>1. /\ TheStore(s).version = SCHEMA_VERSION /\ TheStore(s).ns = opening[t].ns
            /\ \A o \in Objects : TheStore(s).shape[o] = "current"
        BY <1>7, <2>1, <2>5, <3>4
      <4>2. \A o \in Objects : f.shape[o] = "current"
        BY <2>2, <4>1
      <4>3. QED
        BY <2>2, <4>1, <4>2
    <3> HIDE DEF i, f
    <3>5. QED
      BY <3>1, <3>2, <3>3, <3>4
  <2> HIDE DEF i, j, f
  <2>6. MovesOn(s, j, f) /\ OldGoes(s, j, f)
    BY <1>6, <2>1, <2>2, <2>3, <2>4 DEF MovesOn, OldGoes
  <2>7. opening[s].dir \notin overlapped => Alone(s, j, f)
    BY <2>1, <2>3, <2>5 DEF Alone, InStep
  <2>8. QED
    BY <2>1, <2>6, <2>7, OpenerStep
<1>13. ASSUME NEW s \in Opener, ReconcileMeta(s)
       PROVE  StoresInv'
  <2> DEFINE f == [TheStore(s) EXCEPT !.version = SCHEMA_VERSION, !.ns = opening[s].ns]
             j == [opening[s] EXCEPT !.at = "open"]
  <2>1. /\ InStep(s, "meta") /\ ~ InStep(s, "closed") /\ Acceptable(TheStore(s), opening[s].ns)
        /\ store' = [store EXCEPT ![opening[s].dir] = f]
        /\ opening' = [opening EXCEPT ![s] = j] /\ overlapped' = overlapped
    BY <1>0, <1>13 DEF ReconcileMeta, Changes, GoesTo, InStep, UpgradeTypes
  <2>2. \A o \in Objects : TheStore(s).shape[o] # "old"
    BY <1>6, <2>1 DEF InStep
  <2>3. /\ f \in File /\ f.version = SCHEMA_VERSION /\ f.ns = opening[s].ns
        /\ f.shape = TheStore(s).shape
    BY <1>6, <2>1, VersionFacts DEF File
  <2>4. j \in Opening /\ j.at = "open" /\ j.dir = opening[s].dir /\ j.ns = opening[s].ns
    BY <1>6, <2>1 DEF Opening
  <2>5. ASSUME opening[s].dir \notin overlapped
        PROVE  /\ \A o \in Objects : f.shape[o] = "current"
               /\ \A t \in Opener : t # s /\ opening[t].dir = opening[s].dir /\ InStep(t, "open") =>
                    opening[t].ns = opening[s].ns
    <3>1. \A o \in Objects : TheStore(s).shape[o] # "absent"
      BY <1>6, <2>1, <2>5 DEF Stage
    <3>2. \A o \in Objects : f.shape[o] = "current"
      BY <1>6, <2>1, <2>2, <2>3, <3>1 DEF File
    <3>3. ASSUME NEW t \in Opener, t # s, opening[t].dir = opening[s].dir, InStep(t, "open")
          PROVE  opening[t].ns = opening[s].ns
      <4>1. opening[t].ns \in Ns
        BY <1>0, <3>3 DEF Knows, InStep
      <4>2. TheStore(s).ns = opening[t].ns
        BY <1>7, <2>1, <2>5, <3>3
      <4>3. QED
        BY <2>1, <4>1, <4>2, NsAssumption DEF Acceptable
    <3>4. QED
      BY <3>2, <3>3
  <2> HIDE DEF j, f
  <2>6. MovesOn(s, j, f) /\ OldGoes(s, j, f)
    BY <1>6, <2>1, <2>2, <2>3, <2>4 DEF MovesOn, OldGoes
  <2>7. opening[s].dir \notin overlapped => Alone(s, j, f)
    BY <2>1, <2>3, <2>4, <2>5 DEF Alone, InStep
  <2>8. QED
    BY <2>1, <2>6, <2>7, OpenerStep
<1>14. ASSUME NEW s \in Opener, NEW d \in Dir, NEW n \in Ns, StartService(s, d, n)
       PROVE  StoresInv'
  <2>1. Parses(identities) /\ Owners(identities, d) = {n}
    BY <1>14 DEF StartService, Resolves
  <2>2. n \in DOMAIN identities /\ identities \in Map
    BY <2>1 DEF Owners, Parses
  <2>3. identities[n].canonicalRoot \in Dir
    BY <2>2, MapFacts DEF Entry
  <2>4. QED
    BY <1>2, <1>14, <2>3 DEF StartService
<1>15. QED
  BY <1>1, <1>4, <1>5, <1>9, <1>10, <1>11, <1>12, <1>13, <1>14 DEF SetupNext, Only, Opens, setupVars

LEMMA StoresInvariance == SetupSpec => []StoresInv
BY StoresInitially, StoresStep, PTL DEF SetupSpec

\* openStore: what a service has open is of this build's shape and its own namespace's,
\* whatever build made the file, wherever earlier openings died and whichever of them
\* overlapped, unless its own overlaps with another that somebody has open or opens yet.
THEOREM OpenIsCurrent == SetupSpec => []OpenMeansCurrent
<1>1. StoresInv => OpenMeansCurrent
  BY DEF StoresInv, Stage, OpenMeansCurrent, InStep
<1>2. QED
  BY <1>1, StoresInvariance, PTL

--------------------------------------------------------------------------------
(* Homes. *)

\* Whoever is at a store was sent to it.
Placed == \A s \in Opener : ~ InStep(s, "closed") => opening[s].dir \in Dir /\ opening[s].ns \in Ns

\* The namespace of a store is what it was, or that of whoever opened it, or goes.
StoresKept ==
  \A d \in Dir :
    \/ store'[d].ns \in {None, store[d].ns}
    \/ \E s \in Opener : ~ InStep(s, "closed") /\ opening[s].dir = d /\ store'[d].ns = opening[s].ns

\* An opener is where it was, or nowhere, or where the map has sent it.
OpenersKept ==
  \A s \in Opener :
    \/ opening'[s].at = "closed"
    \/ /\ opening[s].at # "closed"
       /\ opening'[s].dir = opening[s].dir /\ opening'[s].ns = opening[s].ns
    \/ identities' = identities /\ RootOf(opening'[s].ns, opening'[s].dir)

LEMMA SentTo ==
  ASSUME NEW d \in Dir, NEW n \in Ns, Resolves(identities, d, n)
  PROVE  RootOf(n, identities[n].canonicalRoot) /\ identities[n].canonicalRoot \in Dir
<1>1. n \in DOMAIN identities /\ identities \in Map
  BY DEF Resolves, Owners, Parses
<1>2. identities[n] \in Entry
  BY <1>1, MapFacts
<1>3. QED
  BY <1>1, <1>2 DEF RootOf, Entry

LEMMA HomesStep ==
  ASSUME StoresInv, SetupNext
  PROVE  StoresKept /\ OpenersKept
<1>0. UpgradeTypes /\ Placed
  BY DEF StoresInv, Knows, Placed
<1>1. CASE UNCHANGED upgradeVars
  BY <1>1 DEF upgradeVars, StoresKept, OpenersKept
<1>2. ASSUME NEW d \in Dir, NEW f \in File, f.ns \in {None, store[d].ns},
             store' = [store EXCEPT ![d] = f], opening' = opening
      PROVE  StoresKept /\ OpenersKept
  <2>1. store' \in [Dir -> File] /\ store'[d] = f /\ \A e \in Dir : e # d => store'[e] = store[e]
    BY <1>0, <1>2 DEF UpgradeTypes
  <2>2. QED
    BY <1>2, <2>1 DEF StoresKept, OpenersKept
<1>3. ASSUME NEW d \in Dir, WipeProject(d)
      PROVE  StoresKept /\ OpenersKept
  BY <1>2, <1>3, FreshFacts DEF WipeProject, Fresh
<1>4. ASSUME NEW d \in Dir, RenameAlias(d)
      PROVE  StoresKept /\ OpenersKept
  <2> DEFINE f == [store[d] EXCEPT !.clash = FALSE]
  <2>1. f \in File /\ f.ns = store[d].ns /\ store' = [store EXCEPT ![d] = f] /\ opening' = opening
    BY <1>0, <1>4 DEF RenameAlias, UpgradeTypes, File
  <2>2. QED
    BY <1>2, <2>1
\* An opener that is at a store goes on.
<1>5. ASSUME NEW s \in Opener, NEW j \in Opening, NEW f \in File,
             ~ InStep(s, "closed"), f.ns \in {TheStore(s).ns, opening[s].ns},
             store' = [store EXCEPT ![opening[s].dir] = f],
             opening' = [opening EXCEPT ![s] = j],
             j.at # "closed" => j.dir = opening[s].dir /\ j.ns = opening[s].ns
      PROVE  StoresKept /\ OpenersKept
  <2>1. /\ opening[s].dir \in Dir /\ opening[s].ns \in Ns
        /\ store' \in [Dir -> File] /\ store'[opening[s].dir] = f
        /\ \A e \in Dir : e # opening[s].dir => store'[e] = store[e]
        /\ opening' \in [Opener -> Opening] /\ opening'[s] = j
        /\ \A t \in Opener : t # s => opening'[t] = opening[t]
    BY <1>0, <1>5 DEF UpgradeTypes, Placed
  <2>2. StoresKept
    BY <1>5, <2>1 DEF StoresKept, TheStore
  <2>3. OpenersKept
    BY <1>5, <2>1 DEF OpenersKept, InStep
  <2>4. QED
    BY <2>2, <2>3
<1>6. ASSUME NEW s \in Opener, ~ InStep(s, "closed")
      PROVE  /\ opening[s].dir \in Dir /\ opening[s].ns \in Ns /\ opening[s] \in Opening
             /\ TheStore(s) \in File
             /\ store = [store EXCEPT ![opening[s].dir] = TheStore(s)]
             /\ opening = [opening EXCEPT ![s] = opening[s]]
  BY <1>0, <1>6 DEF UpgradeTypes, Placed, TheStore
<1>7. ASSUME NEW s \in Opener, RefuseClash(s) \/ RefuseMeta(s) \/ CloseStore(s)
      PROVE  StoresKept /\ OpenersKept
  <2>1. ~ InStep(s, "closed") /\ opening' = [opening EXCEPT ![s] = Closed] /\ store' = store
    BY <1>7 DEF RefuseClash, RefuseMeta, CloseStore, InStep
  <2>2. QED
    BY <1>5, <1>6, <2>1, ClosedFacts
<1>8. ASSUME NEW s \in Opener, EndMigrate(s) \/ EndSchema(s)
      PROVE  StoresKept /\ OpenersKept
  <2>1. PICK a \in {"schema", "meta"} : opening' = [opening EXCEPT ![s].at = a]
    BY <1>8 DEF EndMigrate, EndSchema, GoesTo
  <2> DEFINE j == [opening[s] EXCEPT !.at = a]
  <2>2. ~ InStep(s, "closed") /\ store' = store /\ opening' = [opening EXCEPT ![s] = j]
    BY <1>0, <1>8, <2>1 DEF EndMigrate, EndSchema, InStep, UpgradeTypes
  <2>3. j \in Opening /\ j.dir = opening[s].dir /\ j.ns = opening[s].ns
    BY <1>6, <2>2 DEF Opening
  <2>4. QED
    BY <1>5, <1>6, <2>2, <2>3
<1>9. ASSUME NEW s \in Opener, CreateObject(s)
      PROVE  StoresKept /\ OpenersKept
  <2> DEFINE i == opening[s].made + 1
             j == [opening[s] EXCEPT !.made = i]
             f == [TheStore(s) EXCEPT !.shape[Schema[i]] = IF @ = "absent" THEN "current" ELSE @]
  <2>1. /\ ~ InStep(s, "closed") /\ i \in 1 .. 4 /\ Schema[i] \in Objects
        /\ store' = [store EXCEPT ![opening[s].dir] = f]
        /\ opening' = [opening EXCEPT ![s] = j]
    BY <1>0, <1>9, SchemaFacts DEF CreateObject, Changes, InStep, UpgradeTypes
  <2>2. f \in File /\ f.ns = TheStore(s).ns
    <3>1. TheStore(s) \in File /\ TheStore(s).shape \in [Objects -> {"old", "absent", "current"}]
      BY <1>6, <2>1 DEF File
    <3>2. QED
      BY <2>1, <3>1 DEF File
  <2>3. j \in Opening /\ j.dir = opening[s].dir /\ j.ns = opening[s].ns
    BY <1>6, <2>1 DEF Opening
  <2> HIDE DEF i, j, f
  <2>4. QED
    BY <1>5, <2>1, <2>2, <2>3
<1>10. ASSUME NEW s \in Opener, ReconcileMeta(s)
       PROVE  StoresKept /\ OpenersKept
  <2> DEFINE f == [TheStore(s) EXCEPT !.version = SCHEMA_VERSION, !.ns = opening[s].ns]
             j == [opening[s] EXCEPT !.at = "open"]
  <2>1. /\ ~ InStep(s, "closed")
        /\ store' = [store EXCEPT ![opening[s].dir] = f]
        /\ opening' = [opening EXCEPT ![s] = j]
    BY <1>0, <1>10 DEF ReconcileMeta, Changes, GoesTo, InStep, UpgradeTypes
  <2>2. f \in File /\ f.ns = opening[s].ns
    BY <1>6, <2>1, VersionFacts DEF File
  <2>3. j \in Opening /\ j.dir = opening[s].dir /\ j.ns = opening[s].ns
    BY <1>6, <2>1 DEF Opening
  <2>4. QED
    BY <1>5, <2>1, <2>2, <2>3
<1>11. ASSUME NEW s \in Opener, MigrateStep(s)
       PROVE  StoresKept /\ OpenersKept
  <2> DEFINE v == opening[s].version
             j == [opening[s] EXCEPT !.version = v + 1]
             g == [o \in Objects |-> IF o \in Dropped(v) THEN "absent" ELSE TheStore(s).shape[o]]
             f == [TheStore(s) EXCEPT !.version = v + 1, !.shape = g]
  <2>1. /\ ~ InStep(s, "closed")
        /\ store' = [store EXCEPT ![opening[s].dir] = f]
        /\ opening' = [opening EXCEPT ![s] = j]
    BY <1>0, <1>11 DEF MigrateStep, Changes, UpgradeTypes, InStep
  <2>2. v + 1 \in Nat
    BY <1>6, <2>1 DEF Opening
  <2>3. j \in Opening /\ j.dir = opening[s].dir /\ j.ns = opening[s].ns
    BY <1>6, <2>1, <2>2 DEF Opening
  <2>4. f \in File /\ f.ns = TheStore(s).ns
    <3>1. TheStore(s) \in File
      BY <1>6, <2>1
    <3>2. g \in [Objects -> {"old", "absent", "current"}]
      BY <3>1 DEF File
    <3> HIDE DEF g
    <3>3. QED
      BY <2>2, <3>1, <3>2 DEF File
  <2>5. QED
    BY <1>5, <2>1, <2>3, <2>4
<1>12. ASSUME NEW s \in Opener, NEW d \in Dir, NEW n \in Ns, StartService(s, d, n)
       PROVE  StoresKept /\ OpenersKept
  <2> DEFINE r == identities[n].canonicalRoot
             j == [at |-> "migrate", dir |-> r, ns |-> n, version |-> store[r].version, made |-> 0]
  <2>1. /\ opening' = [opening EXCEPT ![s] = j] /\ store' = store /\ identities' = identities
        /\ Resolves(identities, d, n)
    BY <1>12 DEF StartService, OpenStore
  <2>2. r \in Dir /\ RootOf(n, r)
    BY <2>1, SentTo
  <2>3. j \in Opening
    BY <1>0, <2>2 DEF Opening, UpgradeTypes, File
  <2>4. /\ opening' \in [Opener -> Opening] /\ opening'[s] = j
        /\ \A t \in Opener : t # s => opening'[t] = opening[t]
    BY <1>0, <2>1, <2>3 DEF UpgradeTypes
  <2>5. QED
    BY <2>1, <2>2, <2>4 DEF StoresKept, OpenersKept
<1>13. QED
  BY <1>1, <1>3, <1>4, <1>7, <1>8, <1>9, <1>10, <1>11, <1>12 DEF SetupNext, Only, Opens

\* init, config and the service agree on the types of what they share.
THEOREM SetupTypeCorrect == SetupSpec => []SetupTypeOK
<1>1. MapInv /\ StoresInv => SetupTypeOK
  BY TypesAre DEF MapInv, StoresInv
<1>2. QED
  BY <1>1, MapInvariance, StoresInvariance, PTL

LEMMA HandOnly ==
  ASSUME SetupNext
  PROVE  \/ hand' = hand
         \/ \E n \in Ns : Unlist(n) \/ \E d \in Dir : Enlist(n, d)
         \/ Misspell
         \/ \E d \in Dir : Wipe(d)
BY DEF SetupNext, Only, Opens, registrationVars, WipeProject, StartService,
  BeginInit, BeginSet, TakeLock, GiveUpLock, ReadMap, RefuseClaim, ReleaseLock, RenameDraft,
  MakeDirectories, OpenNewConfig, FinishInit, OpenOldConfig, FinishSet, OpenConfig, Crash

\* A root goes with its entry only, and a map that cannot be read stays so.
LEMMA RootStays ==
  ASSUME MapInv, SetupNext
  PROVE  /\ hand.out \subseteq hand'.out
         /\ identities' # Garbage => identities # Garbage
         /\ \A n \in Ns \ hand'.out : \A d : RootOf(n, d) /\ identities' # Garbage => RootOf(n, d)'
<1>1. CASE hand' = hand /\ identities' = identities
  BY <1>1 DEF RootOf
<1>2. CASE hand' = hand /\ identities' # identities
  <2>1. Readable(identities) /\ Parses(identities') /\ Extends(identities', Entries(identities))
    BY <1>2, OnlyRenames
  <2>2. identities # Garbage
    BY <2>1, MapAssumption DEF Readable, Parses
  <2>3. ASSUME NEW n, NEW d, RootOf(n, d)
        PROVE  RootOf(n, d)'
    <3>1. Entries(identities) = identities
      BY <2>3, MapAssumption DEF RootOf, Entries
    <3>2. QED
      BY <2>1, <2>3, <3>1 DEF RootOf, Parses, Extends
  <2>4. QED
    BY <1>2, <2>2, <2>3
<1>3. ASSUME NEW m \in Ns, Unlist(m)
      PROVE  /\ hand'.out = hand.out \cup {m} /\ identities # Garbage
             /\ \A n \in Ns \ {m} : \A d : RootOf(n, d) => RootOf(n, d)'
  <2>1. /\ identities \in Map /\ m \in DOMAIN identities
        /\ identities' = [o \in DOMAIN identities \ {m} |-> identities[o]]
        /\ hand'.out = hand.out \cup {m}
    BY <1>3 DEF Unlist, ByHand
  <2>2. MapInv'
    BY <1>3, HandStep
  <2>3. identities' \in Map
    BY <2>1, <2>2, MapAssumption, UnlistedIsMap
  <2>4. QED
    BY <2>1, <2>3, MapAssumption DEF RootOf
<1>4. ASSUME NEW m \in Ns, NEW e \in Dir, Enlist(m, e)
      PROVE  /\ hand'.out = hand.out /\ identities # Garbage
             /\ \A n \in Ns : \A d : RootOf(n, d) => RootOf(n, d)'
  <2>1. /\ identities \in Map /\ m \in DOMAIN identities
        /\ identities' = [identities EXCEPT ![m].registrations = @ \cup {e}]
        /\ hand'.out = hand.out
    BY <1>4 DEF Enlist, ByHand
  <2>2. identities' \in Map
    BY <1>4, <2>1, EnlistedIsMap
  <2>3. DOMAIN identities' = DOMAIN identities
    BY <2>1
  <2>4. \A n \in DOMAIN identities : identities'[n].canonicalRoot = identities[n].canonicalRoot
    <3>1. identities \in [DOMAIN identities -> Entry]
      BY <2>1, MapFacts
    <3>2. QED
      BY <2>1, <3>1 DEF Entry
  <2>5. QED
    BY <2>1, <2>2, <2>3, <2>4, MapAssumption DEF RootOf
<1>5. CASE Misspell \/ \E d \in Dir : Wipe(d)
  <2>1. hand'.out = hand.out /\ (identities' = Garbage \/ identities' = identities)
    BY <1>5 DEF Misspell, Wipe, ByHand
  <2>2. QED
    BY <2>1 DEF RootOf
<1>6. QED
  BY <1>1, <1>2, <1>3, <1>4, <1>5, HandOnly

LEMMA HomesKept ==
  ASSUME MapInv, StoresInv, Homes, [SetupNext]_setupVars
  PROVE  Homes'
<1>1. CASE UNCHANGED setupVars
  BY <1>1 DEF Homes, Holds, RootOf, InStep, setupVars, upgradeVars, registrationVars
<1>2. CASE SetupNext
  <2>1. /\ hand.out \subseteq hand'.out /\ (identities' # Garbage => identities # Garbage)
        /\ \A n \in Ns \ hand'.out : \A d : RootOf(n, d) /\ identities' # Garbage => RootOf(n, d)'
    BY <1>2, RootStays
  <2>2. StoresKept /\ OpenersKept
    BY <1>2, HomesStep
  <2>3. ASSUME NEW n \in Ns, NEW d \in Dir, Holds(n, d)'
        PROVE  Holds(n, d) \/ RootOf(n, d)
    <3>1. CASE store'[d].ns = n
      BY <2>2, <3>1, NsAssumption DEF StoresKept, Holds
    <3>2. ASSUME NEW s \in Opener, opening'[s].at # "closed", opening'[s].dir = d, opening'[s].ns = n
          PROVE  Holds(n, d) \/ RootOf(n, d)
      BY <2>2, <3>2 DEF OpenersKept, Holds, InStep
    <3>3. QED
      BY <2>3, <3>1, <3>2 DEF Holds, InStep
  <2>4. SUFFICES ASSUME NEW n \in Ns, n \notin hand'.out
                 PROVE  /\ identities' # Garbage => \A d \in Dir : Holds(n, d)' => RootOf(n, d)'
                        /\ \A d, e \in Dir : Holds(n, d)' /\ Holds(n, e)' => d = e
    BY DEF Homes
  <2>5. n \in Ns \ hand.out
    BY <2>1, <2>4
  <2>6. ASSUME identities # Garbage, NEW d \in Dir, Holds(n, d)'
        PROVE  RootOf(n, d)
    BY <2>3, <2>5, <2>6 DEF Homes
  <2>7. ASSUME NEW d \in Dir, NEW e \in Dir, Holds(n, d)', Holds(n, e)'
        PROVE  d = e
    <3>1. CASE identities # Garbage
      BY <2>6, <2>7, <3>1 DEF RootOf
    <3>2. CASE identities = Garbage
      <4>1. ~ RootOf(n, d) /\ ~ RootOf(n, e)
        BY <3>2, MapAssumption DEF RootOf
      <4>2. QED
        BY <2>3, <2>5, <2>7, <4>1 DEF Homes
    <3>3. QED
      BY <3>1, <3>2
  <2>8. QED
    BY <2>1, <2>4, <2>6, <2>7
<1>3. QED
  BY <1>1, <1>2

\* registerNamespace and reconcileMeta: no two projects get a store of one namespace,
\* whatever inits and services run side by side and whatever a hand does to the map, but
\* for taking out the entry of that namespace.
THEOREM OneHome == SetupSpec => []OneHomePerNamespace
<1>1. SetupInit => Homes
  <2>1. SUFFICES ASSUME SetupInit PROVE Homes
    OBVIOUS
  <2>2. \A s \in Opener : InStep(s, "closed")
    BY <2>1, ClosedFacts DEF SetupInit, InStep
  <2>3. CASE NeverSetUp
    BY <2>2, <2>3, NsAssumption DEF NeverSetUp, Homes, Holds, Fresh
  <2>4. ASSUME NEW d \in Dir, NEW n \in Ns, NEW v \in {3, 4, 5, Newer}, NEW c \in BOOLEAN,
               LeftBy(d, n, v, c)
        PROVE  Homes
    <3>1. identities \in Map /\ n \in DOMAIN identities /\ identities[n].canonicalRoot = d
      <4>1. identities \in [{n} -> Entry]
        BY <2>4 DEF LeftBy, Entry
      <4>2. QED
        BY <2>4, <4>1, IsMap DEF LeftBy
    <3>2. \A m \in Ns, e \in Dir : Holds(m, e) => e = d /\ m = n
      BY <2>2, <2>4, LeftAtFacts, NsAssumption DEF LeftBy, Fresh, Holds
    <3>3. QED
      BY <3>1, <3>2 DEF Homes, RootOf
  <2>5. QED
    BY <2>1, <2>3, <2>4, Zenon DEF SetupInit
<1>2. MapInv /\ StoresInv /\ Homes /\ [SetupNext]_setupVars => Homes'
  BY HomesKept
<1>3. StoresInv /\ Homes => OneHomePerNamespace
  BY DEF StoresInv, UpgradeTypes, File, Homes, Holds, OneHomePerNamespace
<1>4. QED
  BY <1>1, <1>2, <1>3, MapInvariance, StoresInvariance, PTL DEF SetupSpec

--------------------------------------------------------------------------------
(* Projects. *)

ProjectsInv == Rightful /\ Ready

\* The namespace that has the root of a repository owns it, and no other does.
LEMMA OwnerFacts ==
  ASSUME NEW m, Parses(m), NEW d \in Dir, Home[d] = d,
         NEW n \in DOMAIN m, d \in m[n].registrations
  PROVE  Owners(m, d) = {n}
<1> USE DirAssumption, AboveAssumption
<1>1. Matches(m, d) \subseteq {d} \cup Above[d] /\ d \in Matches(m, d)
  BY DEF Matches
<1>2. Nearest(m, d) = {d}
  <2>1. d \in Nearest(m, d)
    BY <1>1 DEF Nearest
  <2>2. ASSUME NEW x \in Nearest(m, d)
        PROVE  x = d
    <3>1. x \in {d} \cup Above[d] /\ d \in {x} \cup Above[x]
      BY <1>1 DEF Nearest
    <3>2. x \in Dir
      BY <3>1
    <3>3. QED
      BY <3>1, <3>2
  <2>3. QED
    BY <2>1, <2>2
<1>3. \A o \in DOMAIN m : o # n => d \notin m[o].registrations
  BY DEF Parses
<1>4. QED
  BY <1>2, <1>3 DEF Owners

\* No command takes a directory from a namespace.
LEMMA ClaimsStay ==
  ASSUME MapInv, SetupNext, hand' = hand, NEW n, NEW d, Claimed(identities, n, d)
  PROVE  Claimed(identities', n, d)
<1>1. CASE identities' = identities
  BY <1>1
<1>2. CASE identities' # identities
  <2>1. Readable(identities) /\ Parses(identities') /\ Extends(identities', Entries(identities))
    BY <1>2, OnlyRenames
  <2>2. identities \in Map /\ n \in DOMAIN identities /\ d \in identities[n].registrations
    BY <2>1, MapAssumption DEF Claimed, Readable, Parses
  <2>3. Entries(identities) = identities
    BY <2>2, MapAssumption DEF Entries
  <2>4. QED
    BY <2>1, <2>2, <2>3 DEF Claimed, Parses, Extends
<1>3. QED
  BY <1>1, <1>2

AtTheConfig == {"init", "set"}

\* Where a command, at j after its step, may be.
Proceeds(p, j) ==
  /\ job' = [job EXCEPT ![p] = j]
  /\ scaffold \subseteq scaffold'
  /\ j.step \in Entitled => Claimed(identities', j.ns, j.dir) \/ told'[j.dir] = "touched"
  /\ j.step = "init" => j.dir \in scaffold' \/ told'[j.dir] = "touched"

\* What its step may do to the config of a project and to what is told of it.
Leaves(p, d)  == job[p].dir = d /\ job[p].step \in AtTheConfig
Enters(j, d)  == j.dir = d /\ j.step \in AtTheConfig
Keeps(p, j, d) == told'[d] = told[d] /\ config'[d] = config[d] /\ (Leaves(p, d) => Enters(j, d))
Forgets(d)    == told'[d] = "touched" \/ (told'[d] = "none" /\ ~ Busy(d))
Empties(j, d) == told'[d] = told[d] /\ Enters(j, d)
Writes(p, d)  ==
  /\ Leaves(p, d)
  /\ told'[d] = told[d] \/ (told'[d] = "ready" /\ told[d] # "touched" /\ job[p].step = "init")
  /\ d \in scaffold => config'[d] = job[p].ns

Tells(p, j) ==
  \A d \in Dir : Keeps(p, j, d) \/ Forgets(d) \/ Empties(j, d) \/ Writes(p, d)

ProjectStep(p, j) ==
  /\ MapInv /\ ProjectsInv /\ SetupNext /\ hand' = hand
  /\ p \in Command /\ Proceeds(p, j) /\ Tells(p, j)

LEMMA OthersStay ==
  ASSUME NEW p, NEW j, ProjectStep(p, j)
  PROVE  job'[p] = j /\ \A q \in Command : q # p => job'[q] = job[q]
BY DEF ProjectStep, MapInv, RegistrationTypes, Proceeds

LEMMA RightfulStep ==
  ASSUME NEW p, NEW j, ProjectStep(p, j)
  PROVE  Rightful'
<1>1. job'[p] = j /\ \A q \in Command : q # p => job'[q] = job[q]
  BY OthersStay
<1>2. SUFFICES ASSUME NEW q \in Command, NEW d \in Dir, job'[q].dir = d, told'[d] # "touched"
               PROVE  /\ job'[q].step \in Entitled => Claimed(identities', job'[q].ns, d)
                      /\ job'[q].step = "init" => d \in scaffold'
  BY DEF Rightful, Entitled
<1>3. CASE q = p
  BY <1>1, <1>2, <1>3 DEF ProjectStep, Proceeds
<1>4. CASE q # p
  <2>1. job'[q] = job[q]
    BY <1>1, <1>4
  <2>2. CASE told[d] # "touched"
    <3>1. /\ job[q].step \in Entitled => Claimed(identities, job[q].ns, d)
          /\ job[q].step = "init" => d \in scaffold
      BY <1>2, <2>1, <2>2 DEF ProjectStep, ProjectsInv, Rightful, Entitled
    <3>2. Claimed(identities, job[q].ns, d) => Claimed(identities', job[q].ns, d)
      BY ClaimsStay DEF ProjectStep
    <3>3. QED
      BY <2>1, <3>1, <3>2 DEF ProjectStep, Proceeds
  <2>3. CASE told[d] = "touched"
    <3>1. ~ Busy(d)
      BY <1>2, <2>3 DEF ProjectStep, Tells, Keeps, Forgets, Empties, Writes
    <3>2. job'[q].step = "idle"
      BY <1>2, <2>1, <3>1 DEF Busy, At
    <3>3. QED
      BY <3>2 DEF Entitled
  <2>4. QED
    BY <2>2, <2>3
<1>5. QED
  BY <1>3, <1>4

LEMMA ReadyStep ==
  ASSUME NEW p, NEW j, ProjectStep(p, j)
  PROVE  Ready'
<1>1. job'[p] = j /\ \A q \in Command : q # p => job'[q] = job[q]
  BY OthersStay
<1>2. SUFFICES ASSUME NEW d \in Dir, told'[d] = "ready"
               PROVE  /\ d \in scaffold'
                      /\ \/ \E q \in Command : job'[q].dir = d /\ job'[q].step \in AtTheConfig
                         \/ config'[d] \in Ns /\ Claimed(identities', config'[d], d)
  BY DEF Ready, AtTheConfig
<1>3. \A n : Claimed(identities, n, d) => Claimed(identities', n, d)
  BY ClaimsStay DEF ProjectStep
<1>4. p \in Command /\ scaffold \subseteq scaffold' /\ Rightful /\ Ready
  BY DEF ProjectStep, ProjectsInv, Proceeds
<1>5. CASE Keeps(p, j, d)
  BY <1>1, <1>2, <1>3, <1>4, <1>5 DEF Keeps, Ready, Leaves, Enters, AtTheConfig
<1>6. CASE Empties(j, d)
  BY <1>1, <1>2, <1>4, <1>6 DEF Empties, Ready, Enters
<1>7. CASE Writes(p, d)
  <2>1. told[d] # "touched" /\ (told[d] = "ready" \/ job[p].step = "init")
    BY <1>2, <1>7 DEF Writes
  <2>2. d \in scaffold
    BY <1>2, <1>4, <1>7, <2>1 DEF Writes, Leaves, Ready, Rightful
  <2>3. job[p].ns \in Ns
    BY <1>4, <1>7 DEF Writes, Leaves, AtTheConfig, ProjectStep, MapInv, Locked
  <2>4. CASE job[p].step = "init"
    BY <1>2, <1>3, <1>4, <1>7, <2>1, <2>2, <2>3, <2>4 DEF Writes, Leaves, Rightful, Entitled
  <2>5. CASE job[p].step = "set" /\ told[d] = "ready"
    BY <1>2, <1>3, <1>4, <1>7, <2>2, <2>3, <2>5 DEF Writes, Leaves, Rightful, Entitled
  <2>6. QED
    BY <1>7, <2>1, <2>4, <2>5 DEF Writes, Leaves, AtTheConfig
<1>8. QED
  BY <1>2, <1>5, <1>6, <1>7 DEF ProjectStep, Tells, Forgets

LEMMA ProjectStepKeeps ==
  ASSUME NEW p, NEW j, ProjectStep(p, j)
  PROVE  ProjectsInv'
BY RightfulStep, ReadyStep DEF ProjectsInv

LEMMA CommandKeeps ==
  ASSUME MapInv, ProjectsInv, SetupNext, NEW p \in Command,
         \/ \E d \in Dir, n \in Ns : BeginSet(p, d, n) \/ \E force \in BOOLEAN : BeginInit(p, d, n, force)
         \/ TakeLock(p) \/ GiveUpLock(p) \/ ReadMap(p) \/ RefuseClaim(p) \/ RenameDraft(p)
         \/ ReleaseLock(p) \/ MakeDirectories(p) \/ OpenNewConfig(p) \/ FinishInit(p)
         \/ OpenOldConfig(p) \/ FinishSet(p) \/ Crash(p)
  PROVE  ProjectsInv'
<1>0. RegistrationTypes /\ Locked /\ Drafted /\ job[p] \in Job /\ Rightful /\ Ready
  BY DEF MapInv, RegistrationTypes, ProjectsInv
<1>1. ASSUME NEW d \in Dir, NEW n \in Ns, NEW force \in BOOLEAN, BeginInit(p, d, n, force)
      PROVE  ProjectsInv'
  <2> DEFINE j == [NoJob EXCEPT !.step = "lock", !.dir = d, !.ns = n]
  <2>1. /\ job[p].step = "idle" /\ job' = [job EXCEPT ![p] = j]
        /\ UNCHANGED <<identities, scaffold, config, hand>>
        /\ told' = [told EXCEPT ![d] = IF told[d] = "touched" /\ ~ Busy(d) THEN "none" ELSE told[d]]
    BY <1>1 DEF BeginInit, Begins, At, project
  <2>2. j.step = "lock" /\ j.dir = d
    BY DEF NoJob
  <2>3. Proceeds(p, j)
    BY <2>1, <2>2 DEF Proceeds, Entitled
  <2>4. Tells(p, j)
    BY <1>0, <2>1 DEF Tells, Keeps, Forgets, Leaves, AtTheConfig, RegistrationTypes
  <2>5. QED
    BY <2>1, <2>3, <2>4, ProjectStepKeeps DEF ProjectStep
<1>2. ASSUME NEW d \in Dir, NEW n \in Ns, BeginSet(p, d, n)
      PROVE  ProjectsInv'
  <2> DEFINE j == [NoJob EXCEPT !.step = "change", !.dir = d, !.ns = n]
  <2>1. /\ job[p].step = "idle" /\ job' = [job EXCEPT ![p] = j]
        /\ Parses(identities) /\ Owners(identities, d) = {n}
        /\ UNCHANGED <<identities, scaffold, config, hand>>
        /\ told' = [told EXCEPT ![d] = IF d \in identities[n].registrations THEN @ ELSE "touched"]
    BY <1>2 DEF BeginSet, Begins, At, project, Resolves
  <2>2. j.step = "change" /\ j.dir = d /\ j.ns = n
    BY DEF NoJob
  <2>3. Claimed(identities, n, d) \/ told'[d] = "touched"
    <3>1. n \in DOMAIN identities /\ identities \in Map
      BY <2>1 DEF Owners, Parses
    <3>2. QED
      BY <1>0, <2>1, <3>1 DEF Claimed, RegistrationTypes
  <2>4. Proceeds(p, j)
    BY <2>1, <2>2, <2>3 DEF Proceeds
  <2>5. Tells(p, j)
    BY <1>0, <2>1 DEF Tells, Keeps, Forgets, Leaves, AtTheConfig, RegistrationTypes
  <2>6. QED
    BY <2>1, <2>4, <2>5, ProjectStepKeeps DEF ProjectStep
\* A job that ends, or goes on with nothing written to the config.
<1>3. ASSUME UNCHANGED <<config, told, hand>>, scaffold \subseteq scaffold',
             job[p].step \notin AtTheConfig, job' = [job EXCEPT ![p] = NoJob]
      PROVE  ProjectsInv'
  <2>1. Proceeds(p, NoJob)
    BY <1>3, NoJobFacts DEF Proceeds, Entitled
  <2>2. Tells(p, NoJob)
    BY <1>3 DEF Tells, Keeps, Leaves
  <2>3. QED
    BY <1>3, <2>1, <2>2, ProjectStepKeeps DEF ProjectStep
<1>4. ASSUME UNCHANGED <<config, told, hand>>, scaffold \subseteq scaffold',
             job[p].step \notin AtTheConfig \cup {"idle"},
             NEW j \in Job, j.step # "init", j.dir = job[p].dir, j.ns = job[p].ns,
             job' = [job EXCEPT ![p] = j],
             j.step \in Entitled =>
               job[p].step \in Entitled \/ Claimed(identities', job[p].ns, job[p].dir)
      PROVE  ProjectsInv'
  <2>1. job[p].dir \in Dir
    BY <1>0, <1>4 DEF Locked
  <2>2. job[p].step \in Entitled /\ told[job[p].dir] # "touched" => Claimed(identities', job[p].ns, job[p].dir)
    BY <1>0, <1>4, <2>1, ClaimsStay DEF Rightful, Entitled
  <2>3. Proceeds(p, j)
    BY <1>4, <2>2 DEF Proceeds
  <2>4. Tells(p, j)
    BY <1>4 DEF Tells, Keeps, Leaves
  <2>5. QED
    BY <1>4, <2>3, <2>4, ProjectStepKeeps DEF ProjectStep
<1>5. CASE TakeLock(p)
  <2> DEFINE j == [job[p] EXCEPT !.step = "read"]
  <2>1. /\ j \in Job /\ j.step = "read" /\ j.dir = job[p].dir /\ j.ns = job[p].ns
        /\ job' = [job EXCEPT ![p] = j] /\ job[p].step = "lock"
        /\ UNCHANGED <<scaffold, config, told, hand>>
    BY <1>0, <1>5 DEF TakeLock, Job, Steps, At, Goes, project, RegistrationTypes
  <2>2. QED
    BY <1>4, <2>1 DEF AtTheConfig, Entitled
<1>6. CASE GiveUpLock(p) \/ RefuseClaim(p)
  <2>1. /\ job[p].step \in {"lock", "read"} /\ job' = [job EXCEPT ![p] = NoJob]
        /\ UNCHANGED <<scaffold, config, told, hand>>
    BY <1>6 DEF GiveUpLock, RefuseClaim, At, Ends, project
  <2>2. QED
    BY <1>3, <2>1 DEF AtTheConfig
<1>7. CASE ReadMap(p)
  <2> DEFINE d == Registered(Entries(identities), job[p].ns, job[p].dir)
             j == [job[p] EXCEPT !.step = "rename", !.draft = d]
  <2>1. MapInv'
    BY <1>7, CommandStep
  <2>2. /\ j.step = "rename" /\ j.dir = job[p].dir /\ j.ns = job[p].ns
        /\ job' = [job EXCEPT ![p] = j] /\ job[p].step = "read"
        /\ UNCHANGED <<scaffold, config, told, hand>>
    BY <1>0, <1>7 DEF ReadMap, Job, At, project, RegistrationTypes
  <2>3. j \in Job
    BY <1>0, <2>1, <2>2 DEF MapInv, RegistrationTypes
  <2>4. QED
    BY <1>4, <2>2, <2>3 DEF AtTheConfig, Entitled
<1>8. CASE RenameDraft(p)
  <2> DEFINE j == [job[p] EXCEPT !.step = "release", !.draft = EmptyMap]
  <2>1. /\ j \in Job /\ j.step = "release" /\ j.dir = job[p].dir /\ j.ns = job[p].ns
        /\ job' = [job EXCEPT ![p] = j] /\ job[p].step = "rename" /\ identities' = job[p].draft
        /\ UNCHANGED <<scaffold, config, told, hand>>
    BY <1>0, <1>8, EmptyFacts DEF RenameDraft, Job, Steps, At, project, RegistrationTypes
  <2>2. Claimed(identities', job[p].ns, job[p].dir)
    BY <1>0, <2>1 DEF Drafted, Claimed, Parses
  <2>3. QED
    BY <1>4, <2>1, <2>2 DEF AtTheConfig, Entitled
<1>9. CASE ReleaseLock(p)
  <2> DEFINE j == [job[p] EXCEPT !.step = "scaffold"]
  <2>1. /\ j \in Job /\ j.step = "scaffold" /\ j.dir = job[p].dir /\ j.ns = job[p].ns
        /\ job' = [job EXCEPT ![p] = j] /\ job[p].step = "release"
        /\ UNCHANGED <<scaffold, config, told, hand>>
    BY <1>0, <1>9 DEF ReleaseLock, Job, Steps, At, Goes, project, RegistrationTypes
  <2>2. QED
    BY <1>4, <2>1 DEF AtTheConfig, Entitled
<1>10. CASE MakeDirectories(p)
  <2> DEFINE j == [job[p] EXCEPT !.step = "config"]
  <2>1. /\ j \in Job /\ j.step = "config" /\ j.dir = job[p].dir /\ j.ns = job[p].ns
        /\ job' = [job EXCEPT ![p] = j] /\ job[p].step = "scaffold"
        /\ UNCHANGED <<config, told, hand>> /\ scaffold \subseteq scaffold'
    BY <1>0, <1>10 DEF MakeDirectories, Job, Steps, At, Goes, RegistrationTypes
  <2>2. QED
    BY <1>4, <2>1 DEF AtTheConfig, Entitled
\* A config is emptied, and is written.
<1>11. ASSUME NEW here \in {"config", "change"}, NEW there \in {"init", "set"},
              here = "config" <=> there = "init", OpenConfig(p, here, there)
       PROVE  ProjectsInv'
  <2>1. job[p].step = here /\ UNCHANGED <<identities, scaffold, told, hand>> /\ job[p].dir \in Dir
    BY <1>0, <1>11 DEF OpenConfig, At, Locked
  <2>2. CASE job[p].dir \notin scaffold
    BY <1>3, <1>11, <2>1, <2>2 DEF OpenConfig, Ends, AtTheConfig
  <2>3. CASE job[p].dir \in scaffold
    <3> DEFINE j == [job[p] EXCEPT !.step = there]
    <3>1. j.step = there /\ j.dir = job[p].dir /\ j.ns = job[p].ns /\ job' = [job EXCEPT ![p] = j]
      BY <1>0, <1>11, <2>3 DEF OpenConfig, Goes, Job, RegistrationTypes
    <3>2. \A d \in Dir : d # job[p].dir => config'[d] = config[d]
      BY <1>0, <1>11, <2>3 DEF OpenConfig, RegistrationTypes
    <3>3. job[p].step \in Entitled /\ told[job[p].dir] # "touched" =>
            Claimed(identities', job[p].ns, job[p].dir)
      BY <1>0, <2>1 DEF Rightful, Entitled
    <3>4. Proceeds(p, j)
      BY <1>11, <2>1, <2>3, <3>1, <3>3 DEF Proceeds, Entitled
    <3>5. Tells(p, j)
      BY <1>11, <2>1, <3>1, <3>2 DEF Tells, Keeps, Empties, Leaves, Enters, AtTheConfig
    <3>6. QED
      BY <2>1, <3>4, <3>5, ProjectStepKeeps DEF ProjectStep
  <2>4. QED
    BY <2>2, <2>3
<1>12. CASE FinishInit(p) \/ FinishSet(p)
  <2>1. /\ job[p].step \in AtTheConfig /\ job' = [job EXCEPT ![p] = NoJob] /\ WriteConfig(p)
        /\ UNCHANGED <<scaffold, hand>>
        /\ \/ told' = told
           \/ /\ job[p].step = "init"
              /\ told' = [told EXCEPT ![job[p].dir] = IF @ = "touched" THEN @ ELSE "ready"]
    BY <1>12 DEF FinishInit, FinishSet, At, Ends, AtTheConfig
  <2>2. Proceeds(p, NoJob)
    BY <2>1, NoJobFacts DEF Proceeds, Entitled
  <2>3. Tells(p, NoJob)
    <3>1. SUFFICES ASSUME NEW d \in Dir
                   PROVE  Keeps(p, NoJob, d) \/ Writes(p, d)
      BY DEF Tells
    <3>2. CASE d = job[p].dir
      BY <1>0, <2>1, <3>2 DEF Writes, Leaves, WriteConfig, RegistrationTypes
    <3>3. CASE d # job[p].dir
      BY <1>0, <2>1, <3>3 DEF Keeps, Leaves, WriteConfig, RegistrationTypes
    <3>4. QED
      BY <3>2, <3>3
  <2>4. QED
    BY <2>1, <2>2, <2>3, ProjectStepKeeps DEF ProjectStep
<1>13. CASE Crash(p)
  <2>1. /\ job' = [job EXCEPT ![p] = NoJob] /\ UNCHANGED <<scaffold, config, hand>>
        /\ told' = IF job[p].step \in AtTheConfig THEN [told EXCEPT ![job[p].dir] = "touched"] ELSE told
    BY <1>13 DEF Crash, Ends, AtTheConfig, project
  <2>2. Proceeds(p, NoJob)
    BY <2>1, NoJobFacts DEF Proceeds, Entitled
  <2>3. Tells(p, NoJob)
    BY <1>0, <2>1 DEF Tells, Keeps, Forgets, Leaves, RegistrationTypes
  <2>4. QED
    BY <2>1, <2>2, <2>3, ProjectStepKeeps DEF ProjectStep
<1>14. QED
  BY <1>1, <1>2, <1>5, <1>6, <1>7, <1>8, <1>9, <1>10, <1>11, <1>12, <1>13
     DEF OpenNewConfig, OpenOldConfig

\* A hand at a project leaves nothing to be said of it but "touched".
LEMMA HandKeeps ==
  ASSUME MapInv, ProjectsInv,
         \/ \E n \in Ns : Unlist(n) \/ \E d \in Dir : Enlist(n, d)
         \/ Misspell
         \/ \E d \in Dir : Wipe(d)
  PROVE  ProjectsInv'
<1>0. RegistrationTypes /\ Rightful /\ Ready
  BY DEF MapInv, ProjectsInv
<1>1. job' = job
  BY DEF Unlist, Enlist, Misspell, Wipe, ByHand
<1>2. \A d \in Dir : told'[d] # "touched" =>
        /\ told'[d] = told[d] /\ config'[d] = config[d] /\ (d \in scaffold => d \in scaffold')
        /\ \A m : Claimed(identities, m, d) => Claimed(identities', m, d)
  <2>1. ASSUME NEW n \in Ns, Unlist(n), NEW d \in Dir, told'[d] # "touched"
        PROVE  /\ told'[d] = told[d] /\ config'[d] = config[d] /\ (d \in scaffold => d \in scaffold')
               /\ \A m : Claimed(identities, m, d) => Claimed(identities', m, d)
    <3>1. /\ identities \in Map /\ identities' = [o \in DOMAIN identities \ {n} |-> identities[o]]
          /\ d \notin identities[n].registrations
          /\ told'[d] = told[d] /\ config'[d] = config[d] /\ (d \in scaffold => d \in scaffold')
      BY <2>1 DEF Unlist, project
    <3>2. identities' \in Map
      <4>1. DOMAIN identities \subseteq Ns /\ identities \in [DOMAIN identities -> Entry]
        BY <3>1, MapFacts
      <4>2. identities' \in [DOMAIN identities \ {n} -> Entry]
        BY <3>1, <4>1
      <4>3. QED
        BY <4>1, <4>2, IsMap
    <3>3. QED
      BY <3>1, <3>2, MapAssumption DEF Claimed
  <2>2. ASSUME NEW n \in Ns, NEW e \in Dir, Enlist(n, e), NEW d \in Dir
        PROVE  /\ told'[d] = told[d] /\ config'[d] = config[d] /\ (d \in scaffold => d \in scaffold')
               /\ \A m : Claimed(identities, m, d) => Claimed(identities', m, d)
    <3>1. /\ identities \in Map /\ identities' = [identities EXCEPT ![n].registrations = @ \cup {e}]
          /\ told'[d] = told[d] /\ config'[d] = config[d] /\ (d \in scaffold => d \in scaffold')
      BY <2>2 DEF Enlist, project
    <3>2. DOMAIN identities \subseteq Ns /\ identities \in [DOMAIN identities -> Entry]
      BY <3>1, MapFacts
    <3>3. identities' \in [DOMAIN identities -> Entry]
      BY <3>1, <3>2 DEF Entry
    <3>4. identities' \in Map
      BY <3>2, <3>3, IsMap
    <3>5. \A m \in DOMAIN identities : identities[m].registrations \subseteq identities'[m].registrations
      BY <3>1, <3>2 DEF Entry
    <3>6. QED
      BY <3>1, <3>2, <3>3, <3>4, <3>5, MapAssumption DEF Claimed
  <2>3. CASE Misspell
    BY <2>3 DEF Misspell, project, Claimed
  <2>4. ASSUME NEW e \in Dir, Wipe(e)
        PROVE  \A d \in Dir : told'[d] # "touched" =>
                 /\ told'[d] = told[d] /\ config'[d] = config[d] /\ (d \in scaffold => d \in scaffold')
                 /\ \A m : Claimed(identities, m, d) => Claimed(identities', m, d)
    BY <1>0, <2>4 DEF Wipe, RegistrationTypes
  <2>5. QED
    BY <2>1, <2>2, <2>3, <2>4
<1>3. Rightful'
  BY <1>0, <1>1, <1>2 DEF Rightful
<1>4. Ready'
  BY <1>0, <1>1, <1>2 DEF Ready
<1>5. QED
  BY <1>3, <1>4 DEF ProjectsInv

LEMMA ProjectsKept == MapInv /\ ProjectsInv /\ [SetupNext]_setupVars => ProjectsInv'
<1> SUFFICES ASSUME MapInv, ProjectsInv, [SetupNext]_setupVars PROVE ProjectsInv'
  OBVIOUS
<1>1. CASE UNCHANGED <<identities, scaffold, config, job, told>>
  BY <1>1 DEF ProjectsInv, Rightful, Ready
<1>2. CASE UNCHANGED registrationVars
  BY <1>1, <1>2 DEF registrationVars, project
<1>3. ASSUME NEW s \in Opener, NEW d \in Dir, NEW n \in Ns, StartService(s, d, n)
      PROVE  ProjectsInv'
  BY <1>1, <1>3 DEF StartService, project
<1>4. CASE SetupNext
  BY <1>2, <1>3, <1>4, CommandKeeps, HandKeeps DEF SetupNext, Only, Opens, WipeProject
<1>5. QED
  BY <1>2, <1>4 DEF setupVars

\* initCommand, configCommand: what an init said it set up, at the root of a repository
\* or outside of any, resolves to what its config names, whatever is run in its directory
\* or any other meanwhile, until a hand is at it, a process dies in it, or a `config --set`
\* finds the namespace of a directory above it (initCommand, configCommand).
THEOREM InitHolds == SetupSpec => []InitLeavesItWorking
<1>1. SetupInit => ProjectsInv
  <2>1. SUFFICES ASSUME SetupInit PROVE ProjectsInv
    OBVIOUS
  <2>2. \A p \in Command : job[p].step = "idle"
    BY <2>1, NoJobFacts DEF SetupInit
  <2>3. \A d \in Dir : told[d] = "none"
    BY <2>1 DEF SetupInit
  <2>4. QED
    BY <2>2, <2>3 DEF ProjectsInv, Rightful, Ready, Entitled
<1>2. ProjectsInv => InitLeavesItWorking
  <2>1. SUFFICES ASSUME Ready, NEW d \in Dir, told[d] = "ready", Home[d] = d, Parses(identities),
                        \A p \in Command : job[p].dir = d => job[p].step \notin {"init", "set"}
                 PROVE  Owners(identities, d) = {config[d]}
    BY DEF ProjectsInv, InitLeavesItWorking, Resolves
  <2>2. Claimed(identities, config[d], d)
    BY <2>1 DEF Ready
  <2>3. config[d] \in DOMAIN identities /\ d \in identities[config[d]].registrations
    BY <2>1, <2>2, MapAssumption DEF Claimed, Parses
  <2>4. QED
    BY <2>1, <2>3, OwnerFacts
<1>3. QED
  BY <1>1, <1>2, ProjectsKept, MapInvariance, PTL DEF SetupSpec
================================================================================
