-------------------------- MODULE ServiceSockets_proofs --------------------------
(***************************************************************************)
(* Proofs about ServiceSockets, for any number of processes and faults and *)
(* any overlap of starts and stops.                                        *)
(*                                                                         *)
(* Two facts carry them, for an address a process p has not bound in the   *)
(* way of another one.  While p listens there its socket lies there, and   *)
(* nobody has yet decided to unlink it (Kept).  As long as its socket lies *)
(* there, dead or alive, nobody else listens there nor is about to remove  *)
(* the claim, so the claim is p's once p has made it (Backed).             *)
(***************************************************************************)
EXTENDS ServiceSockets, TLAPS

USE ValueAssumption, BoundAssumption

Types ==
  /\ phase \in [Proc -> Booting \cup Stopping \cup {"off", "ready", "gone"}]
  /\ at \in [Proc -> Address]
  /\ listens \in [Proc -> SUBSET Address]
  /\ sock \in [Address -> Proc \cup {None}]
  /\ claim \in [Address -> Proc \cup {None}]
  /\ owned \in [Proc -> SUBSET Address]
  /\ pidFile \in Proc \cup {None}
  /\ cli \in {"idle", "read", "signal", "wait", "tidy"}
  /\ target \in Proc \cup {None}
  /\ cli = "signal" => target \in Proc
  /\ contested \in [Proc -> SUBSET Address]
  /\ faults \in 0..MaxFaults

\* What p has at each phase, whatever the others do.
Own(p) ==
  /\ phase[p] = "off" => owned[p] = {} /\ at[p] = "authority"
  /\ phase[p] \in {"off", "gone"} => listens[p] = {}
  /\ phase[p] = "off" => \A a \in Address : sock[a] # p
  /\ phase[p] \in Booting \ {"pid"} => at[p] \notin owned[p]
  /\ phase[p] \in Booting \ {"claim", "pid"} => at[p] \notin listens[p] /\ sock[at[p]] # p
  /\ phase[p] \in Booting /\ at[p] = "authority" =>
       owned[p] = {} /\ "transport" \notin listens[p] /\ sock["transport"] # p
  /\ phase[p] \in Booting /\ at[p] = "transport" => "authority" \in listens[p] \cap owned[p]
  /\ phase[p] = "claim" => at[p] \in listens[p]
  /\ phase[p] \in {"pid", "ready", "unpid"} =>
       at[p] = "transport" /\ listens[p] = Address /\ owned[p] = Address
  /\ phase[p] = "close" => {at[p], "authority"} \subseteq listens[p]
  /\ phase[p] \in {"finish", "release"} => at[p] \notin listens[p] /\ sock[at[p]] # p
  /\ phase[p] \in {"finish", "release"} /\ at[p] = "transport" => "authority" \in listens[p]

Kept(p, a) ==
  a \in listens[p] /\ a \notin contested[p] =>
    /\ sock[a] = p
    /\ \A q \in Proc \ {p} : at[q] = a => phase[q] \notin {"probe", "unlink"}

Backed(p, a) ==
  sock[a] = p /\ a \notin contested[p] =>
    /\ \A q \in Proc \ {p} : /\ a \notin listens[q]
                             /\ at[q] = a => phase[q] \notin {"unclaim", "finish", "release"}
    /\ a \in owned[p] => claim[a] = p

IInv ==
  /\ Types
  /\ \A p \in Proc : Own(p)
  /\ \A p \in Proc, a \in Address : Kept(p, a) /\ Backed(p, a)

--------------------------------------------------------------------------------
\* Types.
LEMMA TypesStep ==
  ASSUME IInv, [Next]_vars
  PROVE  Types'
<1> USE DEF IInv, Types, paths, command, Booting, Stopping, Address, Own
<1>1. ASSUME NEW p \in Proc, Start(p) PROVE Types'
  BY <1>1 DEF Start, Step
<1>2. ASSUME NEW p \in Proc, Look(p) PROVE Types'
  BY <1>2 DEF Look, Step
<1>3. ASSUME NEW p \in Proc, OwnerIsGone(p) PROVE Types'
  BY <1>3 DEF OwnerIsGone, Step
<1>4. ASSUME NEW p \in Proc, OwnerIsNotProvenGone(p) PROVE Types'
  BY <1>4 DEF OwnerIsNotProvenGone, Refuse
<1>5. ASSUME NEW p \in Proc, ProbeIsRefused(p) PROVE Types'
  BY <1>5 DEF ProbeIsRefused, Step
<1>6. ASSUME NEW p \in Proc, ProbeIsNotRefused(p) PROVE Types'
  BY <1>6 DEF ProbeIsNotRefused, Refuse
<1>7. ASSUME NEW p \in Proc, UnlinkSocket(p) PROVE Types'
  BY <1>7 DEF UnlinkSocket, Step
<1>8. ASSUME NEW p \in Proc, UnlinkFails(p) PROVE Types'
  BY <1>8 DEF UnlinkFails, Refuse, Fault
<1>9. ASSUME NEW p \in Proc, Unclaim(p) PROVE Types'
  BY <1>9 DEF Unclaim, Step
<1>10. ASSUME NEW p \in Proc, Bind(p) PROVE Types'
  BY <1>10 DEF Bind, Step
<1>11. ASSUME NEW p \in Proc, BindFails(p) PROVE Types'
  BY <1>11 DEF BindFails, Refuse, Fault
<1>12. ASSUME NEW p \in Proc, Claim(p) PROVE Types'
  BY <1>12 DEF Claim, Step
<1>13. ASSUME NEW p \in Proc, ClaimFails(p) PROVE Types'
  BY <1>13 DEF ClaimFails, Refuse, Fault
<1>14. ASSUME NEW p \in Proc, WritePid(p) PROVE Types'
  BY <1>14 DEF WritePid, Step
<1>15. ASSUME NEW p \in Proc, LateBootFails(p) PROVE Types'
  BY <1>15 DEF LateBootFails, Step, Fault
<1>16. ASSUME NEW p \in Proc, Stop(p) PROVE Types'
  BY <1>16 DEF Stop, Signalled
<1>17. ASSUME NEW p \in Proc, RemovePid(p) PROVE Types'
  BY <1>17 DEF RemovePid, Step
<1>18. ASSUME NEW p \in Proc, CloseServer(p) PROVE Types'
  BY <1>18 DEF CloseServer, Step
<1>19. ASSUME NEW p \in Proc, UnlinkAgain(p) PROVE Types'
  BY <1>19 DEF UnlinkAgain, Step
<1>20. ASSUME NEW p \in Proc, Release(p) PROVE Types'
  BY <1>20 DEF Release, Step
<1>21. ASSUME NEW p \in Proc, Crash(p) PROVE Types'
  BY <1>21 DEF Crash, Fault
<1>22. ASSUME AskHealth PROVE Types'
  BY <1>22 DEF AskHealth, Healthy, Answers
<1>23. ASSUME ReadPid PROVE Types'
  BY <1>23 DEF ReadPid
<1>24. ASSUME Signal PROVE Types'
  BY <1>24 DEF Signal, Signalled
<1>25. ASSUME Wait PROVE Types'
  BY <1>25 DEF Wait
<1>26. ASSUME GiveUpWaiting PROVE Types'
  BY <1>26 DEF GiveUpWaiting
<1>27. ASSUME Tidy PROVE Types'
  BY <1>27 DEF Tidy
<1>28. CASE UNCHANGED vars
  BY <1>28 DEF vars
<1>29. QED
  BY <1>1, <1>2, <1>3, <1>4, <1>5, <1>6, <1>7, <1>8, <1>9, <1>10, <1>11, <1>12, <1>13, <1>14, <1>15, <1>16, <1>17, <1>18, <1>19, <1>20, <1>21, <1>22, <1>23, <1>24, <1>25, <1>26, <1>27, <1>28
  DEF Next, Take, GiveUp, StopCommand

\* A signal leaves its process as it was, or unwinding with all it has, or gone.
LEMMA SignalOwn ==
  ASSUME IInv, Signal
  PROVE  \A o \in Proc : Own(o)'
<1>0. PICK t \in Proc : t = target
  BY DEF IInv, Types, Signal
<1>1. t \in Proc /\ Types
  BY DEF IInv
<1>2. UNCHANGED <<at, sock, owned>>
  BY DEF Signal, paths
<1>3. /\ \A o \in Proc \ {t} : phase'[o] = phase[o] /\ listens'[o] = listens[o]
      /\ phase'[t] = IF phase[t] = "ready" THEN "unpid"
                          ELSE IF Alive(t) THEN "gone" ELSE phase[t]
      /\ listens'[t] = IF phase'[t] = "unpid" THEN listens[t] ELSE {}
  BY <1>0, <1>1 DEF Signal, Signalled, Types
<1>4. \A o \in Proc : Own(o)
  BY DEF IInv
<1>5. ASSUME NEW o \in Proc \ {t} PROVE Own(o)'
  <2>1. Own(o) /\ phase'[o] = phase[o] /\ listens'[o] = listens[o]
    BY <1>3, <1>4
  <2>2. QED
    BY <2>1, <1>2 DEF Own, Booting
<1>6. Own(t)'
  <2>1. Own(t)
    BY <1>1, <1>4
  <2>2. CASE phase[t] = "ready"
    BY <1>2, <1>3, <2>1, <2>2 DEF Own, Booting
  <2>3. CASE phase[t] # "ready" /\ Alive(t)
    <3>1. phase'[t] = "gone" /\ listens'[t] = {}
      BY <1>3, <2>3
    <3>2. QED
      BY <3>1 DEF Own, Booting
  <2>4. CASE phase[t] # "ready" /\ ~ Alive(t)
    <3>1. phase[t] \in {"off", "gone"}
      BY <1>1, <2>4 DEF Alive, Types
    <3>2. phase'[t] = phase[t] /\ listens'[t] = {}
      BY <1>3, <2>4, <3>1
    <3>3. QED
      BY <1>2, <2>1, <3>1, <3>2 DEF Own, Booting
  <2>5. QED
    BY <2>2, <2>3, <2>4
<1>7. QED
  BY <1>5, <1>6

\* The phases.
LEMMA OwnStep ==
  ASSUME IInv, [Next]_vars
  PROVE  \A o \in Proc : Own(o)'
<1> USE DEF IInv, Types, paths, command, Booting, Stopping, Address, Own
<1>1. ASSUME NEW p \in Proc, Start(p) PROVE \A o \in Proc : Own(o)'
  BY <1>1 DEF Start, Step
<1>2. ASSUME NEW p \in Proc, Look(p) PROVE \A o \in Proc : Own(o)'
  BY <1>2 DEF Look, Step
<1>3. ASSUME NEW p \in Proc, OwnerIsGone(p) PROVE \A o \in Proc : Own(o)'
  BY <1>3 DEF OwnerIsGone, Step
<1>4. ASSUME NEW p \in Proc, OwnerIsNotProvenGone(p) PROVE \A o \in Proc : Own(o)'
  BY <1>4 DEF OwnerIsNotProvenGone, Refuse
<1>5. ASSUME NEW p \in Proc, ProbeIsRefused(p) PROVE \A o \in Proc : Own(o)'
  BY <1>5 DEF ProbeIsRefused, Step
<1>6. ASSUME NEW p \in Proc, ProbeIsNotRefused(p) PROVE \A o \in Proc : Own(o)'
  BY <1>6 DEF ProbeIsNotRefused, Refuse
<1>7. ASSUME NEW p \in Proc, UnlinkSocket(p) PROVE \A o \in Proc : Own(o)'
  BY <1>7 DEF UnlinkSocket, Step
<1>8. ASSUME NEW p \in Proc, UnlinkFails(p) PROVE \A o \in Proc : Own(o)'
  BY <1>8 DEF UnlinkFails, Refuse, Fault
<1>9. ASSUME NEW p \in Proc, Unclaim(p) PROVE \A o \in Proc : Own(o)'
  BY <1>9 DEF Unclaim, Step
<1>10. ASSUME NEW p \in Proc, Bind(p) PROVE \A o \in Proc : Own(o)'
  BY <1>10 DEF Bind, Step
<1>11. ASSUME NEW p \in Proc, BindFails(p) PROVE \A o \in Proc : Own(o)'
  BY <1>11 DEF BindFails, Refuse, Fault
<1>12. ASSUME NEW p \in Proc, Claim(p) PROVE \A o \in Proc : Own(o)'
  BY <1>12 DEF Claim, Step
<1>13. ASSUME NEW p \in Proc, ClaimFails(p) PROVE \A o \in Proc : Own(o)'
  BY <1>13 DEF ClaimFails, Refuse, Fault
<1>14. ASSUME NEW p \in Proc, WritePid(p) PROVE \A o \in Proc : Own(o)'
  BY <1>14 DEF WritePid, Step
<1>15. ASSUME NEW p \in Proc, LateBootFails(p) PROVE \A o \in Proc : Own(o)'
  BY <1>15 DEF LateBootFails, Step, Fault
<1>16. ASSUME NEW p \in Proc, Stop(p) PROVE \A o \in Proc : Own(o)'
  BY <1>16 DEF Stop, Signalled
<1>17. ASSUME NEW p \in Proc, RemovePid(p) PROVE \A o \in Proc : Own(o)'
  BY <1>17 DEF RemovePid, Step
<1>18. ASSUME NEW p \in Proc, CloseServer(p) PROVE \A o \in Proc : Own(o)'
  BY <1>18 DEF CloseServer, Step
<1>19. ASSUME NEW p \in Proc, UnlinkAgain(p) PROVE \A o \in Proc : Own(o)'
  BY <1>19 DEF UnlinkAgain, Step
<1>20. ASSUME NEW p \in Proc, Release(p) PROVE \A o \in Proc : Own(o)'
  BY <1>20 DEF Release, Step
<1>21. ASSUME NEW p \in Proc, Crash(p) PROVE \A o \in Proc : Own(o)'
  BY <1>21 DEF Crash, Fault
<1>22. ASSUME AskHealth PROVE \A o \in Proc : Own(o)'
  BY <1>22 DEF AskHealth, Healthy, Answers
<1>23. ASSUME ReadPid PROVE \A o \in Proc : Own(o)'
  BY <1>23 DEF ReadPid
<1>24. ASSUME Signal PROVE \A o \in Proc : Own(o)'
  BY <1>24, SignalOwn
<1>25. ASSUME Wait PROVE \A o \in Proc : Own(o)'
  BY <1>25 DEF Wait
<1>26. ASSUME GiveUpWaiting PROVE \A o \in Proc : Own(o)'
  BY <1>26 DEF GiveUpWaiting
<1>27. ASSUME Tidy PROVE \A o \in Proc : Own(o)'
  BY <1>27 DEF Tidy
<1>28. CASE UNCHANGED vars
  BY <1>28 DEF vars
<1>29. QED
  BY <1>1, <1>2, <1>3, <1>4, <1>5, <1>6, <1>7, <1>8, <1>9, <1>10, <1>11, <1>12, <1>13, <1>14, <1>15, <1>16, <1>17, <1>18, <1>19, <1>20, <1>21, <1>22, <1>23, <1>24, <1>25, <1>26, <1>27, <1>28
  DEF Next, Take, GiveUp, StopCommand

\* Whoever closes a server at an address closes its own socket, or that of nobody else
\* who has it uncontested.
LEMMA CloseServerKept ==
  ASSUME IInv, NEW p \in Proc, CloseServer(p)
  PROVE  \A o \in Proc, a \in Address : Kept(o, a)'
<1>1. Types /\ Own(p)
  BY DEF IInv
<1>2. UNCHANGED <<at, contested>>
  BY DEF CloseServer
<1>3. /\ phase[p] = "close" /\ phase' = [phase EXCEPT ![p] = "finish"]
      /\ listens' = [listens EXCEPT ![p] = @ \ {at[p]}]
      /\ sock' = [sock EXCEPT ![at[p]] = None]
  BY DEF CloseServer, Step
<1>4. at[p] \in listens[p] /\ at[p] \in Address
  BY <1>1, <1>3 DEF Own, Types
<1>5. ASSUME NEW o \in Proc, NEW a \in Address, a \in listens'[o], a \notin contested[o]
      PROVE  /\ sock'[a] = o
             /\ \A q \in Proc \ {o} : at[q] = a => phase'[q] \notin {"probe", "unlink"}
  <2>1. a \in listens[o] /\ (o = p => a # at[p])
    BY <1>1, <1>3, <1>5 DEF Types
  <2>2. Kept(o, a)
    BY DEF IInv
  <2>3. /\ sock[a] = o
        /\ \A q \in Proc \ {o} : at[q] = a => phase[q] \notin {"probe", "unlink"}
    BY <1>5, <2>1, <2>2 DEF Kept
  <2>4. o # p => a # at[p]
    <3>1. Backed(o, a)
      BY DEF IInv
    <3>2. QED
      BY <1>4, <1>5, <2>3, <3>1 DEF Backed
  <2>5. sock'[a] = o
    BY <1>1, <1>3, <2>1, <2>3, <2>4 DEF Types
  <2>6. \A q \in Proc : phase'[q] = phase[q] \/ phase'[q] = "finish"
    BY <1>1, <1>3 DEF Types
  <2>7. QED
    BY <2>3, <2>5, <2>6
<1>6. QED
  BY <1>2, <1>5 DEF Kept

\* The sockets of those that listen.
LEMMA KeptStep ==
  ASSUME IInv, [Next]_vars
  PROVE  \A o \in Proc, a \in Address : Kept(o, a)'
<1> USE DEF IInv, Types, paths, command, Booting, Stopping, Address, Own, Kept, Backed
<1>1. ASSUME NEW p \in Proc, Start(p) PROVE \A o \in Proc, a \in Address : Kept(o, a)'
  BY <1>1 DEF Start, Step
<1>2. ASSUME NEW p \in Proc, Look(p) PROVE \A o \in Proc, a \in Address : Kept(o, a)'
  BY <1>2 DEF Look, Step
<1>3. ASSUME NEW p \in Proc, OwnerIsGone(p) PROVE \A o \in Proc, a \in Address : Kept(o, a)'
  BY <1>3 DEF OwnerIsGone, Step
<1>4. ASSUME NEW p \in Proc, OwnerIsNotProvenGone(p) PROVE \A o \in Proc, a \in Address : Kept(o, a)'
  BY <1>4 DEF OwnerIsNotProvenGone, Refuse
<1>5. ASSUME NEW p \in Proc, ProbeIsRefused(p) PROVE \A o \in Proc, a \in Address : Kept(o, a)'
  BY <1>5 DEF ProbeIsRefused, Step
<1>6. ASSUME NEW p \in Proc, ProbeIsNotRefused(p) PROVE \A o \in Proc, a \in Address : Kept(o, a)'
  BY <1>6 DEF ProbeIsNotRefused, Refuse
<1>7. ASSUME NEW p \in Proc, UnlinkSocket(p) PROVE \A o \in Proc, a \in Address : Kept(o, a)'
  BY <1>7 DEF UnlinkSocket, Step
<1>8. ASSUME NEW p \in Proc, UnlinkFails(p) PROVE \A o \in Proc, a \in Address : Kept(o, a)'
  BY <1>8 DEF UnlinkFails, Refuse, Fault
<1>9. ASSUME NEW p \in Proc, Unclaim(p) PROVE \A o \in Proc, a \in Address : Kept(o, a)'
  BY <1>9 DEF Unclaim, Step
<1>10. ASSUME NEW p \in Proc, Bind(p) PROVE \A o \in Proc, a \in Address : Kept(o, a)'
  BY <1>10 DEF Bind, Step, Rivals, WillRemove
<1>11. ASSUME NEW p \in Proc, BindFails(p) PROVE \A o \in Proc, a \in Address : Kept(o, a)'
  BY <1>11 DEF BindFails, Refuse, Fault
<1>12. ASSUME NEW p \in Proc, Claim(p) PROVE \A o \in Proc, a \in Address : Kept(o, a)'
  BY <1>12 DEF Claim, Step
<1>13. ASSUME NEW p \in Proc, ClaimFails(p) PROVE \A o \in Proc, a \in Address : Kept(o, a)'
  BY <1>13 DEF ClaimFails, Refuse, Fault
<1>14. ASSUME NEW p \in Proc, WritePid(p) PROVE \A o \in Proc, a \in Address : Kept(o, a)'
  BY <1>14 DEF WritePid, Step
<1>15. ASSUME NEW p \in Proc, LateBootFails(p) PROVE \A o \in Proc, a \in Address : Kept(o, a)'
  BY <1>15 DEF LateBootFails, Step, Fault
<1>16. ASSUME NEW p \in Proc, Stop(p) PROVE \A o \in Proc, a \in Address : Kept(o, a)'
  BY <1>16 DEF Stop, Signalled
<1>17. ASSUME NEW p \in Proc, RemovePid(p) PROVE \A o \in Proc, a \in Address : Kept(o, a)'
  BY <1>17 DEF RemovePid, Step
<1>18. ASSUME NEW p \in Proc, CloseServer(p) PROVE \A o \in Proc, a \in Address : Kept(o, a)'
  BY <1>18, CloseServerKept
<1>19. ASSUME NEW p \in Proc, UnlinkAgain(p) PROVE \A o \in Proc, a \in Address : Kept(o, a)'
  BY <1>19 DEF UnlinkAgain, Step
<1>20. ASSUME NEW p \in Proc, Release(p) PROVE \A o \in Proc, a \in Address : Kept(o, a)'
  BY <1>20 DEF Release, Step
<1>21. ASSUME NEW p \in Proc, Crash(p) PROVE \A o \in Proc, a \in Address : Kept(o, a)'
  BY <1>21 DEF Crash, Fault
<1>22. ASSUME AskHealth PROVE \A o \in Proc, a \in Address : Kept(o, a)'
  BY <1>22 DEF AskHealth, Healthy, Answers
<1>23. ASSUME ReadPid PROVE \A o \in Proc, a \in Address : Kept(o, a)'
  BY <1>23 DEF ReadPid
<1>24. ASSUME Signal PROVE \A o \in Proc, a \in Address : Kept(o, a)'
  BY <1>24 DEF Signal, Signalled
<1>25. ASSUME Wait PROVE \A o \in Proc, a \in Address : Kept(o, a)'
  BY <1>25 DEF Wait
<1>26. ASSUME GiveUpWaiting PROVE \A o \in Proc, a \in Address : Kept(o, a)'
  BY <1>26 DEF GiveUpWaiting
<1>27. ASSUME Tidy PROVE \A o \in Proc, a \in Address : Kept(o, a)'
  BY <1>27 DEF Tidy
<1>28. CASE UNCHANGED vars
  BY <1>28 DEF vars
<1>29. QED
  BY <1>1, <1>2, <1>3, <1>4, <1>5, <1>6, <1>7, <1>8, <1>9, <1>10, <1>11, <1>12, <1>13, <1>14, <1>15, <1>16, <1>17, <1>18, <1>19, <1>20, <1>21, <1>22, <1>23, <1>24, <1>25, <1>26, <1>27, <1>28
  DEF Next, Take, GiveUp, StopCommand

\* A claim is written for an address at which its process listens.
LEMMA ClaimBacked ==
  ASSUME IInv, NEW p \in Proc, Claim(p)
  PROVE  \A o \in Proc, a \in Address : Backed(o, a)'
<1>1. Types /\ Own(p)
  BY DEF IInv
<1>2. UNCHANGED <<listens, sock, contested>>
  BY DEF Claim
<1>3. /\ phase[p] = "claim"
      /\ \A q \in Proc \ {p} : phase'[q] = phase[q] /\ at'[q] = at[q] /\ owned'[q] = owned[q]
      /\ phase'[p] \in {"look", "pid"}
      /\ claim' = [claim EXCEPT ![at[p]] = p]
      /\ owned'[p] = owned[p] \cup {at[p]}
  BY <1>1 DEF Claim, Step, Types
<1>4. at[p] \in listens[p] /\ at[p] \in Address
  BY <1>1, <1>3 DEF Own, Types
<1>5. ASSUME NEW o \in Proc, NEW a \in Address, sock[a] = o, a \notin contested[o]
      PROVE  /\ \A q \in Proc \ {o} : /\ a \notin listens[q]
                                      /\ at'[q] = a => phase'[q] \notin {"unclaim", "finish", "release"}
             /\ a \in owned'[o] => claim'[a] = o
  <2>1. /\ \A q \in Proc \ {o} : /\ a \notin listens[q]
                                 /\ at[q] = a => phase[q] \notin {"unclaim", "finish", "release"}
        /\ a \in owned[o] => claim[a] = o
    <3>1. Backed(o, a)
      BY DEF IInv
    <3>2. QED
      BY <1>5, <3>1 DEF Backed
  <2>2. \A q \in Proc \ {o} : at'[q] = a => phase'[q] \notin {"unclaim", "finish", "release"}
    BY <1>3, <2>1
  <2>3. o # p => a # at[p]
    BY <1>4, <2>1
  <2>4. a \in owned'[o] => claim'[a] = o
    BY <1>1, <1>3, <1>4, <2>1, <2>3 DEF Types
  <2>5. QED
    BY <2>1, <2>2, <2>4
<1>6. QED
  BY <1>2, <1>5 DEF Backed

\* The claims beside the sockets.
LEMMA BackedStep ==
  ASSUME IInv, [Next]_vars
  PROVE  \A o \in Proc, a \in Address : Backed(o, a)'
<1> USE DEF IInv, Types, paths, command, Booting, Stopping, Address, Own, Kept, Backed
<1>1. ASSUME NEW p \in Proc, Start(p) PROVE \A o \in Proc, a \in Address : Backed(o, a)'
  BY <1>1 DEF Start, Step
<1>2. ASSUME NEW p \in Proc, Look(p) PROVE \A o \in Proc, a \in Address : Backed(o, a)'
  BY <1>2 DEF Look, Step
<1>3. ASSUME NEW p \in Proc, OwnerIsGone(p) PROVE \A o \in Proc, a \in Address : Backed(o, a)'
  BY <1>3 DEF OwnerIsGone, Step
<1>4. ASSUME NEW p \in Proc, OwnerIsNotProvenGone(p) PROVE \A o \in Proc, a \in Address : Backed(o, a)'
  BY <1>4 DEF OwnerIsNotProvenGone, Refuse
<1>5. ASSUME NEW p \in Proc, ProbeIsRefused(p) PROVE \A o \in Proc, a \in Address : Backed(o, a)'
  BY <1>5 DEF ProbeIsRefused, Step
<1>6. ASSUME NEW p \in Proc, ProbeIsNotRefused(p) PROVE \A o \in Proc, a \in Address : Backed(o, a)'
  BY <1>6 DEF ProbeIsNotRefused, Refuse
<1>7. ASSUME NEW p \in Proc, UnlinkSocket(p) PROVE \A o \in Proc, a \in Address : Backed(o, a)'
  BY <1>7 DEF UnlinkSocket, Step
<1>8. ASSUME NEW p \in Proc, UnlinkFails(p) PROVE \A o \in Proc, a \in Address : Backed(o, a)'
  BY <1>8 DEF UnlinkFails, Refuse, Fault
<1>9. ASSUME NEW p \in Proc, Unclaim(p) PROVE \A o \in Proc, a \in Address : Backed(o, a)'
  BY <1>9 DEF Unclaim, Step
<1>10. ASSUME NEW p \in Proc, Bind(p) PROVE \A o \in Proc, a \in Address : Backed(o, a)'
  BY <1>10 DEF Bind, Step, Rivals, WillRemove
<1>11. ASSUME NEW p \in Proc, BindFails(p) PROVE \A o \in Proc, a \in Address : Backed(o, a)'
  BY <1>11 DEF BindFails, Refuse, Fault
<1>12. ASSUME NEW p \in Proc, Claim(p) PROVE \A o \in Proc, a \in Address : Backed(o, a)'
  BY <1>12, ClaimBacked
<1>13. ASSUME NEW p \in Proc, ClaimFails(p) PROVE \A o \in Proc, a \in Address : Backed(o, a)'
  BY <1>13 DEF ClaimFails, Refuse, Fault
<1>14. ASSUME NEW p \in Proc, WritePid(p) PROVE \A o \in Proc, a \in Address : Backed(o, a)'
  BY <1>14 DEF WritePid, Step
<1>15. ASSUME NEW p \in Proc, LateBootFails(p) PROVE \A o \in Proc, a \in Address : Backed(o, a)'
  BY <1>15 DEF LateBootFails, Step, Fault
<1>16. ASSUME NEW p \in Proc, Stop(p) PROVE \A o \in Proc, a \in Address : Backed(o, a)'
  BY <1>16 DEF Stop, Signalled
<1>17. ASSUME NEW p \in Proc, RemovePid(p) PROVE \A o \in Proc, a \in Address : Backed(o, a)'
  BY <1>17 DEF RemovePid, Step
<1>18. ASSUME NEW p \in Proc, CloseServer(p) PROVE \A o \in Proc, a \in Address : Backed(o, a)'
  BY <1>18 DEF CloseServer, Step
<1>19. ASSUME NEW p \in Proc, UnlinkAgain(p) PROVE \A o \in Proc, a \in Address : Backed(o, a)'
  BY <1>19 DEF UnlinkAgain, Step
<1>20. ASSUME NEW p \in Proc, Release(p) PROVE \A o \in Proc, a \in Address : Backed(o, a)'
  BY <1>20 DEF Release, Step
<1>21. ASSUME NEW p \in Proc, Crash(p) PROVE \A o \in Proc, a \in Address : Backed(o, a)'
  BY <1>21 DEF Crash, Fault
<1>22. ASSUME AskHealth PROVE \A o \in Proc, a \in Address : Backed(o, a)'
  BY <1>22 DEF AskHealth, Healthy, Answers
<1>23. ASSUME ReadPid PROVE \A o \in Proc, a \in Address : Backed(o, a)'
  BY <1>23 DEF ReadPid
<1>24. ASSUME Signal PROVE \A o \in Proc, a \in Address : Backed(o, a)'
  BY <1>24 DEF Signal, Signalled
<1>25. ASSUME Wait PROVE \A o \in Proc, a \in Address : Backed(o, a)'
  BY <1>25 DEF Wait
<1>26. ASSUME GiveUpWaiting PROVE \A o \in Proc, a \in Address : Backed(o, a)'
  BY <1>26 DEF GiveUpWaiting
<1>27. ASSUME Tidy PROVE \A o \in Proc, a \in Address : Backed(o, a)'
  BY <1>27 DEF Tidy
<1>28. CASE UNCHANGED vars
  BY <1>28 DEF vars
<1>29. QED
  BY <1>1, <1>2, <1>3, <1>4, <1>5, <1>6, <1>7, <1>8, <1>9, <1>10, <1>11, <1>12, <1>13, <1>14, <1>15, <1>16, <1>17, <1>18, <1>19, <1>20, <1>21, <1>22, <1>23, <1>24, <1>25, <1>26, <1>27, <1>28
  DEF Next, Take, GiveUp, StopCommand

LEMMA Initially == Init => IInv
  BY DEF Init, IInv, Types, Own, Kept, Backed, Booting, Stopping, Address

LEMMA Invariance == Spec => []IInv
<1>1. IInv /\ [Next]_vars => IInv'
  <2> SUFFICES ASSUME IInv, [Next]_vars PROVE IInv'
    OBVIOUS
  <2>1. IInv' <=> /\ Types' /\ (\A o \in Proc : Own(o)')
                  /\ \A o \in Proc, a \in Address : Kept(o, a)' /\ Backed(o, a)'
    BY DEF IInv
  <2>2. QED
    BY <2>1, TypesStep, OwnStep, KeptStep, BackedStep
<1>2. QED
  BY Initially, <1>1, PTL DEF Spec

--------------------------------------------------------------------------------
\* Types; a service that is up listens at both addresses, one that is gone at none.
THEOREM TypeCorrect == Spec => []TypeOK
<1>1. ASSUME IInv PROVE TypeOK
  BY <1>1 DEF IInv, Types, Own, TypeOK
<1>2. QED
  BY <1>1, Invariance, PTL

\* A service that is up keeps the addresses and claims that it has not bound in the way
\* of another process, however starts and stops overlap (clearStaleSocket,
\* reclaimSocketPath, unlinkSocketAddress, unwind).
THEOREM NothingIsStolen == Spec => []ServiceIsKept
<1>1. ASSUME IInv PROVE ServiceIsKept
  BY <1>1 DEF IInv, Own, Kept, Backed, ServiceIsKept
<1>2. QED
  BY <1>1, Invariance, PTL

\* What a dead service had claimed, and had not bound in the way of another process, can
\* be reclaimed (unlinkSocketAddress, claimSocketAddress).
THEOREM NothingIsOrphaned == Spec => []LeftoversAreReclaimable
<1>1. ASSUME IInv PROVE LeftoversAreReclaimable
  BY <1>1 DEF IInv, Backed, LeftoversAreReclaimable
<1>2. QED
  BY <1>1, Invariance, PTL

\* /health answers ok while the authority's address leads elsewhere only from a service
\* that has bound that address in the way of another process (startService).
THEOREM HealthTellsTheTruth ==
  Spec => [](\A p \in Proc : Healthy(p) /\ "authority" \notin contested[p] => Answers("authority", p))
<1>1. ASSUME IInv
      PROVE  \A p \in Proc : Healthy(p) /\ "authority" \notin contested[p] => Answers("authority", p)
  BY <1>1 DEF IInv, Kept, Healthy, Answers, Address
<1>2. QED
  BY <1>1, Invariance, PTL
================================================================================
