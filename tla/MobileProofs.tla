---------------------------- MODULE MobileProofs ----------------------------
(***************************************************************************)
(* Proofs about the phone app, for any number of tasks, workstations and   *)
(* key pairs.                                                              *)
(***************************************************************************)
EXTENDS Mobile, TLAPS

\* What Abandon leaves on the wire: the same bodies, some without a reader.
LEMMA Abandoned ==
    ASSUME NEW ts \in SUBSET Tasks, MobileTypeOK, Abandon(ts)
    PROVE  /\ wire' \in SUBSET [from : Tasks \cup {NoTask}, body : Request]
           /\ \A r \in wire' : \E q \in wire :
                /\ r.body = q.body
                /\ r.from = NoTask \/ (r.from = q.from /\ q.from \notin ts)
  BY DEF Abandon, MobileTypeOK

\* A task that ends, for whatever reason, keeps the types.
LEMMA EndTypes ==
    ASSUME MobileTypeOK, NEW t \in Tasks, NEW status \in {"none", "signed", "rejected", "failed"},
           End(t, status), UNCHANGED <<storage, memory, drawn, user>>,
           shownKeys' \in SUBSET MaybeKey
    PROVE  MobileTypeOK'
  <1> USE MobileAssumption DEF MobileTypeOK, End, storage, memory, user
  <1>1. wire' \in SUBSET [from : Tasks \cup {NoTask}, body : Request]
    BY Abandoned, {t} \in SUBSET Tasks
  <1>2. local' \in [Tasks -> MaybeKey]
    BY DEF MaybeKey
  <1>3. request' \in [Tasks -> Request]
    BY DEF Forgotten, Request, Code, MaybeKey
  <1>4. place' \in [Tasks -> {"idle", "ready"} \cup Initializing \cup Pairing]
    BY DEF Goto
  <1>5. outcome' \in [Tasks -> {"none", "signed", "rejected", "failed"}]
    OBVIOUS
  <1>6. answer' \in [Tasks -> {"none", "accepted", "error"}]
    OBVIOUS
  <1> QED  BY <1>1, <1>2, <1>3, <1>4, <1>5, <1>6

\* The app's variables keep their types under every step.
LEMMA TypeStep ==
    ASSUME MobileTypeOK, [MobileNext]_mobileVars
    PROVE  MobileTypeOK'
  <1> USE MobileAssumption DEF MobileTypeOK, MaybeKey, MaybeSession, Request, Code, Initializing,
       Pairing, storage, memory, desktop, user
  <1>1. ASSUME NEW t \in Tasks, testBiometric(t)
        PROVE  MobileTypeOK'
    BY <1>1 DEF testBiometric, Tap, Goto, Busy
  <1>2. ASSUME NEW t \in Tasks, NEW w \in Workstations, pairFromQr(t, w)
        PROVE  MobileTypeOK'
    BY <1>2 DEF pairFromQr, ScannedPayload, Tap, Goto, Busy
  <1>3. ASSUME NEW t \in Tasks, GenerateSeed(t)
        PROVE  MobileTypeOK'
    BY <1>3 DEF GenerateSeed, Generate, Goto, inTask
  <1>4. ASSUME NEW t \in Tasks, WriteSeed(t)
        PROVE  MobileTypeOK'
    BY <1>4 DEF WriteSeed, Goto, inTask
  <1>5. ASSUME NEW t \in Tasks, ReadSeed(t)
        PROVE  MobileTypeOK'
    BY <1>5 DEF ReadSeed, Goto, inTask
  <1>6. ASSUME NEW t \in Tasks, AssignKeyPair(t)
        PROVE  MobileTypeOK'
    BY <1>6 DEF AssignKeyPair, Goto, inTask
  <1>7. ASSUME NEW t \in Tasks, GenerateExchange(t)
        PROVE  MobileTypeOK'
    BY <1>7 DEF GenerateExchange, Generate, Goto, inTask
  <1>8. ASSUME NEW t \in Tasks, ReadExchange(t)
        PROVE  MobileTypeOK'
    BY <1>8 DEF ReadExchange, Goto, inTask
  <1>9. ASSUME NEW t \in Tasks, AssignExchange(t)
        PROVE  MobileTypeOK'
    BY <1>9 DEF AssignExchange, Goto, inTask
  <1>10. ASSUME NEW t \in Tasks, WriteExchange(t)
        PROVE  MobileTypeOK'
    BY <1>10 DEF WriteExchange, Goto, inTask
  <1>11. ASSUME NEW t \in Tasks, StorageFails(t)
        PROVE  MobileTypeOK'
    BY <1>11, EndTypes DEF StorageFails
  <1>12. ASSUME NEW t \in Tasks, Approve(t)
        PROVE  MobileTypeOK'
    BY <1>12, EndTypes DEF Approve
  <1>13. ASSUME NEW t \in Tasks, Deny(t)
        PROVE  MobileTypeOK'
    BY <1>13, EndTypes DEF Deny
  <1>14. ASSUME NEW t \in Tasks, TakePublicKey(t)
        PROVE  MobileTypeOK'
    BY <1>14 DEF TakePublicKey, Goto, inPairing
  <1>15. ASSUME NEW t \in Tasks, TakeExchangeKey(t)
        PROVE  MobileTypeOK'
    BY <1>15 DEF TakeExchangeKey, Goto, inPairing
  <1>16. ASSUME NEW t \in Tasks, ExchangeKeyMissing(t)
        PROVE  MobileTypeOK'
    BY <1>16, EndTypes DEF ExchangeKeyMissing
  <1>17. ASSUME NEW t \in Tasks, establishSession(t)
        PROVE  MobileTypeOK'
    BY <1>17 DEF establishSession, Goto, inPairing
  <1>18. ASSUME NEW t \in Tasks, AssignSession(t)
        PROVE  MobileTypeOK'
    BY <1>18 DEF AssignSession, Goto, inPairing
  <1>19. ASSUME NEW t \in Tasks, SendPairRequest(t)
        PROVE  MobileTypeOK'
    BY <1>19 DEF SendPairRequest, Goto, inPairing
  <1>20. ASSUME NEW t \in Tasks, NoAnswer(t)
        PROVE  MobileTypeOK'
    BY <1>20, EndTypes DEF NoAnswer
  <1>21. ASSUME NEW t \in Tasks, ReadAccepted(t)
        PROVE  MobileTypeOK'
    BY <1>21 DEF ReadAccepted, Goto, inPairing
  <1>22. ASSUME NEW t \in Tasks, ReadRejected(t)
        PROVE  MobileTypeOK'
    BY <1>22, EndTypes DEF ReadRejected
  <1>23. ASSUME NEW t \in Tasks, ListenAgain(t)
        PROVE  MobileTypeOK'
    BY <1>23, EndTypes DEF ListenAgain
  <1>24. ASSUME Kill
        PROVE  MobileTypeOK'
    <2>1. wire' \in SUBSET [from : Tasks \cup {NoTask}, body : Request]
      BY <1>24, Abandoned, Tasks \in SUBSET Tasks DEF Kill
    <2>2. request' \in [Tasks -> Request]
      BY <1>24 DEF Kill, Forgotten
    <2> QED  BY <1>24, <2>1, <2>2 DEF Kill
  <1>25. ASSUME NEW r \in wire, AcceptPair(r)
        PROVE  MobileTypeOK'
    <2>1. r.body \in Request
      OBVIOUS
    <2>2. sessionKeys' \in [Workstations -> [Keys -> MaybeKey]]
      BY <1>25, <2>1 DEF AcceptPair
    <2>3. pairingCode' \in [Workstations -> Code]
      BY <1>25, <2>1 DEF AcceptPair
    <2> QED  BY <1>25, <2>2, <2>3 DEF AcceptPair, Reply, inApp
  <1>26. ASSUME NEW r \in wire, RefusePair(r)
        PROVE  MobileTypeOK'
    BY <1>26 DEF RefusePair, Reply, inApp
  <1>27. ASSUME NEW w \in Workstations, CodeExpires(w)
        PROVE  MobileTypeOK'
    BY <1>27 DEF CodeExpires, inApp
  <1>28. CASE UNCHANGED mobileVars
    BY <1>28 DEF mobileVars
  <1> QED
    BY <1>1, <1>2, <1>3, <1>4, <1>5, <1>6, <1>7, <1>8, <1>9, <1>10, <1>11, <1>12, <1>13, <1>14, <1>15, <1>16, <1>17, <1>18, <1>19, <1>20, <1>21, <1>22, <1>23, <1>24, <1>25, <1>26, <1>27, <1>28
    DEF MobileNext, TaskStep

\* What a tap does to the places, the jobs and the history.
LEMMA TapEffect ==
    ASSUME MobileTypeOK, NEW t \in Tasks, NEW what \in {"test", "pair"}, Tap(t, what)
    PROVE  /\ hurried => hurried'
           /\ FirstUse => hurried'
           /\ UNCHANGED <<storage, memory, local, desktop, drawn, shownKeys>>
           /\ place[t] = "idle" /\ place'[t] \in {"readSeed", "ready"}
           /\ place'[t] = "ready" => keyPair # NoKey
           /\ job'[t] = what
           /\ \A u \in Tasks : u # t => place'[u] = place[u] /\ job'[u] = job[u]
           /\ place' \in [Tasks -> {"idle", "ready"} \cup Initializing \cup Pairing]
           /\ job' \in [Tasks -> {"test", "pair"}]
  <1>1. (hurried => hurried') /\ (FirstUse => hurried')
    BY DEF Tap
  <1>2. /\ UNCHANGED <<storage, memory, local, desktop, drawn, shownKeys>>
        /\ place[t] = "idle"
        /\ place' = [place EXCEPT ![t] = IF keyPair = NoKey THEN "readSeed" ELSE "ready"]
        /\ job' = [job EXCEPT ![t] = what]
    BY DEF Tap, Goto, Busy
  <1> QED  BY <1>1, <1>2 DEF MobileTypeOK, Initializing, Pairing

\* Who overlaps whom after a tap: a task that is busy beside the new one was busy
\* before, and knows it if both pair.
LEMMA TapKeepsNoRace ==
    ASSUME MobileTypeOK, NoRace, NEW t \in Tasks,
           testBiometric(t) \/ \E w \in Workstations : pairFromQr(t, w)
    PROVE  NoRace'
  <1> USE DEF MobileTypeOK, NoRace, Busy
  <1> SUFFICES ASSUME NEW u \in Tasks, NEW v \in Tasks, Busy(u)', Busy(v)', u # v
               PROVE  NoRace!(u, v)!2'
    BY DEF NoRace
  <1>1. PICK what \in {"test", "pair"} : Tap(t, what)
    BY DEF testBiometric, pairFromQr
  <1>2. Busy(u) \/ Busy(v)
    BY <1>1, TapEffect
  <1>3. (hurried \/ (seed # NoKey /\ exchangeSeed # NoKey))'
    BY <1>1, <1>2, TapEffect DEF FirstUse, storage
  <1>4. ASSUME (job[u] = "pair" /\ job[v] = "pair")' PROVE u \in mixed'
    <2>1. CASE testBiometric(t)
      <3>1. Tap(t, "test") /\ mixed' = mixed
        BY <2>1 DEF testBiometric
      <3>2. u # t /\ v # t
        BY <1>4, <3>1, TapEffect
      <3> QED  BY <1>4, <3>1, <3>2, TapEffect
    <2>2. CASE \E w \in Workstations : pairFromQr(t, w)
      <3> DEFINE others == {x \in Tasks : Busy(x) /\ job[x] = "pair"}
      <3>1. /\ Tap(t, "pair")
            /\ mixed' = IF others = {} THEN mixed \ {t} ELSE mixed \cup others \cup {t}
        BY <2>2 DEF pairFromQr
      <3>2. u # t => u \in others
        BY <1>4, <3>1, TapEffect
      <3>3. v # t => v \in others
        BY <1>4, <3>1, TapEffect
      <3> QED  BY <3>1, <3>2, <3>3
    <2> QED  BY <2>1, <2>2
  <1> QED  BY <1>3, <1>4

\* A tap disturbs none of what is known of the identity.
LEMMA TapKeepsIdentity ==
    ASSUME MobileTypeOK, IdentityInv, NEW t \in Tasks,
           testBiometric(t) \/ \E w \in Workstations : pairFromQr(t, w)
    PROVE  IdentityInv'
  <1>1. PICK what \in {"test", "pair"} : Tap(t, what)
    BY DEF testBiometric, pairFromQr
  <1>2. \A u \in Tasks : u # t => request'[u] = request[u]
    BY DEF testBiometric, pairFromQr, MobileTypeOK
  <1>3. NoRace'
    BY TapKeepsNoRace DEF IdentityInv
  <1>4. KeysThere'
    BY <1>1, <1>2, TapEffect DEF IdentityInv, KeysThere, Busy, Pairing, memory
  <1>5. KeyIsStored'
    BY <1>1, TapEffect DEF IdentityInv, KeyIsStored, StoredIdentity, storage
  <1>6. IdentityInv!4'
    BY <1>1, <1>2, TapEffect DEF IdentityInv, Pairing, storage, memory
  <1> QED  BY <1>3, <1>4, <1>5, <1>6 DEF IdentityInv

\* Under every step the identity in use remains the stored one, unless the user was
\* in a hurry.
LEMMA IdentityStep ==
    ASSUME MobileTypeOK, IdentityInv, ExchangeInv, [MobileNext]_mobileVars
    PROVE  IdentityInv'
  <1> USE MobileAssumption DEF MobileTypeOK, IdentityInv, NoRace, KeysThere, Busy, KeyIsStored, StoredIdentity, MaybeKey,
       Initializing, Pairing, storage, memory, user
  <1>1. ASSUME NEW t \in Tasks, testBiometric(t)
        PROVE  IdentityInv'
    BY <1>1, TapKeepsIdentity
  <1>2. ASSUME NEW t \in Tasks, NEW w \in Workstations, pairFromQr(t, w)
        PROVE  IdentityInv'
    BY <1>2, TapKeepsIdentity
  <1>3. ASSUME NEW t \in Tasks, GenerateSeed(t)
        PROVE  IdentityInv'
    BY <1>3 DEF GenerateSeed, Generate, Goto, inTask
  <1>4. ASSUME NEW t \in Tasks, WriteSeed(t)
        PROVE  IdentityInv'
    BY <1>4 DEF WriteSeed, Goto, inTask
  <1>5. ASSUME NEW t \in Tasks, ReadSeed(t)
        PROVE  IdentityInv'
    BY <1>5 DEF ReadSeed, Goto, inTask
  <1>6. ASSUME NEW t \in Tasks, AssignKeyPair(t)
        PROVE  IdentityInv'
    BY <1>6 DEF AssignKeyPair, Goto, inTask
  <1>7. ASSUME NEW t \in Tasks, GenerateExchange(t)
        PROVE  IdentityInv'
    BY <1>7 DEF GenerateExchange, Generate, Goto, inTask
  <1>8. ASSUME NEW t \in Tasks, ReadExchange(t)
        PROVE  IdentityInv'
    BY <1>8 DEF ReadExchange, Goto, inTask
  <1>9. ASSUME NEW t \in Tasks, AssignExchange(t)
        PROVE  IdentityInv'
    BY <1>9 DEF AssignExchange, Goto, inTask
  <1>10. ASSUME NEW t \in Tasks, WriteExchange(t)
        PROVE  IdentityInv'
    <2>1. NoRace'
      BY <1>10 DEF WriteExchange, Goto, inTask, ExchangeInv
    <2> QED  BY <1>10, <2>1 DEF WriteExchange, Goto, inTask
  <1>11. ASSUME NEW t \in Tasks, StorageFails(t)
        PROVE  IdentityInv'
    BY <1>11, Abandoned, {t} \in SUBSET Tasks DEF StorageFails, End, Forgotten, Goto
  <1>12. ASSUME NEW t \in Tasks, Approve(t)
        PROVE  IdentityInv'
    BY <1>12, Abandoned, {t} \in SUBSET Tasks DEF Approve, End, Forgotten, Goto
  <1>13. ASSUME NEW t \in Tasks, Deny(t)
        PROVE  IdentityInv'
    BY <1>13, Abandoned, {t} \in SUBSET Tasks DEF Deny, End, Forgotten, Goto
  <1>14. ASSUME NEW t \in Tasks, TakePublicKey(t)
        PROVE  IdentityInv'
    BY <1>14 DEF TakePublicKey, Goto, inPairing
  <1>15. ASSUME NEW t \in Tasks, TakeExchangeKey(t)
        PROVE  IdentityInv'
    BY <1>15 DEF TakeExchangeKey, Goto, inPairing
  <1>16. ASSUME NEW t \in Tasks, ExchangeKeyMissing(t)
        PROVE  IdentityInv'
    BY <1>16, Abandoned, {t} \in SUBSET Tasks DEF ExchangeKeyMissing, End, Forgotten, Goto
  <1>17. ASSUME NEW t \in Tasks, establishSession(t)
        PROVE  IdentityInv'
    BY <1>17 DEF establishSession, Goto, inPairing
  <1>18. ASSUME NEW t \in Tasks, AssignSession(t)
        PROVE  IdentityInv'
    BY <1>18 DEF AssignSession, Goto, inPairing
  <1>19. ASSUME NEW t \in Tasks, SendPairRequest(t)
        PROVE  IdentityInv'
    BY <1>19 DEF SendPairRequest, Goto, inPairing
  <1>20. ASSUME NEW t \in Tasks, NoAnswer(t)
        PROVE  IdentityInv'
    BY <1>20, Abandoned, {t} \in SUBSET Tasks DEF NoAnswer, End, Forgotten, Goto
  <1>21. ASSUME NEW t \in Tasks, ReadAccepted(t)
        PROVE  IdentityInv'
    BY <1>21 DEF ReadAccepted, Goto, inPairing
  <1>22. ASSUME NEW t \in Tasks, ReadRejected(t)
        PROVE  IdentityInv'
    BY <1>22, Abandoned, {t} \in SUBSET Tasks DEF ReadRejected, End, Forgotten, Goto
  <1>23. ASSUME NEW t \in Tasks, ListenAgain(t)
        PROVE  IdentityInv'
    BY <1>23, Abandoned, {t} \in SUBSET Tasks DEF ListenAgain, End, Forgotten, Goto
  <1>24. ASSUME Kill
        PROVE  IdentityInv'
    BY <1>24, Abandoned, Tasks \in SUBSET Tasks DEF Kill, Forgotten
  <1>25. ASSUME NEW r \in wire, AcceptPair(r)
        PROVE  IdentityInv'
    BY <1>25 DEF AcceptPair, Reply, inApp
  <1>26. ASSUME NEW r \in wire, RefusePair(r)
        PROVE  IdentityInv'
    BY <1>26 DEF RefusePair, Reply, inApp
  <1>27. ASSUME NEW w \in Workstations, CodeExpires(w)
        PROVE  IdentityInv'
    BY <1>27 DEF CodeExpires, inApp
  <1>28. CASE UNCHANGED mobileVars
    BY <1>28 DEF mobileVars
  <1> QED
    BY <1>1, <1>2, <1>3, <1>4, <1>5, <1>6, <1>7, <1>8, <1>9, <1>10, <1>11, <1>12, <1>13, <1>14, <1>15, <1>16, <1>17, <1>18, <1>19, <1>20, <1>21, <1>22, <1>23, <1>24, <1>25, <1>26, <1>27, <1>28
    DEF MobileNext, TaskStep

\* The same for the exchange key and the session key.
LEMMA ExchangeStep ==
    ASSUME MobileTypeOK, IdentityInv, ExchangeInv, [MobileNext]_mobileVars
    PROVE  ExchangeInv'
  <1> USE MobileAssumption DEF MobileTypeOK, ExchangeInv, IdentityInv, NoRace, KeysThere, Busy, MaybeKey,
       Request, Initializing, Pairing, storage, memory, user
  <1>1. ASSUME NEW t \in Tasks, testBiometric(t)
        PROVE  ExchangeInv'
    BY <1>1 DEF testBiometric, Tap, Goto, FirstUse
  <1>2. ASSUME NEW t \in Tasks, NEW w \in Workstations, pairFromQr(t, w)
        PROVE  ExchangeInv'
    BY <1>2 DEF pairFromQr, ScannedPayload, Tap, Goto, FirstUse
  <1>3. ASSUME NEW t \in Tasks, GenerateSeed(t)
        PROVE  ExchangeInv'
    BY <1>3 DEF GenerateSeed, Generate, Goto, inTask
  <1>4. ASSUME NEW t \in Tasks, WriteSeed(t)
        PROVE  ExchangeInv'
    BY <1>4 DEF WriteSeed, Goto, inTask
  <1>5. ASSUME NEW t \in Tasks, ReadSeed(t)
        PROVE  ExchangeInv'
    BY <1>5 DEF ReadSeed, Goto, inTask
  <1>6. ASSUME NEW t \in Tasks, AssignKeyPair(t)
        PROVE  ExchangeInv'
    BY <1>6 DEF AssignKeyPair, Goto, inTask
  <1>7. ASSUME NEW t \in Tasks, GenerateExchange(t)
        PROVE  ExchangeInv'
    BY <1>7 DEF GenerateExchange, Generate, Goto, inTask
  <1>8. ASSUME NEW t \in Tasks, ReadExchange(t)
        PROVE  ExchangeInv'
    BY <1>8 DEF ReadExchange, Goto, inTask
  <1>9. ASSUME NEW t \in Tasks, AssignExchange(t)
        PROVE  ExchangeInv'
    <2>1. ASSUME ~hurried', NEW u \in Tasks PROVE ExchangeInv!2!2!(u)'
      <3>1. CASE u = t
        BY <1>9, <2>1, <3>1 DEF AssignExchange, Goto, inTask
      <3>2. CASE u # t
        BY <1>9, <2>1, <3>2 DEF AssignExchange, Goto, inTask
      <3> QED  BY <3>1, <3>2
    <2>2. ~hurried' => ExchangeInv!2!1'
      BY <1>9 DEF AssignExchange, Goto, inTask
    <2> QED  BY <2>1, <2>2
  <1>10. ASSUME NEW t \in Tasks, WriteExchange(t)
        PROVE  ExchangeInv'
    BY <1>10 DEF WriteExchange, Goto, inTask
  <1>11. ASSUME NEW t \in Tasks, StorageFails(t)
        PROVE  ExchangeInv'
    BY <1>11, Abandoned, {t} \in SUBSET Tasks DEF StorageFails, End, Forgotten, Goto
  <1>12. ASSUME NEW t \in Tasks, Approve(t)
        PROVE  ExchangeInv'
    BY <1>12, Abandoned, {t} \in SUBSET Tasks DEF Approve, End, Forgotten, Goto
  <1>13. ASSUME NEW t \in Tasks, Deny(t)
        PROVE  ExchangeInv'
    BY <1>13, Abandoned, {t} \in SUBSET Tasks DEF Deny, End, Forgotten, Goto
  <1>14. ASSUME NEW t \in Tasks, TakePublicKey(t)
        PROVE  ExchangeInv'
    BY <1>14 DEF TakePublicKey, Goto, inPairing
  <1>15. ASSUME NEW t \in Tasks, TakeExchangeKey(t)
        PROVE  ExchangeInv'
    BY <1>15 DEF TakeExchangeKey, Goto, inPairing
  <1>16. ASSUME NEW t \in Tasks, ExchangeKeyMissing(t)
        PROVE  ExchangeInv'
    BY <1>16, Abandoned, {t} \in SUBSET Tasks DEF ExchangeKeyMissing, End, Forgotten, Goto
  <1>17. ASSUME NEW t \in Tasks, establishSession(t)
        PROVE  ExchangeInv'
    BY <1>17 DEF establishSession, Goto, inPairing
  <1>18. ASSUME NEW t \in Tasks, AssignSession(t)
        PROVE  ExchangeInv'
    <2>1. ASSUME ~hurried', NEW u \in Tasks PROVE ExchangeInv!2!2!(u)'
      <3>1. CASE u = t
        BY <1>18, <2>1, <3>1 DEF AssignSession, Goto, inPairing
      <3>2. CASE u # t
        BY <1>18, <2>1, <3>2 DEF AssignSession, Goto, inPairing
      <3> QED  BY <3>1, <3>2
    <2>2. ~hurried' => ExchangeInv!2!1'
      BY <1>18 DEF AssignSession, Goto, inPairing
    <2> QED  BY <2>1, <2>2
  <1>19. ASSUME NEW t \in Tasks, SendPairRequest(t)
        PROVE  ExchangeInv'
    BY <1>19 DEF SendPairRequest, Goto, inPairing
  <1>20. ASSUME NEW t \in Tasks, NoAnswer(t)
        PROVE  ExchangeInv'
    BY <1>20, Abandoned, {t} \in SUBSET Tasks DEF NoAnswer, End, Forgotten, Goto
  <1>21. ASSUME NEW t \in Tasks, ReadAccepted(t)
        PROVE  ExchangeInv'
    BY <1>21 DEF ReadAccepted, Goto, inPairing
  <1>22. ASSUME NEW t \in Tasks, ReadRejected(t)
        PROVE  ExchangeInv'
    BY <1>22, Abandoned, {t} \in SUBSET Tasks DEF ReadRejected, End, Forgotten, Goto
  <1>23. ASSUME NEW t \in Tasks, ListenAgain(t)
        PROVE  ExchangeInv'
    BY <1>23, Abandoned, {t} \in SUBSET Tasks DEF ListenAgain, End, Forgotten, Goto
  <1>24. ASSUME Kill
        PROVE  ExchangeInv'
    BY <1>24, Abandoned, Tasks \in SUBSET Tasks DEF Kill, Forgotten
  <1>25. ASSUME NEW r \in wire, AcceptPair(r)
        PROVE  ExchangeInv'
    BY <1>25 DEF AcceptPair, Reply, inApp
  <1>26. ASSUME NEW r \in wire, RefusePair(r)
        PROVE  ExchangeInv'
    BY <1>26 DEF RefusePair, Reply, inApp
  <1>27. ASSUME NEW w \in Workstations, CodeExpires(w)
        PROVE  ExchangeInv'
    BY <1>27 DEF CodeExpires, inApp
  <1>28. CASE UNCHANGED mobileVars
    BY <1>28 DEF mobileVars
  <1> QED
    BY <1>1, <1>2, <1>3, <1>4, <1>5, <1>6, <1>7, <1>8, <1>9, <1>10, <1>11, <1>12, <1>13, <1>14, <1>15, <1>16, <1>17, <1>18, <1>19, <1>20, <1>21, <1>22, <1>23, <1>24, <1>25, <1>26, <1>27, <1>28
    DEF MobileNext, TaskStep

\* A task that ends, or all that are killed, leave the answers of the others alone.
LEMMA EndStep ==
    ASSUME MobileTypeOK, AnswerInv, NEW t \in Tasks, NEW status, End(t, status),
           UNCHANGED <<sessionKey, mixed>>
    PROVE  AnswerInv'
  <1> USE MobileAssumption DEF MobileTypeOK, End, Forgotten, Goto, Busy
  <1>1. /\ wire' \in SUBSET [from : Tasks \cup {NoTask}, body : Request]
        /\ \A r \in wire' : \E q \in wire :
             r.body = q.body /\ (r.from = NoTask \/ (r.from = q.from /\ q.from \notin {t}))
    BY Abandoned, {t} \in SUBSET Tasks
  <1>2. WireInv'
    <2> SUFFICES ASSUME NEW r \in wire' PROVE WireInv!(r)'
      BY DEF WireInv
    <2>1. PICK q \in wire : r.body = q.body /\ (r.from = NoTask \/ (r.from = q.from /\ q.from # t))
      BY <1>1
    <2>2. r.from # NoTask => r.from \in Tasks
      BY <1>1
    <2> QED  BY <2>1, <2>2 DEF AnswerInv, WireInv
  <1>3. ASSUME NEW u \in Tasks PROVE AnswerInv!2!(u)'
    <2>1. CASE u = t
      BY <2>1 DEF AnswerInv
    <2>2. CASE u # t
      <3>1. \A r \in wire' : \E q \in wire : r.body = q.body
        BY <1>1
      <3> QED  BY <2>2, <3>1 DEF AnswerInv
    <2> QED  BY <2>1, <2>2
  <1> QED  BY <1>2, <1>3 DEF AnswerInv

\* The same for pair requests on their way and their answers.
LEMMA AnswerStep ==
    ASSUME MobileTypeOK, IdentityInv, ExchangeInv, AnswerInv, [MobileNext]_mobileVars
    PROVE  AnswerInv'
  <1> USE MobileAssumption DEF MobileTypeOK, AnswerInv, WireInv, ExchangeInv, IdentityInv, NoRace, KeysThere, Busy,
       MaybeKey,       Request, Code, Initializing, Pairing, storage, memory, desktop, user
  <1>1. ASSUME NEW t \in Tasks, testBiometric(t)
        PROVE  AnswerInv'
    BY <1>1 DEF testBiometric, Tap, Goto, FirstUse
  <1>2. ASSUME NEW t \in Tasks, NEW w \in Workstations, pairFromQr(t, w)
        PROVE  AnswerInv'
    BY <1>2 DEF pairFromQr, ScannedPayload, Tap, Goto, FirstUse
  <1>3. ASSUME NEW t \in Tasks, GenerateSeed(t)
        PROVE  AnswerInv'
    BY <1>3 DEF GenerateSeed, Generate, Goto, inTask
  <1>4. ASSUME NEW t \in Tasks, WriteSeed(t)
        PROVE  AnswerInv'
    BY <1>4 DEF WriteSeed, Goto, inTask
  <1>5. ASSUME NEW t \in Tasks, ReadSeed(t)
        PROVE  AnswerInv'
    BY <1>5 DEF ReadSeed, Goto, inTask
  <1>6. ASSUME NEW t \in Tasks, AssignKeyPair(t)
        PROVE  AnswerInv'
    BY <1>6 DEF AssignKeyPair, Goto, inTask
  <1>7. ASSUME NEW t \in Tasks, GenerateExchange(t)
        PROVE  AnswerInv'
    BY <1>7 DEF GenerateExchange, Generate, Goto, inTask
  <1>8. ASSUME NEW t \in Tasks, ReadExchange(t)
        PROVE  AnswerInv'
    BY <1>8 DEF ReadExchange, Goto, inTask
  <1>9. ASSUME NEW t \in Tasks, AssignExchange(t)
        PROVE  AnswerInv'
    BY <1>9 DEF AssignExchange, Goto, inTask
  <1>10. ASSUME NEW t \in Tasks, WriteExchange(t)
        PROVE  AnswerInv'
    BY <1>10 DEF WriteExchange, Goto, inTask
  <1>11. ASSUME NEW t \in Tasks, StorageFails(t)
        PROVE  AnswerInv'
    BY <1>11, EndStep DEF StorageFails, memory
  <1>12. ASSUME NEW t \in Tasks, Approve(t)
        PROVE  AnswerInv'
    BY <1>12, EndStep DEF Approve, memory
  <1>13. ASSUME NEW t \in Tasks, Deny(t)
        PROVE  AnswerInv'
    BY <1>13, EndStep DEF Deny, memory
  <1>14. ASSUME NEW t \in Tasks, TakePublicKey(t)
        PROVE  AnswerInv'
    BY <1>14 DEF TakePublicKey, Goto, inPairing
  <1>15. ASSUME NEW t \in Tasks, TakeExchangeKey(t)
        PROVE  AnswerInv'
    BY <1>15 DEF TakeExchangeKey, Goto, inPairing
  <1>16. ASSUME NEW t \in Tasks, ExchangeKeyMissing(t)
        PROVE  AnswerInv'
    BY <1>16, EndStep DEF ExchangeKeyMissing, memory
  <1>17. ASSUME NEW t \in Tasks, establishSession(t)
        PROVE  AnswerInv'
    BY <1>17 DEF establishSession, Goto, inPairing
  <1>18. ASSUME NEW t \in Tasks, AssignSession(t)
        PROVE  AnswerInv'
    <2>1. WireInv'
      BY <1>18 DEF AssignSession, Goto, inPairing
    <2>2. ASSUME NEW u \in Tasks PROVE AnswerInv!2!(u)'
      BY <1>18 DEF AssignSession, Goto, inPairing
    <2> QED  BY <2>1, <2>2
  <1>19. ASSUME NEW t \in Tasks, SendPairRequest(t)
        PROVE  AnswerInv'
    <2>1. WireInv'
      <3> SUFFICES ASSUME NEW r \in wire' PROVE WireInv!(r)'
        BY DEF WireInv
      <3>1. CASE r \in wire
        BY <1>19, <3>1 DEF SendPairRequest, Goto, inPairing
      <3>2. CASE r = [from |-> t, body |-> request[t]]
        <4>1. answer[t] = "none" /\ job[t] = "pair"
          BY <1>19 DEF SendPairRequest
        <4>2. request[t].sign # NoKey /\ request[t].exchange # NoKey
          BY <1>19 DEF SendPairRequest
        <4>3. r.from = t /\ r.body = request[t]
          BY <3>2
        <4> QED  BY <1>19, <4>1, <4>2, <4>3 DEF SendPairRequest, Goto, inPairing
      <3> QED  BY <1>19, <3>1, <3>2 DEF SendPairRequest
    <2>2. ASSUME NEW u \in Tasks PROVE AnswerInv!2!(u)'
      BY <1>19 DEF SendPairRequest, Goto, inPairing
    <2> QED  BY <2>1, <2>2
  <1>20. ASSUME NEW t \in Tasks, NoAnswer(t)
        PROVE  AnswerInv'
    BY <1>20, EndStep DEF NoAnswer, memory
  <1>21. ASSUME NEW t \in Tasks, ReadAccepted(t)
        PROVE  AnswerInv'
    BY <1>21 DEF ReadAccepted, Goto, inPairing
  <1>22. ASSUME NEW t \in Tasks, ReadRejected(t)
        PROVE  AnswerInv'
    BY <1>22, EndStep DEF ReadRejected, memory
  <1>23. ASSUME NEW t \in Tasks, ListenAgain(t)
        PROVE  AnswerInv'
    BY <1>23, EndStep DEF ListenAgain, memory
  <1>24. ASSUME Kill
        PROVE  AnswerInv'
    <2>1. WireInv'
      <3> SUFFICES ASSUME NEW r \in wire' PROVE WireInv!(r)'
        BY DEF WireInv
      <3>1. pairingCode' = pairingCode /\ Abandon(Tasks)
        BY <1>24 DEF Kill
      <3>2. Tasks \in SUBSET Tasks
        OBVIOUS
      <3>3. PICK q \in wire :
               /\ r.body = q.body
               /\ r.from = NoTask \/ (r.from = q.from /\ q.from \notin Tasks)
        BY <3>1, <3>2, Abandoned
      <3>4. r.from = NoTask
        BY <3>3
      <3> QED  BY <3>1, <3>3, <3>4
    <2> QED  BY <1>24, <2>1 DEF Kill, Forgotten
  <1>25. ASSUME NEW r \in wire, AcceptPair(r)
        PROVE  AnswerInv'
    <2>0. r.body \in Request /\ r.body.sign \in Keys /\ pairingCode[r.body.at] \in Nat
      OBVIOUS
    <2>1. /\ wire' = wire \ {r}
          /\ sessionKeys'[r.body.at][r.body.sign] = r.body.exchange
          /\ pairingCode'[r.body.at] = pairingCode[r.body.at] + 1
          /\ \A w \in Workstations : w # r.body.at =>
               sessionKeys'[w] = sessionKeys[w] /\ pairingCode'[w] = pairingCode[w]
          /\ \A u \in Tasks : answer'[u] = IF u = r.from THEN "accepted" ELSE answer[u]
          /\ UNCHANGED <<place, job, request, envelope, sessionKey, mixed>>
      BY <1>25, <2>0 DEF AcceptPair, Reply, inApp
    <2>2. ASSUME NEW q \in wire' PROVE WireInv!(q)'
      <3>1. q \in wire /\ q # r /\ q.body.at \in Workstations /\ pairingCode[q.body.at] \in Nat
        BY <2>1
      <3>2. q.body.code <= pairingCode'[q.body.at]
        BY <2>0, <2>1, <3>1
      <3>3. q.from # NoTask => q.from # r.from
        BY <3>1
      <3> QED  BY <2>1, <3>1, <3>2, <3>3
    <2>3. ASSUME NEW u \in Tasks PROVE AnswerInv!2!(u)'
      <3>1. request[u].at \in Workstations /\ pairingCode[request[u].at] \in Nat
        OBVIOUS
      <3>2. CASE u = r.from
        <4>1. r.body = request[u] /\ place[u] = "pairAnswer"
          BY <3>2
        <4>2. \A q \in wire' : q.body.at = r.body.at => q.body.code < pairingCode'[q.body.at]
          BY <2>0, <2>1
        <4> QED  BY <2>0, <2>1, <3>1, <3>2, <4>1, <4>2
      <3>3. CASE u # r.from /\ r.body.at = request[u].at
        BY <1>25, <2>0, <2>1, <3>1, <3>3 DEF AcceptPair
      <3>4. CASE u # r.from /\ r.body.at # request[u].at
        BY <2>1, <3>1, <3>4
      <3> QED  BY <3>2, <3>3, <3>4
    <2> QED  BY <2>2, <2>3
  <1>26. ASSUME NEW r \in wire, RefusePair(r)
        PROVE  AnswerInv'
    <2>1. /\ wire' = wire \ {r}
          /\ \A u \in Tasks : answer'[u] = IF u = r.from THEN "error" ELSE answer[u]
          /\ UNCHANGED <<place, job, request, envelope, sessionKey, mixed, sessionKeys, pairingCode>>
      BY <1>26 DEF RefusePair, Reply, inApp
    <2>2. ASSUME NEW q \in wire' PROVE WireInv!(q)'
      <3>1. q \in wire /\ q # r
        BY <2>1
      <3>2. q = [from |-> q.from, body |-> q.body] /\ r = [from |-> r.from, body |-> r.body]
        BY <3>1
      <3>3. WireInv!(q) /\ WireInv!(r)
        BY <3>1
      <3>4. q.from # NoTask => q.from # r.from
        BY <3>1, <3>2, <3>3
      <3> QED  BY <2>1, <3>1, <3>4
    <2>3. ASSUME NEW u \in Tasks PROVE AnswerInv!2!(u)'
      BY <2>1
    <2> QED  BY <2>2, <2>3
  <1>27. ASSUME NEW w \in Workstations, CodeExpires(w)
        PROVE  AnswerInv'
    BY <1>27 DEF CodeExpires, inApp
  <1>28. CASE UNCHANGED mobileVars
    BY <1>28 DEF mobileVars
  <1> QED
    BY <1>1, <1>2, <1>3, <1>4, <1>5, <1>6, <1>7, <1>8, <1>9, <1>10, <1>11, <1>12, <1>13, <1>14, <1>15, <1>16, <1>17, <1>18, <1>19, <1>20, <1>21, <1>22, <1>23, <1>24, <1>25, <1>26, <1>27, <1>28
    DEF MobileNext, TaskStep

\* Initially all of this holds.
LEMMA MobileInitially ==
    MobileInit => MobileTypeOK /\ IdentityInv /\ ExchangeInv /\ AnswerInv
  <1> SUFFICES ASSUME MobileInit PROVE MobileTypeOK /\ IdentityInv /\ ExchangeInv /\ AnswerInv
    OBVIOUS
  <1> USE MobileAssumption DEF MobileInit, Busy, Initializing, Pairing
  <1>1. MobileTypeOK
    <2>1. request \in [Tasks -> Request]
      BY DEF Request, Code, MaybeKey
    <2>2. pairingCode \in [Workstations -> Code]
      BY DEF Code
    <2>3. sessionKeys \in [Workstations -> [Keys -> MaybeKey]]
      BY DEF MaybeKey
    <2>4. hurried \in BOOLEAN
      OBVIOUS
    <2> QED  BY <2>1, <2>2, <2>3, <2>4 DEF MobileTypeOK, MaybeKey, MaybeSession
  <1>2. IdentityInv
    <2>1. NoRace /\ KeysThere
      BY DEF NoRace, KeysThere
    <2>2. KeyIsStored
      BY DEF KeyIsStored, StoredIdentity
    <2>3. IdentityInv!4
      OBVIOUS
    <2> QED  BY <2>1, <2>2, <2>3 DEF IdentityInv
  <1>3. ExchangeInv
    BY DEF ExchangeInv
  <1>4. AnswerInv
    BY DEF AnswerInv, WireInv
  <1> QED  BY <1>1, <1>2, <1>3, <1>4

\* The types of the app's variables, whatever the user does.
THEOREM MobileTypeCorrect == MobileSpec => []MobileTypeOK
  <1>1. MobileInit => MobileTypeOK
    BY MobileInitially
  <1>2. MobileTypeOK /\ [MobileNext]_mobileVars => MobileTypeOK'
    BY TypeStep
  <1> QED  BY <1>1, <1>2, PTL DEF MobileSpec

\* Unless the user taps before the first use is over, the phone never signs or
\* pairs under an identity other than the stored one, whatever overlaps, fails or
\* is killed (crypto_service.dart:18-40).
THEOREM IdentityKept == MobileSpec => []KeyIsStored
  <1> DEFINE All == MobileTypeOK /\ IdentityInv /\ ExchangeInv
  <1>1. MobileInit => All
    BY MobileInitially
  <1>2. All /\ [MobileNext]_mobileVars => All'
    BY TypeStep, IdentityStep, ExchangeStep
  <1>3. All => KeyIsStored
    BY DEF IdentityInv
  <1> QED  BY <1>1, <1>2, <1>3, PTL DEF MobileSpec

\* Nor can a workstation be unable to open what an accepted pairing sends next,
\* unless that pairing overlapped another one, whatever stale requests are still
\* on their way (main.dart:63-75).
THEOREM SessionsAgree == MobileSpec => []EnvelopeOpens
  <1> DEFINE All == MobileTypeOK /\ IdentityInv /\ ExchangeInv /\ AnswerInv
  <1>1. MobileInit => All
    BY MobileInitially
  <1>2. All /\ [MobileNext]_mobileVars => All'
    BY TypeStep, IdentityStep, ExchangeStep, AnswerStep
  <1>3. All => EnvelopeOpens
    BY DEF EnvelopeOpens, AnswerInv, ExchangeInv, Pairing
  <1> QED  BY <1>1, <1>2, <1>3, PTL DEF MobileSpec

=============================================================================
