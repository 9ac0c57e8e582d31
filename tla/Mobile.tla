------------------------------- MODULE Mobile -------------------------------
(***************************************************************************)
(* The phone app (mobile/lib/main.dart and crypto_service.dart).  Dart     *)
(* runs one piece of code at a time, from one await to the next; a tap on  *)
(* a button starts a task, and tasks overtake each other at their awaits.  *)
(* They share the fields of one CryptoService and the secure storage.  Of  *)
(* a workstation, which module Desktop models, only the pairing code and   *)
(* the session keys of paired devices are kept here.                       *)
(***************************************************************************)
EXTENDS Naturals

CONSTANTS
    Tasks,         \* bound on the taps that are handled at a time
    Workstations,  \* desktop servers, each with an X25519 key of its own
    Keys,          \* key pairs; a bound on how many the app generates
    NoKey,         \* null
    NoSession,     \* null for _sessionKey
    NoTask,        \* a socket that nobody reads any more
    MaxTaps,       \* bound on the taps
    MaxKills,      \* bound on how often the app is killed
    MaxCodes       \* bound on the pairing codes of a workstation

ASSUME MobileAssumption ==
    /\ NoKey \notin Keys
    /\ NoTask \notin Tasks
    /\ MaxTaps \in Nat /\ MaxKills \in Nat /\ MaxCodes \in Nat

ASSUME NoSessionAssumption == NoSession \notin [exchange : Keys \cup {NoKey}, at : Workstations]

VARIABLES
    seed,             \* storage: openbiounlock.ed25519.seed
    exchangeSeed,     \* storage: openbiounlock.x25519.seed
    keyPair,          \* _keyPair
    exchangeKeyPair,  \* _exchangeKeyPair
    sessionKey,       \* _sessionKey, named by the two parties that share it
    place,            \* the await a task is at, "idle" if there is no task
    job,              \* testBiometric or pairFromQr
    local,            \* the key a task has read or generated
    request,          \* the scanned payload of a pairing and the keys it took so far
    envelope,         \* the session key that a challenge request was encrypted with
    outcome,          \* the status a task has left on the screen
    wire,             \* pair requests that no workstation has processed
    answer,           \* the answer to the pair request
    pairingCode,      \* the number of the code that a workstation shows
    sessionKeys,      \* of a workstation: device id -> exchange key of the phone
    drawn,            \* history: the key pairs generated so far
    shownKeys,        \* history: the identities that signed or were sent to pair
    hurried,          \* history: there was a tap before the first use had ended
    mixed,            \* history: the tasks whose pairing overlaps another one
    taps, kills       \* how often that has happened

storage == <<seed, exchangeSeed>>
memory == <<keyPair, exchangeKeyPair, sessionKey>>
desktop == <<wire, answer, pairingCode, sessionKeys>>
user == <<taps, kills, hurried, mixed>>
mobileVars == <<storage, memory, place, job, local, request, envelope, outcome, desktop,
                drawn, shownKeys, user>>

MaybeKey == Keys \cup {NoKey}
MaybeSession == [exchange : MaybeKey, at : Workstations] \cup {NoSession}
Code == 0 .. MaxCodes
Request == [at : Workstations, code : Code, sign : MaybeKey, exchange : MaybeKey]
Initializing == {"readSeed", "writeSeed", "assign", "readExchange", "oldExchange",
                 "newExchange", "writeExchange"}
Pairing == {"exchangeKey", "session", "derive", "connect", "pairAnswer", "challenge"}

MobileTypeOK ==
    /\ seed \in MaybeKey /\ exchangeSeed \in MaybeKey
    /\ keyPair \in MaybeKey /\ exchangeKeyPair \in MaybeKey
    /\ sessionKey \in MaybeSession
    /\ place \in [Tasks -> {"idle", "ready"} \cup Initializing \cup Pairing]
    /\ job \in [Tasks -> {"test", "pair"}]
    /\ local \in [Tasks -> MaybeKey]
    /\ request \in [Tasks -> Request]
    /\ envelope \in [Tasks -> MaybeSession]
    /\ outcome \in [Tasks -> {"none", "signed", "rejected", "failed"}]
    /\ wire \in SUBSET [from : Tasks \cup {NoTask}, body : Request]
    /\ answer \in [Tasks -> {"none", "accepted", "error"}]
    /\ pairingCode \in [Workstations -> Code]
    /\ sessionKeys \in [Workstations -> [Keys -> MaybeKey]]
    /\ drawn \in SUBSET Keys
    /\ shownKeys \in SUBSET MaybeKey
    /\ hurried \in BOOLEAN /\ mixed \in SUBSET Tasks
    /\ taps \in Nat /\ kills \in Nat

\* The app as it is installed; workstations show their first code.
MobileInit ==
    /\ seed = NoKey /\ exchangeSeed = NoKey
    /\ keyPair = NoKey /\ exchangeKeyPair = NoKey
    /\ sessionKey = NoSession
    /\ place = [t \in Tasks |-> "idle"]
    /\ job = [t \in Tasks |-> "test"]
    /\ local = [t \in Tasks |-> NoKey]
    /\ request \in [Tasks -> [at : Workstations, code : {0}, sign : {NoKey},
                              exchange : {NoKey}]]
    /\ envelope = [t \in Tasks |-> NoSession]
    /\ outcome = [t \in Tasks |-> "none"]
    /\ wire = {}
    /\ answer = [t \in Tasks |-> "none"]
    /\ pairingCode = [w \in Workstations |-> 0]
    /\ sessionKeys = [w \in Workstations |-> [k \in Keys |-> NoKey]]
    /\ drawn = {}
    /\ shownKeys = {}
    /\ hurried = FALSE /\ mixed = {}
    /\ taps = 0 /\ kills = 0

-----------------------------------------------------------------------------
(* Taps *)

Goto(t, p) == place' = [place EXCEPT ![t] = p]

\* The sockets of these tasks are read no more; what was written on them stays
\* on its way.
Abandon(ts) ==
    wire' = {[from |-> IF r.from \in ts THEN NoTask ELSE r.from, body |-> r.body] : r \in wire}

\* The locals of a task go with it.
Forgotten(q) == [at |-> q.at, code |-> 0, sign |-> NoKey, exchange |-> NoKey]

\* A task ends and leaves its status.
End(t, status) ==
    /\ Goto(t, "idle")
    /\ outcome' = [outcome EXCEPT ![t] = status]
    /\ Abandon({t})
    /\ answer' = [answer EXCEPT ![t] = "none"]
    /\ local' = [local EXCEPT ![t] = NoKey]
    /\ request' = [request EXCEPT ![t] = Forgotten(@)]
    /\ UNCHANGED <<job, envelope, pairingCode, sessionKeys>>

Busy(t) == place[t] # "idle"

\* A user in a hurry taps while the first use still generates and stores the keys.
\* Nothing in the app makes the user wait.
FirstUse == (seed = NoKey \/ exchangeSeed = NoKey) /\ \E u \in Tasks : Busy(u)

\* Every task begins in initialize(), which returns at once if _keyPair is set,
\* whatever _exchangeKeyPair is.
Tap(t, what) ==
    /\ ~Busy(t)
    /\ taps < MaxTaps
    /\ taps' = taps + 1
    /\ hurried' = (hurried \/ FirstUse)
    /\ Goto(t, IF keyPair = NoKey THEN "readSeed" ELSE "ready")
    /\ job' = [job EXCEPT ![t] = what]
    /\ outcome' = [outcome EXCEPT ![t] = "none"]
    /\ envelope' = [envelope EXCEPT ![t] = NoSession]
    /\ UNCHANGED <<storage, memory, local, desktop, drawn, shownKeys, kills>>

\* The Test button.
testBiometric(t) ==
    /\ Tap(t, "test")
    /\ UNCHANGED <<request, mixed>>

\* What the scanner makes of the QR code of workstation w: the first payload that
\* is valid, once.  Any other is refused where it is scanned.
ScannedPayload(w) == [at |-> w, code |-> pairingCode[w], sign |-> NoKey, exchange |-> NoKey]

\* "Pair a PC", up to the payload of the scanner.  A scan that is given up
\* changes nothing.
pairFromQr(t, w) ==
    /\ Tap(t, "pair")
    /\ LET others == {u \in Tasks : Busy(u) /\ job[u] = "pair"}
       IN  mixed' = IF others = {} THEN mixed \ {t} ELSE mixed \cup others \cup {t}
    /\ request' = [request EXCEPT ![t] = ScannedPayload(w)]

\* The app is killed, and started again.
Kill ==
    /\ kills < MaxKills
    /\ kills' = kills + 1
    /\ keyPair' = NoKey /\ exchangeKeyPair' = NoKey /\ sessionKey' = NoSession
    /\ place' = [t \in Tasks |-> "idle"]
    /\ outcome' = [t \in Tasks |-> "none"]
    /\ envelope' = [t \in Tasks |-> NoSession]
    /\ answer' = [t \in Tasks |-> "none"]
    /\ local' = [t \in Tasks |-> NoKey]
    /\ request' = [t \in Tasks |-> Forgotten(request[t])]
    /\ Abandon(Tasks)
    /\ UNCHANGED <<storage, job, pairingCode, sessionKeys, drawn,
                   shownKeys, hurried, mixed, taps>>

-----------------------------------------------------------------------------
(* initialize() *)

inTask == <<job, request, envelope, outcome, desktop, shownKeys, user>>

Generate(t) ==
    \E k \in Keys \ drawn :
        /\ local' = [local EXCEPT ![t] = k]
        /\ drawn' = drawn \cup {k}

\* Mutant: the new key pair is in use before its seed is stored, as the exchange
\* key is.
GenerateSeedEarly(t) ==
    /\ place[t] = "readSeed"
    /\ seed = NoKey
    /\ Generate(t)
    /\ keyPair' = local'[t]
    /\ Goto(t, "writeSeed")
    /\ UNCHANGED <<storage, exchangeKeyPair, sessionKey, inTask>>

\* No seed is stored: a key pair is generated ...
GenerateSeed(t) ==
    /\ place[t] = "readSeed"
    /\ seed = NoKey
    /\ Generate(t)
    /\ Goto(t, "writeSeed")
    /\ UNCHANGED <<storage, memory, inTask>>

\* ... and its seed is stored before it is used.
WriteSeed(t) ==
    /\ place[t] = "writeSeed"
    /\ seed' = local[t]
    /\ Goto(t, "assign")
    /\ UNCHANGED <<exchangeSeed, memory, local, drawn, inTask>>

\* A seed is stored.
ReadSeed(t) ==
    /\ place[t] = "readSeed"
    /\ seed # NoKey
    /\ local' = [local EXCEPT ![t] = seed]
    /\ Goto(t, "assign")
    /\ UNCHANGED <<storage, memory, drawn, inTask>>

AssignKeyPair(t) ==
    /\ place[t] = "assign"
    /\ keyPair' = local[t]
    /\ Goto(t, "readExchange")
    /\ UNCHANGED <<storage, exchangeKeyPair, sessionKey, local, drawn, inTask>>

GenerateExchange(t) ==
    /\ place[t] = "readExchange"
    /\ exchangeSeed = NoKey
    /\ Generate(t)
    /\ Goto(t, "newExchange")
    /\ UNCHANGED <<storage, memory, inTask>>

ReadExchange(t) ==
    /\ place[t] = "readExchange"
    /\ exchangeSeed # NoKey
    /\ local' = [local EXCEPT ![t] = exchangeSeed]
    /\ Goto(t, "oldExchange")
    /\ UNCHANGED <<storage, memory, drawn, inTask>>

\* A new exchange key pair is in use before it is stored.
AssignExchange(t) ==
    /\ place[t] \in {"newExchange", "oldExchange"}
    /\ exchangeKeyPair' = local[t]
    /\ Goto(t, IF place[t] = "newExchange" THEN "writeExchange" ELSE "ready")
    /\ UNCHANGED <<storage, keyPair, sessionKey, local, drawn, inTask>>

WriteExchange(t) ==
    /\ place[t] = "writeExchange"
    /\ exchangeSeed' = local[t]
    /\ Goto(t, "ready")
    /\ UNCHANGED <<seed, memory, local, drawn, inTask>>

\* A read or a write of the storage throws.  What was assigned stays.
StorageFails(t) ==
    /\ place[t] \in {"readSeed", "writeSeed", "readExchange", "writeExchange"}
    /\ End(t, "failed")
    /\ UNCHANGED <<storage, memory, drawn, shownKeys, user>>

-----------------------------------------------------------------------------
(* testBiometric *)

\* signChallenge after initialize(): the user approves, and the key pair of
\* that moment signs.
Approve(t) ==
    /\ place[t] = "ready" /\ job[t] = "test"
    /\ shownKeys' = shownKeys \cup {keyPair}
    /\ End(t, "signed")
    /\ UNCHANGED <<storage, memory, drawn, user>>

\* The prompt is denied, or throws.
Deny(t) ==
    /\ place[t] = "ready" /\ job[t] = "test"
    /\ End(t, "failed")
    /\ UNCHANGED <<storage, memory, drawn, shownKeys, user>>

-----------------------------------------------------------------------------
(* pairFromQr *)

inPairing == <<storage, job, outcome, drawn, user>>

\* publicKey() has returned from initialize().
TakePublicKey(t) ==
    /\ place[t] = "ready" /\ job[t] = "pair"
    /\ request' = [request EXCEPT ![t] =
         [at |-> @.at, code |-> @.code, sign |-> keyPair, exchange |-> NoKey]]
    /\ Goto(t, "exchangeKey")
    /\ UNCHANGED <<inPairing, memory, local, envelope, desktop, shownKeys>>

TakeExchangeKey(t) ==
    /\ place[t] = "exchangeKey"
    /\ exchangeKeyPair # NoKey
    /\ request' = [request EXCEPT ![t] =
         [at |-> @.at, code |-> @.code, sign |-> @.sign, exchange |-> exchangeKeyPair]]
    /\ Goto(t, "session")
    /\ UNCHANGED <<inPairing, memory, local, envelope, desktop, shownKeys>>

\* exchangePublicKey(): the null check throws, since another task is between the two
\* halves of initialize() or has failed there.
ExchangeKeyMissing(t) ==
    /\ place[t] = "exchangeKey"
    /\ exchangeKeyPair = NoKey
    /\ End(t, "failed")
    /\ UNCHANGED <<storage, memory, drawn, shownKeys, user>>

\* establishSession() computes the secret from the exchange key pair ...
establishSession(t) ==
    /\ place[t] = "session"
    /\ local' = [local EXCEPT ![t] = exchangeKeyPair]
    /\ Goto(t, "derive")
    /\ UNCHANGED <<inPairing, memory, request, envelope, desktop, shownKeys>>

\* Mutant: a session key that is there is kept.
AssignSessionOnce(t) ==
    /\ place[t] = "derive"
    /\ sessionKey' = IF sessionKey # NoSession THEN sessionKey
                     ELSE [exchange |-> local[t], at |-> request[t].at]
    /\ Goto(t, "connect")
    /\ UNCHANGED <<inPairing, keyPair, exchangeKeyPair, local, request, envelope, desktop,
                   shownKeys>>

\* ... and replaces the session key, whose ever it was.
AssignSession(t) ==
    /\ place[t] = "derive"
    /\ sessionKey' = [exchange |-> local[t], at |-> request[t].at]
    /\ Goto(t, "connect")
    /\ UNCHANGED <<inPairing, keyPair, exchangeKeyPair, local, request, envelope, desktop,
                   shownKeys>>

\* The socket is open and the request written; the device id is the public key.
SendPairRequest(t) ==
    /\ place[t] = "connect"
    /\ wire' = wire \cup {[from |-> t, body |-> request[t]]}
    /\ shownKeys' = shownKeys \cup {request[t].sign}
    /\ Goto(t, "pairAnswer")
    /\ UNCHANGED <<inPairing, memory, local, request, envelope, answer, pairingCode,
                   sessionKeys>>

\* The connection cannot be made, or no answer comes within eight seconds, or the
\* connection is closed before one.
NoAnswer(t) ==
    /\ place[t] \in {"connect", "pairAnswer"}
    /\ End(t, "failed")
    /\ UNCHANGED <<storage, memory, drawn, shownKeys, user>>

\* The answer accepts: the challenge request is encrypted with the session key
\* of this moment and written.
ReadAccepted(t) ==
    /\ place[t] = "pairAnswer"
    /\ answer[t] = "accepted"
    /\ envelope' = [envelope EXCEPT ![t] = sessionKey]
    /\ Goto(t, "challenge")
    /\ UNCHANGED <<inPairing, memory, local, request, desktop, shownKeys>>

ReadRejected(t) ==
    /\ place[t] = "pairAnswer"
    /\ answer[t] = "error"
    /\ End(t, "rejected")
    /\ UNCHANGED <<storage, memory, drawn, shownKeys, user>>

\* The answer to the challenge request is to be read.  A socket is a stream that
\* can be listened to once, and the first answer has been read from it: the second
\* `await for` throws.
ListenAgain(t) ==
    /\ place[t] = "challenge"
    /\ End(t, "failed")
    /\ UNCHANGED <<storage, memory, drawn, shownKeys, user>>

-----------------------------------------------------------------------------
(* The workstation *)

inApp == <<storage, memory, place, job, local, request, envelope, outcome, drawn, shownKeys,
           user>>

\* The answer goes to the task that still reads the socket.
Reply(r, what) ==
    answer' = [t \in Tasks |-> IF t = r.from THEN what ELSE answer[t]]

\* A pair request is processed, however late.  If it carries the code that is
\* shown, the code is used up and the session key stored under the device id,
\* which is the public key.
AcceptPair(r) ==
    /\ r.body.code = pairingCode[r.body.at]
    /\ pairingCode[r.body.at] < MaxCodes
    /\ wire' = wire \ {r}
    /\ sessionKeys' = [sessionKeys EXCEPT ![r.body.at] =
         [@ EXCEPT ![r.body.sign] = r.body.exchange]]
    /\ pairingCode' = [pairingCode EXCEPT ![r.body.at] = @ + 1]
    /\ Reply(r, "accepted")
    /\ UNCHANGED inApp

RefusePair(r) ==
    /\ r.body.code # pairingCode[r.body.at]
    /\ wire' = wire \ {r}
    /\ Reply(r, "error")
    /\ UNCHANGED <<inApp, sessionKeys, pairingCode>>

\* A code that has not been used is replaced once it is five minutes old.
CodeExpires(w) ==
    /\ pairingCode[w] < MaxCodes
    /\ pairingCode' = [pairingCode EXCEPT ![w] = @ + 1]
    /\ UNCHANGED <<inApp, wire, answer, sessionKeys>>

-----------------------------------------------------------------------------

TaskStep(t) ==
    \/ testBiometric(t)
    \/ \E w \in Workstations : pairFromQr(t, w)
    \/ GenerateSeed(t)
    \/ WriteSeed(t)
    \/ ReadSeed(t)
    \/ AssignKeyPair(t)
    \/ GenerateExchange(t)
    \/ ReadExchange(t)
    \/ AssignExchange(t)
    \/ WriteExchange(t)
    \/ StorageFails(t)
    \/ Approve(t)
    \/ Deny(t)
    \/ TakePublicKey(t)
    \/ TakeExchangeKey(t)
    \/ ExchangeKeyMissing(t)
    \/ establishSession(t)
    \/ AssignSession(t)
    \/ SendPairRequest(t)
    \/ NoAnswer(t)
    \/ ReadAccepted(t)
    \/ ReadRejected(t)
    \/ ListenAgain(t)

MobileNext ==
    \/ \E t \in Tasks : TaskStep(t)
    \/ Kill
    \/ \E r \in wire : AcceptPair(r) \/ RefusePair(r)
    \/ \E w \in Workstations : CodeExpires(w)

MobileSpec == MobileInit /\ [][MobileNext]_mobileVars

-----------------------------------------------------------------------------
(* Properties *)

\* Every signature and every pair request is by the identity whose seed is in the
\* storage, now and after any number of restarts, storage failures and pairings:
\* the phone never pairs under a key it then forgets (crypto_service.dart:20-30).
StoredIdentity == \A k \in shownKeys : k = seed

\* That holds unless the user has tapped before the first use was over.
KeyIsStored == ~hurried => StoredIdentity

\* The challenge request that follows an accepted pairing can be opened by the
\* workstation it is sent to: the session key, the exchange key in the pair
\* request and the one the workstation keeps for this device belong together,
\* unless two pairings overlapped or the first use was overtaken
\* (main.dart:63-75, crypto_service.dart:56-66).
EnvelopeOpens ==
    \A t \in Tasks \ mixed : place[t] = "challenge" /\ ~hurried =>
        envelope[t] = [exchange |-> sessionKeys[request[t].at][request[t].sign],
                       at |-> request[t].at]

\* A pairing that the workstation accepted is not reported as failed, when
\* nothing was lost and nobody denied (main.dart:74-86).
AcceptedNotFailed == \A t \in Tasks : envelope[t] # NoSession => outcome[t] # "failed"

-----------------------------------------------------------------------------
(* Inductive invariants *)

\* Tasks overlap only when both seeds are stored, or in a hurry; pairings that
\* overlap are known to.
NoRace ==
    \A t, u \in Tasks : Busy(t) /\ Busy(u) /\ t # u =>
        /\ hurried \/ (seed # NoKey /\ exchangeSeed # NoKey)
        /\ job[t] = "pair" /\ job[u] = "pair" => t \in mixed

\* Every task has the keys it has come past, in a hurry or not.
KeysThere ==
    \A t \in Tasks :
        /\ place[t] \in {"writeSeed", "assign", "oldExchange", "newExchange", "writeExchange"} =>
             local[t] # NoKey
        /\ Busy(t) /\ place[t] \notin {"readSeed", "writeSeed", "assign"} => keyPair # NoKey
        /\ place[t] \in Pairing => job[t] = "pair" /\ request[t].sign # NoKey
        /\ place[t] \in Pairing \ {"exchangeKey"} =>
             exchangeKeyPair # NoKey /\ request[t].exchange # NoKey

\* The key pair in use is the stored one; a task that is to store one finds none.
IdentityInv ==
    /\ NoRace
    /\ KeysThere
    /\ KeyIsStored
    /\ ~hurried =>
         /\ keyPair # NoKey => keyPair = seed
         /\ seed = NoKey => shownKeys = {}
         /\ \A t \in Tasks :
              /\ place[t] = "writeSeed" => seed = NoKey
              /\ place[t] = "assign" => local[t] = seed
              /\ place[t] \in Pairing => request[t].sign = seed

\* The same for the exchange key, which is in use before it is stored.
ExchangeInv ==
    ~hurried =>
      /\ exchangeKeyPair # NoKey /\ exchangeSeed # NoKey => exchangeKeyPair = exchangeSeed
      /\ \A t \in Tasks :
           /\ place[t] = "oldExchange" => local[t] = exchangeSeed
           /\ place[t] = "newExchange" => exchangeSeed = NoKey
           /\ place[t] = "writeExchange" => exchangeSeed = NoKey /\ local[t] = exchangeKeyPair
           /\ place[t] \in Pairing \ {"exchangeKey"} => request[t].exchange = exchangeKeyPair
           /\ place[t] = "derive" => local[t] = exchangeKeyPair
           /\ place[t] \in {"connect", "pairAnswer", "challenge"} /\ t \notin mixed =>
                sessionKey = [exchange |-> request[t].exchange, at |-> request[t].at]

\* A pair request on its way carries no code newer than the one shown, and is the
\* request of the task that waits for its answer.
WireInv ==
    \A r \in wire :
        /\ r.body.code <= pairingCode[r.body.at]
        /\ r.body.sign # NoKey /\ r.body.exchange # NoKey
        /\ r.from # NoTask =>
             place[r.from] = "pairAnswer" /\ answer[r.from] = "none" /\ r.body = request[r.from]

\* Once a code has paired, no request that is still on its way can pair with it,
\* so the workstation keeps the session key it has accepted.
AnswerInv ==
    /\ WireInv
    /\ \A t \in Tasks :
         /\ Busy(t) /\ job[t] = "pair" => request[t].code <= pairingCode[request[t].at]
         /\ answer[t] # "none" => place[t] \in {"pairAnswer", "challenge"}
         /\ place[t] = "challenge" => answer[t] = "accepted"
         /\ place[t] = "challenge" /\ t \notin mixed => envelope[t] = sessionKey
         /\ answer[t] = "accepted" /\ t \notin mixed =>
              /\ sessionKeys[request[t].at][request[t].sign] = request[t].exchange
              /\ \A r \in wire : r.body.at = request[t].at =>
                   r.body.code < pairingCode[r.body.at]

=============================================================================
