------------------------------ MODULE Desktop ------------------------------
(***************************************************************************)
(* One run of the Qt desktop controller (src/core/server.cpp with          *)
(* src/main.cpp): it shows a pairing code as a QR payload, pairs phones    *)
(* that send the code, and unlocks for paired phones that sign a           *)
(* challenge.  The Qt event loop runs one slot at a time, so a request is  *)
(* one action; nothing is kept on disk, so a later run starts from Init.   *)
(* A request that is malformed, or not encrypted under the session key of  *)
(* the device it names, is answered with an error and changes nothing.  So *)
(* does a challenge request: the server keeps no record of the nonce it    *)
(* hands out, and a verify request may carry any nonce.                    *)
(***************************************************************************)
EXTENDS ReplayGuard, Sequences

CONSTANTS
    Devices,      \* device ids
    Phones,       \* phones, each with an Ed25519 and an X25519 key of its own
    NoPhone,      \* no key under a device id; a signature no key verifies
    Codes,        \* 64-bit random pairing codes; a bound on the codes drawn
    NoCode,       \* the empty string
    PairingTtl,   \* 300 seconds, server.cpp:27 and 36
    MaxPairings   \* bound on the successful pairings

ASSUME DesktopAssumption ==
    /\ NoPhone \notin Phones
    /\ NoCode \notin Codes
    /\ PairingTtl \in Nat
    /\ MaxPairings \in Nat

VARIABLES
    phase,              \* "new", "running" or "exited"
    pairingCode,        \* pairingCode_
    pairingCreatedAt,   \* pairingCreatedAt_
    pairedKeys,         \* pairedKeys_: device id -> the phone whose Ed25519 key it is
    sessionKeys,        \* sessionKeys_: device id -> the phone that shares the secret
    shown,              \* the codes that have been in a QR payload
    drawnAt,            \* history: when a code was drawn, 0 if it was not
    pairings,           \* history: the successful pair requests, in order
    unlocks             \* history: the authorizations of each token, in order

codeVars == <<pairingCode, pairingCreatedAt, shown, drawnAt>>
desktopVars == <<phase, codeVars, pairedKeys, sessionKeys, pairings, unlocks>>
allVars == <<guardVars, desktopVars>>

Pairing == [device : Devices, phone : Phones, code : Codes \cup {NoCode}, at : Nat]

\* `after` tells how many pairings had been made by then.
Unlock == [device : Devices, sender : Phones, signer : Phones, after : Nat]

DesktopTypeOK ==
    /\ GuardTypeOK
    /\ phase \in {"new", "running", "exited"}
    /\ pairingCode \in Codes \cup {NoCode}
    /\ pairingCreatedAt \in Nat
    /\ pairedKeys \in [Devices -> Phones \cup {NoPhone}]
    /\ sessionKeys \in [Devices -> Phones \cup {NoPhone}]
    /\ shown \in SUBSET Codes
    /\ drawnAt \in [Codes -> Nat]
    /\ pairings \in Seq(Pairing)
    /\ unlocks \in [Tokens -> Seq(Unlock)]

DesktopInit ==
    /\ GuardInit
    /\ phase = "new"
    /\ pairingCode = NoCode
    /\ pairingCreatedAt = 0
    /\ pairedKeys = [d \in Devices |-> NoPhone]
    /\ sessionKeys = [d \in Devices |-> NoPhone]
    /\ shown = {}
    /\ drawnAt = [c \in Codes |-> 0]
    /\ pairings = <<>>
    /\ unlocks = [k \in Tokens |-> <<>>]

-----------------------------------------------------------------------------
(* The life of the server *)

\* A new random code; two draws never agree.
DrawCode(code) ==
    /\ drawnAt[code] = 0
    /\ drawnAt' = [drawnAt EXCEPT ![code] = now]
    /\ pairingCode' = code
    /\ pairingCreatedAt' = now

\* start() succeeds: the first code is drawn, though nobody has seen it yet.
start ==
    /\ phase = "new"
    /\ phase' = "running"
    /\ \E code \in Codes : DrawCode(code)
    /\ UNCHANGED <<guardVars, pairedKeys, sessionKeys, shown, pairings, unlocks>>

\* start() fails, before the draw (no X25519 key) or after it (a listener
\* fails): main returns 1.
startFailed ==
    /\ phase = "new"
    /\ phase' = "exited"
    /\ \/ UNCHANGED codeVars
       \/ /\ \E code \in Codes : DrawCode(code)
          /\ UNCHANGED shown
    /\ UNCHANGED <<guardVars, pairedKeys, sessionKeys, pairings, unlocks>>

\* Quit: aboutToQuit calls stop(), which closes the sockets and leaves the rest.
stop ==
    /\ phase = "running"
    /\ phase' = "exited"
    /\ UNCHANGED <<guardVars, codeVars, pairedKeys, sessionKeys, pairings, unlocks>>

-----------------------------------------------------------------------------
(* Pairing *)

\* currentSecsSinceEpoch() - pairingCreatedAt_ > 300
Expired == now - pairingCreatedAt > PairingTtl

\* The user asks for the QR code: a used or an expired code is replaced, any
\* other is shown again and keeps its age.
pairingPayload ==
    /\ phase = "running"
    /\ \/ /\ pairingCode = NoCode \/ Expired
          /\ \E code \in Codes : DrawCode(code)
       \/ /\ ~(pairingCode = NoCode \/ Expired)
          /\ UNCHANGED <<pairingCode, pairingCreatedAt, drawnAt>>
    /\ shown' = shown \cup {pairingCode'}
    /\ UNCHANGED <<guardVars, phase, pairedKeys, sessionKeys, pairings, unlocks>>

\* Mutant: the window is that of the code, and without a code there is none.
PairAcceptedLate(code) ==
    /\ code = pairingCode
    /\ code = NoCode \/ ~Expired

\* The pair request of `phone` for the id `device` is one the code accepts.
PairAccepted(code) ==
    /\ code = pairingCode
    /\ ~Expired

\* The secret only the controller and this phone can derive, named by the phone.
x25519SharedSecret(phone) == phone

\* Mutant: a second pairing under an id keeps the session key of the first.
StoreKeysOnce(phone, device) ==
    /\ pairedKeys' = [pairedKeys EXCEPT ![device] = phone]
    /\ sessionKeys' = [sessionKeys EXCEPT ![device] = IF @ = NoPhone THEN phone ELSE @]
    /\ pairingCode' = NoCode

\* Mutant: the code is not cleared.
StoreKeysOnly(phone, device) ==
    /\ pairedKeys' = [pairedKeys EXCEPT ![device] = phone]
    /\ sessionKeys' = [sessionKeys EXCEPT ![device] = phone]
    /\ UNCHANGED pairingCode

\* Both keys of the phone are stored under the id and the code is cleared.
StoreKeys(phone, device) ==
    /\ pairedKeys' = [pairedKeys EXCEPT ![device] = phone]
    /\ sessionKeys' = [sessionKeys EXCEPT ![device] = x25519SharedSecret(phone)]
    /\ pairingCode' = NoCode

\* A pair request that succeeds.  The client sends a code it has been shown, or
\* none, which reads as the empty string.  When the code does not match, is
\* too old, or no secret can be derived, nothing changes.
Pair(phone, device) ==
    /\ phase = "running"
    /\ Len(pairings) < MaxPairings
    /\ \E code \in shown \cup {NoCode} :
         /\ PairAccepted(code)
         /\ pairings' = Append(pairings,
              [device |-> device, phone |-> phone, code |-> code, at |-> now])
    /\ StoreKeys(phone, device)
    /\ UNCHANGED <<guardVars, phase, pairingCreatedAt, shown, drawnAt, unlocks>>

-----------------------------------------------------------------------------
(* Unlocking *)

\* The tag of a message that `sender` has encrypted is right under this key.
decryptAes256Gcm(key, sender) == key = x25519SharedSecret(sender)

\* The signature by `signer` over nonce and timestamp is right for this key.
verifyEd25519(key, signer) == key = signer

\* The device is known and the request decrypts under its session key.
decryptRequest(sender, device) ==
    /\ sessionKeys[device] # NoPhone
    /\ decryptAes256Gcm(sessionKeys[device], sender)

\* Mutant: the replay guard is not asked.
VerifyUnguarded(sender, device, signer, nonce, timestamp) ==
    /\ phase = "running"
    /\ decryptRequest(sender, device)
    /\ verifyEd25519(pairedKeys[device], signer)
    /\ isFreshTimestamp(timestamp, now)
    /\ unlocks' = [unlocks EXCEPT ![<<nonce, timestamp>>] =
         Append(@, [device |-> device, sender |-> sender, signer |-> signer,
                    after |-> Len(pairings)])]
    /\ UNCHANGED <<guardVars, phase, codeVars, pairedKeys, sessionKeys, pairings>>

\* A verify request of `sender` with a signature by `signer` over the nonce and
\* the timestamp.  The guard is asked before the signature is checked: a token is
\* used up even when the signature is then found wrong.  A request for an id
\* without a signing key is refused before that, and changes nothing.
Verify(sender, device, signer, nonce, timestamp) ==
    /\ phase = "running"
    /\ decryptRequest(sender, device)
    /\ pairedKeys[device] # NoPhone
    /\ \/ /\ \E time \in Later : Accepted(nonce, timestamp, time)
          /\ \/ /\ verifyEd25519(pairedKeys[device], signer)
                /\ unlocks' = [unlocks EXCEPT ![<<nonce, timestamp>>] =
                     Append(@, [device |-> device, sender |-> sender, signer |-> signer,
                                after |-> Len(pairings)])]
             \/ /\ ~verifyEd25519(pairedKeys[device], signer)
                /\ UNCHANGED unlocks
       \/ /\ \E time \in Later : Replayed(nonce, timestamp, time)
          /\ UNCHANGED unlocks
       \/ /\ Stale(timestamp)
          /\ UNCHANGED unlocks
    /\ UNCHANGED <<phase, codeVars, pairedKeys, sessionKeys, pairings>>

\* Time passes.
DesktopTick ==
    /\ phase = "running"
    /\ GuardTick
    /\ UNCHANGED desktopVars

-----------------------------------------------------------------------------

DesktopNext ==
    \/ start
    \/ startFailed
    \/ stop
    \/ pairingPayload
    \/ \E p \in Phones, d \in Devices : Pair(p, d)
    \/ \E p \in Phones, d \in Devices, s \in Phones \cup {NoPhone},
          n \in Nonces, t \in Timestamps : Verify(p, d, s, n, t)
    \/ DesktopTick

DesktopSpec == DesktopInit /\ [][DesktopNext]_allVars

-----------------------------------------------------------------------------
(* Properties *)

\* A pairing code pairs one phone, and only within five minutes of its draw,
\* however often its QR payload was shown and whatever was paired and drawn in
\* between (server.cpp:27, 36 and 37).
OneTimeCode ==
    \A i \in DOMAIN pairings : pairings[i].code # NoCode =>
        /\ pairings[i].at <= drawnAt[pairings[i].code] + PairingTtl
        /\ \A j \in DOMAIN pairings : pairings[j].code = pairings[i].code => j = i

\* Pairing i was made in the window of the code that pairing j used, and nothing
\* but pairings without a code came in between.
InWindowOf(i, j) ==
    /\ pairings[j].code # NoCode
    /\ pairings[i].at <= drawnAt[pairings[j].code] + PairingTtl
    /\ \A m \in j + 1 .. i : pairings[m].code = NoCode

\* A request without a code pairs while the used code is the empty string
\* (server.cpp:36-37).  That is confined: it needs a phone that has paired with a
\* code before it, and works only for what is left of that code's five minutes,
\* whatever was shown, drawn and paired meanwhile.
UncodedPairingConfined ==
    \A i \in DOMAIN pairings : pairings[i].code = NoCode =>
        \E j \in 1 .. i - 1 : InWindowOf(i, j)

\* The latest pairing under the id of the unlock u, as it stood when u was
\* made, was that of the phone which sent and signed it.
Current(u) ==
    \E i \in 1 .. u.after :
        /\ i \in DOMAIN pairings
        /\ pairings[i].device = u.device
        /\ pairings[i].phone = u.sender
        /\ pairings[i].phone = u.signer
        /\ \A j \in i + 1 .. u.after : pairings[j].device # u.device

\* An unlock is granted to the phone that is paired under the device id now: the
\* phone that a later pairing has replaced no longer unlocks, and the session
\* key and the signing key in use come from one pairing (server.cpp:37, 42).
CurrentPhoneUnlocks ==
    \A k \in Tokens : \A i \in DOMAIN unlocks[k] : Current(unlocks[k][i])

\* A signed challenge unlocks at most twice, whoever sends it and whatever is
\* paired and refused in between (server.cpp:42 through the replay guard,
\* crypto.cpp:45); a third unlock needs a request that lies still inside the
\* guard for two seconds or more, and there is never a fourth.
ReplayedUnlocksBounded ==
    \A k \in Tokens : Len(unlocks[k]) <= 3 /\ (Len(unlocks[k]) = 3 => slow)

\* Inductive: the code in use carries its own age and has paired nobody; a code
\* that has paired was drawn, and its pairing is the only one.
CodeInv ==
    /\ Start <= now
    /\ pairingCode # NoCode =>
         /\ drawnAt[pairingCode] = pairingCreatedAt
         /\ drawnAt[pairingCode] # 0
    /\ \A i \in DOMAIN pairings : pairings[i].code # NoCode =>
         /\ pairings[i].code # pairingCode
         /\ drawnAt[pairings[i].code] # 0
    /\ OneTimeCode

\* Inductive: while a running server has no code, its clock is that of the code
\* which the last coded pairing used.
UsedCode(j) ==
    /\ pairings[j].code # NoCode
    /\ drawnAt[pairings[j].code] = pairingCreatedAt
    /\ \A m \in j + 1 .. Len(pairings) : pairings[m].code = NoCode

WindowInv ==
    /\ phase = "running" /\ pairingCode = NoCode => \E j \in DOMAIN pairings : UsedCode(j)
    /\ UncodedPairingConfined

\* Inductive: the keys stored under an id are both those of the phone that was
\* paired under it last.
Latest(device) ==
    \E i \in DOMAIN pairings :
        /\ pairings[i].device = device
        /\ pairings[i].phone = pairedKeys[device]
        /\ \A j \in i + 1 .. Len(pairings) : pairings[j].device # device

KeysInv ==
    /\ sessionKeys = pairedKeys
    /\ \A d \in Devices : pairedKeys[d] # NoPhone => Latest(d)
    /\ \A k \in Tokens : \A i \in DOMAIN unlocks[k] : unlocks[k][i].after <= Len(pairings)
    /\ CurrentPhoneUnlocks

\* Inductive: every unlock was an acceptance of the guard.
CountInv == \A k \in Tokens : Len(unlocks[k]) <= accepts[k]

\* Every pairing used a code that was shown as a QR payload.
PairingNeedsCode == \A i \in DOMAIN pairings : pairings[i].code # NoCode

=============================================================================
