--------------------------- MODULE DesktopProofs ---------------------------
(***************************************************************************)
(* The desktop controller's pairing codes and unlocks, for every number of *)
(* phones, device ids, codes and seconds.                                  *)
(***************************************************************************)
EXTENDS Desktop, ReplayGuardProofs

-----------------------------------------------------------------------------
(* Types *)

\* What appending an element does to a sequence.
LEMMA AppendFacts ==
    ASSUME NEW S, NEW s \in Seq(S), NEW x \in S
    PROVE  /\ Append(s, x) \in Seq(S)
           /\ Len(Append(s, x)) = Len(s) + 1
           /\ \A i \in 1 .. Len(s) : Append(s, x)[i] = s[i]
           /\ Append(s, x)[Len(s) + 1] = x
           /\ DOMAIN Append(s, x) = 1 .. Len(s) + 1
           /\ DOMAIN s = 1 .. Len(s)
           /\ Len(s) \in Nat
OBVIOUS

\* Every step of the controller is a step of the guard or leaves it alone.
LEMMA GuardStep ==
    ASSUME [DesktopNext]_allVars
    PROVE  [GuardNext]_guardVars
<1>1. ASSUME NEW p \in Phones, NEW d \in Devices, NEW s \in Phones \cup {NoPhone},
             NEW n \in Nonces, NEW t \in Timestamps, Verify(p, d, s, n, t)
      PROVE  [GuardNext]_guardVars
  BY <1>1 DEF Verify, GuardNext, accept
<1>2. ASSUME NEW p \in Phones, NEW d \in Devices, Pair(p, d) PROVE UNCHANGED guardVars
  BY <1>2 DEF Pair
<1>3. CASE start \/ startFailed \/ stop \/ pairingPayload
  BY <1>3 DEF start, startFailed, stop, pairingPayload
<1>4. CASE DesktopTick
  BY <1>4 DEF DesktopTick, GuardNext
<1>5. CASE UNCHANGED allVars
  BY <1>5 DEF allVars
<1>6. QED
  BY <1>1, <1>2, <1>3, <1>4, <1>5 DEF DesktopNext

\* The replay guard inside the controller is the one ReplayGuard is about, so
\* what is proved of the guard holds in the controller.
THEOREM GuardInside == DesktopSpec => GuardSpec
<1>1. DesktopInit => GuardInit
  BY DEF DesktopInit
<1>2. [DesktopNext]_allVars => [GuardNext]_guardVars
  BY GuardStep
<1>3. QED
  BY <1>1, <1>2, PTL DEF DesktopSpec, GuardSpec

\* The types hold before start() and after every step.
LEMMA DesktopTypeInit == DesktopInit => DesktopTypeOK
<1> SUFFICES ASSUME DesktopInit PROVE DesktopTypeOK
  OBVIOUS
<1>1. GuardTypeOK
  BY GuardInvInit DEF DesktopInit, GuardInv
<1>2. QED
  BY <1>1 DEF DesktopInit, DesktopTypeOK

\* A draw has the types of the code's variables.
LEMMA DrawType ==
    ASSUME DesktopTypeOK, NEW code \in Codes, DrawCode(code)
    PROVE  /\ pairingCode' \in Codes
           /\ pairingCreatedAt' \in Nat
           /\ drawnAt' \in [Codes -> Nat]
BY DEF DesktopTypeOK, GuardTypeOK, DrawCode

\* What a verify request may do to the unlocks.
Unlocked(p, d, k) ==
    /\ sessionKeys[d] = p
    /\ pairedKeys[d] # NoPhone
    /\ unlocks' = [unlocks EXCEPT ![k] =
         Append(@, [device |-> d, sender |-> p, signer |-> pairedKeys[d],
                    after |-> Len(pairings)])]
    /\ accepts' = [accepts EXCEPT ![k] = @ + 1]

\* A verify request changes the unlocks in at most this way, and no keys.
LEMMA VerifyOutcomes ==
    ASSUME NEW p, NEW d, NEW s, NEW n \in Nonces, NEW t \in Timestamps, Verify(p, d, s, n, t)
    PROVE  /\ UNCHANGED <<phase, codeVars, pairedKeys, sessionKeys, pairings>>
           /\ <<n, t>> \in Tokens
           /\ UNCHANGED unlocks \/ Unlocked(p, d, <<n, t>>)
BY DEF Verify, Unlocked, Accepted, decryptRequest, decryptAes256Gcm, verifyEd25519,
       x25519SharedSecret, Tokens

\* Every other step leaves the unlocks alone.
LEMMA UnlocksKept ==
    ASSUME [DesktopNext]_allVars
    PROVE  \/ UNCHANGED unlocks
           \/ \E p \in Phones, d \in Devices, k \in Tokens :
                /\ Unlocked(p, d, k)
                /\ UNCHANGED <<phase, codeVars, pairedKeys, sessionKeys, pairings>>
<1>1. ASSUME NEW p \in Phones, NEW d \in Devices, NEW s \in Phones \cup {NoPhone},
             NEW n \in Nonces, NEW t \in Timestamps, Verify(p, d, s, n, t)
      PROVE  \/ UNCHANGED unlocks
             \/ \E k \in Tokens :
                  /\ Unlocked(p, d, k)
                  /\ UNCHANGED <<phase, codeVars, pairedKeys, sessionKeys, pairings>>
  BY <1>1, VerifyOutcomes
<1>2. ASSUME NEW p \in Phones, NEW d \in Devices, Pair(p, d) PROVE UNCHANGED unlocks
  BY <1>2 DEF Pair
<1>3. CASE start \/ startFailed \/ stop \/ pairingPayload \/ DesktopTick
  BY <1>3 DEF start, startFailed, stop, pairingPayload, DesktopTick, desktopVars
<1>4. CASE UNCHANGED allVars
  BY <1>4 DEF allVars, desktopVars
<1>5. QED
  BY <1>1, <1>2, <1>3, <1>4 DEF DesktopNext

\* What a pair request that succeeds appends.
LEMMA PairOutcome ==
    ASSUME DesktopTypeOK, NEW p \in Phones, NEW d \in Devices, Pair(p, d)
    PROVE  \E code \in Codes \cup {NoCode} :
             /\ PairAccepted(code)
             /\ [device |-> d, phone |-> p, code |-> code, at |-> now] \in Pairing
             /\ pairings' = Append(pairings,
                  [device |-> d, phone |-> p, code |-> code, at |-> now])
<1>1. PICK code \in shown \cup {NoCode} :
        /\ PairAccepted(code)
        /\ pairings' = Append(pairings,
             [device |-> d, phone |-> p, code |-> code, at |-> now])
  BY DEF Pair
<1>2. code \in Codes \cup {NoCode} /\ now \in Nat
  BY DEF DesktopTypeOK, GuardTypeOK
<1>3. QED
  BY <1>1, <1>2 DEF Pairing

\* Every step keeps the types.
LEMMA DesktopTypeStep ==
    ASSUME DesktopTypeOK, GuardTypeOK', [DesktopNext]_allVars
    PROVE  DesktopTypeOK'
<1> USE DEF DesktopTypeOK, codeVars
<1>u. unlocks' \in [Tokens -> Seq(Unlock)]
  <2>1. ASSUME NEW p \in Phones, NEW d \in Devices, NEW k \in Tokens, Unlocked(p, d, k)
        PROVE  unlocks' \in [Tokens -> Seq(Unlock)]
    <3> DEFINE u == [device |-> d, sender |-> p, signer |-> pairedKeys[d],
                     after |-> Len(pairings)]
    <3>1. u \in Unlock
      BY <2>1 DEF Unlock, Unlocked
    <3>2. unlocks[k] \in Seq(Unlock)
      OBVIOUS
    <3>3. Append(unlocks[k], u) \in Seq(Unlock)
      BY <3>1, <3>2
    <3>4. QED
      BY <2>1, <3>3 DEF Unlocked
  <2>2. QED
    BY <2>1, UnlocksKept
<1>1. ASSUME NEW p \in Phones, NEW d \in Devices, NEW s \in Phones \cup {NoPhone},
             NEW n \in Nonces, NEW t \in Timestamps, Verify(p, d, s, n, t)
      PROVE  DesktopTypeOK'
  BY <1>u, <1>1, VerifyOutcomes
<1>2. ASSUME NEW p \in Phones, NEW d \in Devices, Pair(p, d) PROVE DesktopTypeOK'
  <2>1. pairings' \in Seq(Pairing)
    <3>1. PICK q \in Pairing : pairings' = Append(pairings, q)
      BY <1>2, PairOutcome
    <3>2. QED
      BY <3>1
  <2>2. QED
    BY <1>u, <1>2, <2>1 DEF Pair, StoreKeys, x25519SharedSecret
<1>3. CASE start
  BY <1>u, <1>3, DrawType DEF start
<1>4. CASE startFailed
  BY <1>u, <1>4, DrawType DEF startFailed
<1>5. CASE stop
  BY <1>u, <1>5 DEF stop
<1>6. CASE pairingPayload
  <2>1. /\ pairingCode' \in Codes
        /\ pairingCreatedAt' \in Nat
        /\ drawnAt' \in [Codes -> Nat]
    <3>1. ASSUME NEW code \in Codes, DrawCode(code)
          PROVE  pairingCode' \in Codes /\ pairingCreatedAt' \in Nat /\ drawnAt' \in [Codes -> Nat]
      BY <3>1, DrawType
    <3>2. CASE pairingCode # NoCode /\ UNCHANGED <<pairingCode, pairingCreatedAt, drawnAt>>
      BY <3>2
    <3>3. QED
      BY <1>6, <3>1, <3>2 DEF pairingPayload
  <2>2. /\ shown' = shown \cup {pairingCode'}
        /\ UNCHANGED <<phase, pairedKeys, sessionKeys, pairings>>
    BY <1>6 DEF pairingPayload
  <2>3. QED
    BY <1>u, <2>1, <2>2
<1>7. CASE DesktopTick
  BY <1>u, <1>7 DEF DesktopTick, desktopVars
<1>8. CASE UNCHANGED allVars
  BY <1>8 DEF allVars, desktopVars
<1>9. QED
  BY <1>1, <1>2, <1>3, <1>4, <1>5, <1>6, <1>7, <1>8 DEF DesktopNext

-----------------------------------------------------------------------------
(* Pairing codes *)

\* A draw takes a code that was never drawn, so none that has paired.
LEMMA DrawKeepsCodes ==
    ASSUME DesktopTypeOK, CodeInv, NEW code \in Codes, DrawCode(code),
           UNCHANGED <<now, pairings>>
    PROVE  CodeInv'
<1>1. /\ now \in Nat /\ Start \in Nat /\ Start <= now /\ Start > 0
      /\ drawnAt \in [Codes -> Nat]
      /\ drawnAt[code] = 0 /\ drawnAt' = [drawnAt EXCEPT ![code] = now]
      /\ pairingCode' = code /\ pairingCreatedAt' = now
  BY GuardAssumption DEF DesktopTypeOK, GuardTypeOK, CodeInv, DrawCode
<1>2. ASSUME NEW i \in DOMAIN pairings, pairings[i].code # NoCode
      PROVE  /\ pairings[i].code # code
             /\ drawnAt'[pairings[i].code] = drawnAt[pairings[i].code]
  <2>1. pairings[i] \in Pairing
    BY DEF DesktopTypeOK
  <2>a. pairings[i].code \in Codes
    BY <1>2, <2>1 DEF Pairing
  <2>2. drawnAt[pairings[i].code] # 0
    BY <1>2 DEF CodeInv
  <2>3. QED
    BY <1>1, <2>a, <2>2
<1>3. OneTimeCode'
  BY <1>2 DEF CodeInv, OneTimeCode
<1>4. drawnAt'[code] = now /\ now # 0
  BY <1>1
<1>5. \A i \in DOMAIN pairings : pairings[i].code # NoCode =>
        pairings[i].code # code /\ drawnAt'[pairings[i].code] # 0
  BY <1>2 DEF CodeInv
<1>6. QED
  BY <1>1, <1>3, <1>4, <1>5 DEF CodeInv

\* A pairing uses the code up.
LEMMA PairKeepsCodes ==
    ASSUME DesktopTypeOK, CodeInv, NEW p \in Phones, NEW d \in Devices, Pair(p, d)
    PROVE  CodeInv'
<1>1. PICK code \in Codes \cup {NoCode}, q \in Pairing :
        /\ code = pairingCode /\ ~Expired
        /\ q.code = code /\ q.at = now
        /\ pairings' = Append(pairings, q)
  BY PairOutcome DEF PairAccepted
<1>2. /\ pairingCode' = NoCode
      /\ UNCHANGED <<now, drawnAt, pairingCreatedAt>>
  BY DEF Pair, StoreKeys, x25519SharedSecret, guardVars
<1> DEFINE N == Len(pairings)
<1>3. /\ N \in Nat
      /\ DOMAIN pairings = 1 .. N
      /\ DOMAIN pairings' = 1 .. N + 1
      /\ pairings'[N + 1] = q
      /\ \A i \in 1 .. N : pairings'[i] = pairings[i]
  BY <1>1, AppendFacts DEF DesktopTypeOK
<1>4. now \in Nat /\ pairingCreatedAt \in Nat /\ PairingTtl \in Nat
  BY DesktopAssumption DEF DesktopTypeOK, GuardTypeOK
<1>5. code # NoCode =>
        /\ now <= drawnAt[code] + PairingTtl
        /\ drawnAt[code] # 0
        /\ \A i \in 1 .. N : pairings[i].code # code
  BY <1>1, <1>3, <1>4 DEF CodeInv, Expired
<1>6. ASSUME NEW i \in 1 .. N, pairings[i].code # NoCode
      PROVE  /\ drawnAt[pairings[i].code] # 0
             /\ pairings[i].at <= drawnAt[pairings[i].code] + PairingTtl
             /\ \A j \in 1 .. N : pairings[j].code = pairings[i].code => j = i
  BY <1>3, <1>6 DEF CodeInv, OneTimeCode
<1> HIDE DEF N
<1>7. ASSUME NEW i \in 1 .. N + 1, pairings'[i].code # NoCode
      PROVE  /\ drawnAt'[pairings'[i].code] # 0
             /\ pairings'[i].at <= drawnAt'[pairings'[i].code] + PairingTtl
             /\ \A j \in 1 .. N + 1 : pairings'[j].code = pairings'[i].code => j = i
  <2>1. CASE i = N + 1
    BY <1>1, <1>2, <1>3, <1>5, <1>7, <2>1
  <2>2. CASE i # N + 1
    <3>1. i \in 1 .. N /\ pairings'[i] = pairings[i]
      BY <1>3, <1>7, <2>2
    <3>2. QED
      BY <1>1, <1>2, <1>3, <1>5, <1>6, <1>7, <3>1
  <2>3. QED
    BY <2>1, <2>2
<1>8. QED
  BY <1>2, <1>3, <1>7 DEF CodeInv, OneTimeCode

\* Every step keeps the invariant of the codes.
LEMMA CodeInvStep ==
    ASSUME GuardInv, DesktopTypeOK, CodeInv, [DesktopNext]_allVars
    PROVE  CodeInv'
<1> USE DEF codeVars
<1>1. ASSUME UNCHANGED <<codeVars, pairings>>, now' \in Nat, now <= now'
      PROVE  CodeInv'
  BY <1>1, GuardAssumption DEF CodeInv, OneTimeCode, DesktopTypeOK, GuardTypeOK
<1>2. UNCHANGED guardVars => now' \in Nat /\ now <= now'
  BY DEF guardVars, DesktopTypeOK, GuardTypeOK
<1>3. ASSUME NEW p \in Phones, NEW d \in Devices, NEW s \in Phones \cup {NoPhone},
             NEW n \in Nonces, NEW t \in Timestamps, Verify(p, d, s, n, t)
      PROVE  CodeInv'
  <2>1. now' \in Nat /\ now <= now'
    BY <1>3 DEF Verify, Accepted, Replayed, Stale, SecondReading, Later, guardVars,
        DesktopTypeOK, GuardTypeOK
  <2>2. QED
    BY <1>1, <1>3, <2>1, VerifyOutcomes
<1>4. ASSUME NEW p \in Phones, NEW d \in Devices, Pair(p, d) PROVE CodeInv'
  BY <1>4, PairKeepsCodes
<1>5. CASE start
  BY <1>5, DrawKeepsCodes DEF start, guardVars
<1>6. CASE startFailed
  BY <1>1, <1>2, <1>6, DrawKeepsCodes DEF startFailed, guardVars
<1>7. CASE stop
  BY <1>1, <1>2, <1>7 DEF stop
<1>8. CASE pairingPayload
  <2>1. CASE \E code \in Codes : DrawCode(code)
    BY <1>8, <2>1, DrawKeepsCodes DEF pairingPayload, guardVars
  <2>2. CASE UNCHANGED <<pairingCode, pairingCreatedAt, drawnAt>>
    BY <1>8, <2>2 DEF pairingPayload, CodeInv, OneTimeCode, guardVars
  <2>3. QED
    BY <1>8, <2>1, <2>2 DEF pairingPayload
<1>9. CASE DesktopTick
  BY <1>1, <1>9 DEF DesktopTick, GuardTick, desktopVars, DesktopTypeOK, GuardTypeOK
<1>10. CASE UNCHANGED allVars
  BY <1>1, <1>2, <1>10 DEF allVars, desktopVars
<1>11. QED
  BY <1>3, <1>4, <1>5, <1>6, <1>7, <1>8, <1>9, <1>10 DEF DesktopNext

\* Each code pairs one phone, within its five minutes, whatever is shown, drawn
\* and paired in between.
THEOREM CodesAreOneTime == DesktopSpec => []OneTimeCode
<1> DEFINE I == GuardInv /\ DesktopTypeOK /\ CodeInv
<1>1. DesktopInit => I
  <2> SUFFICES ASSUME DesktopInit PROVE I
    OBVIOUS
  <2>1. CodeInv
    BY GuardAssumption DEF DesktopInit, GuardInit, CodeInv, OneTimeCode
  <2>2. QED
    BY <2>1, GuardInvInit, DesktopTypeInit DEF DesktopInit
<1>2. I /\ [DesktopNext]_allVars => I'
  <2> SUFFICES ASSUME I, [DesktopNext]_allVars PROVE I'
    OBVIOUS
  <2>1. GuardInv'
    BY GuardStep, GuardInvStep
  <2>2. DesktopTypeOK'
    BY <2>1, DesktopTypeStep DEF GuardInv
  <2>3. QED
    BY <2>1, <2>2, CodeInvStep
<1>3. I => OneTimeCode
  BY DEF CodeInv
<1>4. QED
  BY <1>1, <1>2, <1>3, PTL DEF DesktopSpec

-----------------------------------------------------------------------------
(* Pairings without a code *)

\* A draw replaces the code in use and takes no age away from a code that has
\* paired, so the windows of the pairings stay what they were.
LEMMA DrawKeepsWindows ==
    ASSUME DesktopTypeOK, CodeInv, WindowInv, NEW code \in Codes, DrawCode(code),
           UNCHANGED pairings
    PROVE  WindowInv'
<1>1. ASSUME NEW i \in DOMAIN pairings, pairings[i].code # NoCode
      PROVE  drawnAt'[pairings[i].code] = drawnAt[pairings[i].code]
  <2>1. pairings[i] \in Pairing
    BY DEF DesktopTypeOK
  <2>2. pairings[i].code \in Codes /\ drawnAt[pairings[i].code] # 0
    BY <1>1, <2>1 DEF Pairing, CodeInv
  <2>3. QED
    BY <2>2 DEF DrawCode, DesktopTypeOK
<1>2. DOMAIN pairings = 1 .. Len(pairings) /\ Len(pairings) \in Nat
  BY DEF DesktopTypeOK
<1>3. UncodedPairingConfined'
  <2> SUFFICES ASSUME NEW i \in DOMAIN pairings, pairings[i].code = NoCode
               PROVE  \E j \in 1 .. i - 1 : InWindowOf(i, j)'
    BY DEF UncodedPairingConfined
  <2>1. PICK j \in 1 .. i - 1 : InWindowOf(i, j)
    BY DEF WindowInv, UncodedPairingConfined
  <2>2. j \in DOMAIN pairings
    BY <1>2
  <2>3. InWindowOf(i, j)'
    BY <1>1, <2>1, <2>2 DEF InWindowOf
  <2>4. QED
    BY <2>3
<1>4. pairingCode' # NoCode
  BY DesktopAssumption DEF DrawCode
<1>5. QED
  BY <1>3, <1>4 DEF WindowInv

\* A pairing opens no window: with a code it is the first one in that code's
\* window, without one it is in the window that is open.
LEMMA PairKeepsWindows ==
    ASSUME DesktopTypeOK, CodeInv, WindowInv, NEW p \in Phones, NEW d \in Devices, Pair(p, d)
    PROVE  WindowInv'
<1>1. PICK code \in Codes \cup {NoCode}, q \in Pairing :
        /\ code = pairingCode /\ ~Expired
        /\ q.code = code /\ q.at = now
        /\ pairings' = Append(pairings, q)
  BY PairOutcome DEF PairAccepted
<1>2. phase = "running" /\ UNCHANGED <<now, drawnAt, pairingCreatedAt>>
  BY DEF Pair, guardVars
<1> DEFINE N == Len(pairings)
<1>3. /\ N \in Nat
      /\ DOMAIN pairings = 1 .. N
      /\ DOMAIN pairings' = 1 .. N + 1
      /\ Len(pairings') = N + 1
      /\ pairings'[N + 1] = q
      /\ \A i \in 1 .. N : pairings'[i] = pairings[i]
  BY <1>1, AppendFacts DEF DesktopTypeOK
<1>4. /\ now \in Nat /\ pairingCreatedAt \in Nat /\ PairingTtl \in Nat
      /\ now <= pairingCreatedAt + PairingTtl
  BY <1>1, DesktopAssumption DEF DesktopTypeOK, GuardTypeOK, Expired
<1>5. code = NoCode => \E j \in 1 .. N : UsedCode(j)
  BY <1>1, <1>2, <1>3 DEF WindowInv
<1>6. code # NoCode => drawnAt[code] = pairingCreatedAt
  BY <1>1 DEF CodeInv
<1>7. \E j \in 1 .. N + 1 : UsedCode(j)'
  <2>1. CASE code # NoCode
    <3>1. PICK j \in 1 .. N + 1 : j = N + 1
      BY <1>3
    <3>2. /\ pairings'[j] = q /\ q.code # NoCode /\ drawnAt'[q.code] = pairingCreatedAt'
          /\ \A m \in j + 1 .. Len(pairings') : FALSE
      BY <1>1, <1>2, <1>3, <1>6, <2>1, <3>1
    <3>3. UsedCode(j)'
      BY <3>2 DEF UsedCode
    <3>4. QED
      BY <3>3
  <2>2. CASE code = NoCode
    <3>1. PICK j \in 1 .. N : UsedCode(j)
      BY <1>5, <2>2
    <3>2. \A m \in j + 1 .. N + 1 : pairings'[m].code = NoCode
      <4> SUFFICES ASSUME NEW m \in j + 1 .. N + 1 PROVE pairings'[m].code = NoCode
        OBVIOUS
      <4>1. CASE m = N + 1
        BY <1>1, <1>3, <2>2, <4>1
      <4>2. CASE m # N + 1
        BY <1>3, <3>1, <4>2 DEF UsedCode
      <4>3. QED
        BY <4>1, <4>2
    <3>3. UsedCode(j)'
      BY <1>2, <1>3, <3>1, <3>2 DEF UsedCode
    <3>4. QED
      BY <1>3, <3>3
  <2>3. QED
    BY <2>1, <2>2
<1>8. ASSUME NEW i \in 1 .. N + 1, pairings'[i].code = NoCode
      PROVE  \E j \in 1 .. i - 1 : InWindowOf(i, j)'
  <2>1. CASE i = N + 1
    <3>1. code = NoCode
      BY <1>1, <1>3, <1>8, <2>1
    <3>2. PICK j \in 1 .. N : UsedCode(j)
      BY <1>5, <3>1
    <3>3. /\ pairings'[j] = pairings[j] /\ pairings[j].code # NoCode
          /\ drawnAt'[pairings[j].code] = pairingCreatedAt
          /\ pairings'[i].at = now
      BY <1>1, <1>2, <1>3, <2>1, <3>2 DEF UsedCode
    <3>4. \A m \in j + 1 .. i : pairings'[m].code = NoCode
      <4> SUFFICES ASSUME NEW m \in j + 1 .. i PROVE pairings'[m].code = NoCode
        OBVIOUS
      <4>1. CASE m = N + 1
        BY <1>8, <2>1, <4>1
      <4>2. CASE m # N + 1
        BY <1>3, <2>1, <3>2, <4>2 DEF UsedCode
      <4>3. QED
        BY <4>1, <4>2
    <3>5. InWindowOf(i, j)'
      BY <1>4, <3>3, <3>4 DEF InWindowOf
    <3>6. QED
      BY <1>3, <2>1, <3>5
  <2>2. CASE i # N + 1
    <3>1. i \in 1 .. N /\ pairings[i].code = NoCode /\ pairings'[i] = pairings[i]
      BY <1>3, <1>8, <2>2
    <3>2. PICK j \in 1 .. i - 1 : InWindowOf(i, j)
      BY <1>3, <3>1 DEF WindowInv, UncodedPairingConfined
    <3>3. \A m \in j .. i : pairings'[m] = pairings[m]
      BY <1>3, <3>1
    <3>4. InWindowOf(i, j)'
      BY <1>2, <1>3, <3>1, <3>2, <3>3 DEF InWindowOf
    <3>5. QED
      BY <3>4
  <2>3. QED
    BY <2>1, <2>2
<1> HIDE DEF N
<1>9. QED
  BY <1>3, <1>7, <1>8 DEF WindowInv, UncodedPairingConfined

\* Every step keeps the windows.
LEMMA WindowStep ==
    ASSUME DesktopTypeOK, CodeInv, WindowInv, [DesktopNext]_allVars
    PROVE  WindowInv'
<1> USE DEF codeVars
<1>1. ASSUME UNCHANGED <<codeVars, pairings>>, phase' = "running" => phase = "running"
      PROVE  WindowInv'
  BY <1>1 DEF WindowInv, UncodedPairingConfined, InWindowOf, UsedCode
<1>2. ASSUME NEW p \in Phones, NEW d \in Devices, NEW s \in Phones \cup {NoPhone},
             NEW n \in Nonces, NEW t \in Timestamps, Verify(p, d, s, n, t)
      PROVE  WindowInv'
  BY <1>1, <1>2, VerifyOutcomes
<1>3. ASSUME NEW p \in Phones, NEW d \in Devices, Pair(p, d) PROVE WindowInv'
  BY <1>3, PairKeepsWindows
<1>4. CASE start
  BY <1>4, DrawKeepsWindows DEF start
<1>5. CASE startFailed
  BY <1>1, <1>5, DrawKeepsWindows DEF startFailed
<1>6. CASE stop
  BY <1>1, <1>6 DEF stop
<1>7. CASE pairingPayload
  <2>1. CASE \E code \in Codes : DrawCode(code)
    BY <1>7, <2>1, DrawKeepsWindows DEF pairingPayload
  <2>2. CASE UNCHANGED <<pairingCode, pairingCreatedAt, drawnAt>>
    BY <1>7, <2>2 DEF pairingPayload, WindowInv, UncodedPairingConfined, InWindowOf, UsedCode
  <2>3. QED
    BY <1>7, <2>1, <2>2 DEF pairingPayload
<1>8. CASE DesktopTick
  BY <1>1, <1>8 DEF DesktopTick, desktopVars
<1>9. CASE UNCHANGED allVars
  BY <1>1, <1>9 DEF allVars, desktopVars
<1>10. QED
  BY <1>2, <1>3, <1>4, <1>5, <1>6, <1>7, <1>8, <1>9 DEF DesktopNext

\* The empty code that a used code leaves behind pairs nobody outside the window
\* of a code that a phone has really used.
THEOREM UncodedPairingsConfined == DesktopSpec => []UncodedPairingConfined
<1> DEFINE I == GuardInv /\ DesktopTypeOK /\ CodeInv
<1>1. DesktopInit => I /\ WindowInv
  <2> SUFFICES ASSUME DesktopInit PROVE I /\ WindowInv
    OBVIOUS
  <2>1. CodeInv
    BY GuardAssumption DEF DesktopInit, GuardInit, CodeInv, OneTimeCode
  <2>2. WindowInv
    BY DEF DesktopInit, WindowInv, UncodedPairingConfined
  <2>3. QED
    BY <2>1, <2>2, GuardInvInit, DesktopTypeInit DEF DesktopInit
<1>2. I /\ WindowInv /\ [DesktopNext]_allVars => I' /\ WindowInv'
  <2> SUFFICES ASSUME I, WindowInv, [DesktopNext]_allVars PROVE I' /\ WindowInv'
    OBVIOUS
  <2>1. GuardInv'
    BY GuardStep, GuardInvStep
  <2>2. DesktopTypeOK'
    BY <2>1, DesktopTypeStep DEF GuardInv
  <2>3. QED
    BY <2>1, <2>2, CodeInvStep, WindowStep
<1>3. WindowInv => UncodedPairingConfined
  BY DEF WindowInv
<1> HIDE DEF I
<1>4. QED
  BY <1>1, <1>2, <1>3, PTL DEF DesktopSpec

-----------------------------------------------------------------------------
(* Unlocks *)

\* The guard takes no acceptance back.
LEMMA AcceptsGrow ==
    ASSUME GuardTypeOK, [GuardNext]_guardVars, NEW k \in Tokens
    PROVE  accepts[k] <= accepts'[k]
<1>1. \/ UNCHANGED accepts
      \/ \E j \in Tokens : accepts' = [accepts EXCEPT ![j] = @ + 1]
  BY DEF GuardNext, accept, Accepted, Replayed, Stale, GuardTick, guardVars, Tokens
<1>2. accepts \in [Tokens -> Nat]
  BY DEF GuardTypeOK
<1>3. ASSUME NEW j \in Tokens, accepts' = [accepts EXCEPT ![j] = @ + 1]
      PROVE  accepts[k] <= accepts'[k]
  BY <1>2, <1>3
<1>4. QED
  BY <1>1, <1>2, <1>3

\* A signed challenge unlocks no more often than the guard accepts it.
THEOREM UnlocksBounded == DesktopSpec => []ReplayedUnlocksBounded
<1> DEFINE I == GuardInv /\ DesktopTypeOK /\ CountInv
<1>1. DesktopInit => I
  <2> SUFFICES ASSUME DesktopInit PROVE I
    OBVIOUS
  <2>1. CountInv
    BY DEF DesktopInit, GuardInit, CountInv
  <2>2. QED
    BY <2>1, GuardInvInit, DesktopTypeInit DEF DesktopInit
<1>2. I /\ [DesktopNext]_allVars => I'
  <2> SUFFICES ASSUME I, [DesktopNext]_allVars PROVE I'
    OBVIOUS
  <2>1. GuardInv'
    BY GuardStep, GuardInvStep
  <2>2. DesktopTypeOK'
    BY <2>1, DesktopTypeStep DEF GuardInv
  <2>3. CountInv'
    <3>1. ASSUME NEW p \in Phones, NEW d \in Devices, NEW k \in Tokens, Unlocked(p, d, k)
          PROVE  CountInv'
      <4> SUFFICES ASSUME NEW j \in Tokens PROVE Len(unlocks'[j]) <= accepts'[j]
        BY DEF CountInv
      <4>1. /\ unlocks \in [Tokens -> Seq(Unlock)] /\ accepts \in [Tokens -> Nat]
            /\ Len(unlocks[j]) <= accepts[j]
        BY DEF DesktopTypeOK, GuardTypeOK, CountInv
      <4>2. CASE j # k
        BY <3>1, <4>1, <4>2 DEF Unlocked
      <4>3. CASE j = k
        <5> DEFINE u == [device |-> d, sender |-> p, signer |-> pairedKeys[d],
                         after |-> Len(pairings)]
        <5>1. unlocks'[j] = Append(unlocks[j], u) /\ accepts'[j] = accepts[j] + 1
          BY <3>1, <4>1, <4>3 DEF Unlocked
        <5>2. Len(Append(unlocks[j], u)) = Len(unlocks[j]) + 1
          BY <4>1
        <5>3. QED
          BY <4>1, <5>1, <5>2
      <4>4. QED
        BY <4>2, <4>3
    <3>2. ASSUME UNCHANGED unlocks PROVE CountInv'
      <4>1. \A k \in Tokens : accepts[k] <= accepts'[k]
        BY GuardStep, AcceptsGrow DEF DesktopTypeOK
      <4>2. accepts \in [Tokens -> Nat] /\ accepts' \in [Tokens -> Nat]
        BY <2>1 DEF GuardInv, GuardTypeOK
      <4>3. \A k \in Tokens : Len(unlocks[k]) \in Nat
        BY DEF DesktopTypeOK
      <4>4. QED
        BY <3>2, <4>1, <4>2, <4>3 DEF CountInv
    <3>3. QED
      BY <3>1, <3>2, UnlocksKept
  <2>4. QED
    BY <2>1, <2>2, <2>3
<1>3. I => ReplayedUnlocksBounded
  <2> SUFFICES ASSUME I, NEW k \in Tokens
               PROVE  Len(unlocks[k]) <= 3 /\ (Len(unlocks[k]) = 3 => slow)
    BY DEF ReplayedUnlocksBounded
  <2>1. Len(unlocks[k]) \in Nat /\ accepts[k] \in Nat
    BY DEF DesktopTypeOK, GuardTypeOK
  <2>2. Len(unlocks[k]) <= accepts[k] /\ accepts[k] <= 3
    BY DEF CountInv, GuardInv, TokenInv
  <2>3. accepts[k] = 3 => slow
    BY DEF GuardInv, TokenInv
  <2>4. Len(unlocks[k]) <= 3 /\ (Len(unlocks[k]) = 3 => accepts[k] = 3)
    <3>1. \A a, b \in Nat : a <= b /\ b <= 3 => a <= 3 /\ (a = 3 => b = 3)
      OBVIOUS
    <3>2. QED
      BY <2>1, <2>2, <3>1, Zenon
  <2>5. QED
    BY <2>3, <2>4, Zenon
<1>4. QED
  BY <1>1, <1>2, <1>3, PTL DEF DesktopSpec

\* A pairing makes its phone the latest under the id and leaves the other ids,
\* and what was unlocked before, as they were.
LEMMA PairKeepsKeys ==
    ASSUME DesktopTypeOK, KeysInv, NEW p \in Phones, NEW d \in Devices, Pair(p, d)
    PROVE  KeysInv'
<1>1. PICK q \in Pairing :
        /\ q.device = d /\ q.phone = p
        /\ pairings' = Append(pairings, q)
  BY PairOutcome
<1>2. /\ pairedKeys' = [pairedKeys EXCEPT ![d] = p]
      /\ sessionKeys' = [sessionKeys EXCEPT ![d] = p]
      /\ UNCHANGED unlocks
      /\ pairedKeys \in [Devices -> Phones \cup {NoPhone}]
  BY DEF Pair, StoreKeys, x25519SharedSecret, DesktopTypeOK
<1> DEFINE N == Len(pairings)
<1>3. /\ N \in Nat
      /\ DOMAIN pairings = 1 .. N
      /\ DOMAIN pairings' = 1 .. N + 1
      /\ Len(pairings') = N + 1
      /\ pairings'[N + 1] = q
      /\ \A i \in 1 .. N : pairings'[i] = pairings[i]
  BY <1>1, AppendFacts DEF DesktopTypeOK
<1>4. \A k \in Tokens : \A i \in DOMAIN unlocks[k] :
        unlocks[k][i] \in Unlock /\ unlocks[k][i].after <= N /\ Current(unlocks[k][i])
  BY DEF KeysInv, CurrentPhoneUnlocks, DesktopTypeOK
<1>5. \A e \in Devices : pairedKeys[e] # NoPhone => Latest(e)
  BY DEF KeysInv
<1>6. sessionKeys' = pairedKeys'
  BY <1>2 DEF KeysInv
<1> HIDE DEF N
<1>7. ASSUME NEW u \in Unlock, u.after <= N, Current(u) PROVE Current(u)'
  <2>1. u.after \in Nat
    BY DEF Unlock
  <2>2. PICK i \in 1 .. u.after :
          /\ i \in DOMAIN pairings
          /\ pairings[i].device = u.device
          /\ pairings[i].phone = u.sender
          /\ pairings[i].phone = u.signer
          /\ \A j \in i + 1 .. u.after : pairings[j].device # u.device
    BY <1>7 DEF Current
  <2>3. i \in 1 .. N + 1 /\ pairings'[i] = pairings[i]
    BY <1>3, <1>7, <2>1, <2>2
  <2>4. \A j \in i + 1 .. u.after : pairings'[j].device # u.device
    BY <1>3, <1>7, <2>1, <2>2
  <2>5. QED
    BY <1>3, <2>2, <2>3, <2>4 DEF Current
<1>8. ASSUME NEW e \in Devices, pairedKeys'[e] # NoPhone PROVE Latest(e)'
  <2>1. CASE e = d
    <3>1. pairedKeys'[e] = p
      BY <1>2, <2>1
    <3>2. \A j \in N + 1 + 1 .. Len(pairings') : pairings'[j].device # e
      BY <1>3
    <3>3. N + 1 \in DOMAIN pairings' /\ pairings'[N + 1].device = e /\ pairings'[N + 1].phone = p
      BY <1>1, <1>3, <2>1
    <3>4. QED
      BY <3>1, <3>2, <3>3 DEF Latest
  <2>2. CASE e # d
    <3>1. pairedKeys'[e] = pairedKeys[e]
      BY <1>2, <2>2
    <3>2. PICK i \in DOMAIN pairings :
            /\ pairings[i].device = e
            /\ pairings[i].phone = pairedKeys[e]
            /\ \A j \in i + 1 .. N : pairings[j].device # e
      BY <1>5, <1>8, <3>1 DEF Latest, N
    <3>3. \A j \in i + 1 .. N + 1 : pairings'[j].device # e
      <4>1. ASSUME NEW j \in i + 1 .. N + 1 PROVE pairings'[j].device # e
        <5>1. CASE j = N + 1
          BY <1>1, <1>3, <2>2, <5>1
        <5>2. CASE j # N + 1
          BY <1>3, <3>2, <4>1, <5>2
        <5>3. QED
          BY <5>1, <5>2
      <4>2. QED
        BY <4>1
    <3>4. i \in DOMAIN pairings' /\ pairings'[i] = pairings[i]
      BY <1>3, <3>2
    <3>5. QED
      BY <1>3, <3>1, <3>2, <3>3, <3>4 DEF Latest
  <2>3. QED
    BY <2>1, <2>2
<1>9. ASSUME NEW k \in Tokens, NEW i \in DOMAIN unlocks'[k]
      PROVE  (unlocks[k][i].after <= Len(pairings))' /\ Current(unlocks[k][i])'
  <2>1. PICK u \in Unlock : u = unlocks[k][i] /\ u.after <= N /\ Current(u)
    BY <1>2, <1>4 DEF N
  <2>2. unlocks'[k][i] = u
    BY <1>2, <2>1
  <2>3. u.after \in Nat
    BY DEF Unlock
  <2>4. Current(u)'
    BY <1>7, <2>1
  <2>5. QED
    BY <1>3, <2>1, <2>2, <2>3, <2>4 DEF Current
<1>10. CurrentPhoneUnlocks'
  BY <1>9 DEF CurrentPhoneUnlocks
<1>11. QED
  BY <1>3, <1>6, <1>8, <1>9, <1>10 DEF KeysInv

\* An unlock is by the phone whose keys are stored, which is the latest.
LEMMA UnlockKeepsKeys ==
    ASSUME DesktopTypeOK, DesktopTypeOK', KeysInv, NEW p \in Phones, NEW d \in Devices,
           NEW k \in Tokens, Unlocked(p, d, k), UNCHANGED <<pairedKeys, sessionKeys, pairings>>
    PROVE  KeysInv'
<1> DEFINE v == [device |-> d, sender |-> p, signer |-> pairedKeys[d],
                 after |-> Len(pairings)]
<1>1. /\ unlocks \in [Tokens -> Seq(Unlock)]
      /\ pairings \in Seq(Pairing) /\ Len(pairings) \in Nat
      /\ DOMAIN pairings = 1 .. Len(pairings)
      /\ unlocks' = [unlocks EXCEPT ![k] = Append(@, v)]
      /\ pairedKeys[d] = p
      /\ Latest(d)
  BY DEF DesktopTypeOK, KeysInv, Unlocked
<1>a. v \in Unlock
  BY <1>1 DEF Unlock
<1>2. PICK u \in Unlock : u = v
  BY <1>a
<1>3. Current(u)
  BY <1>1, <1>2 DEF Latest, Current
<1>4. ASSUME NEW w \in Unlock, Current(w) PROVE Current(w)'
  BY <1>4 DEF Current
<1>5. ASSUME NEW j \in Tokens, NEW i \in DOMAIN unlocks'[j]
      PROVE  (unlocks[j][i].after <= Len(pairings))' /\ Current(unlocks[j][i])'
  <2>1. \/ unlocks'[j][i] = u
        \/ i \in DOMAIN unlocks[j] /\ unlocks'[j][i] = unlocks[j][i]
    <3>1. CASE j # k
      BY <1>1, <1>5, <3>1
    <3>2. CASE j = k
      <4>1. unlocks[j] \in Seq(Unlock) /\ unlocks'[j] = Append(unlocks[j], u)
        BY <1>1, <1>2, <3>2
      <4>2. i \in 1 .. Len(unlocks[j]) + 1
        BY <1>5, <4>1, AppendFacts
      <4>3. QED
        BY <4>1, <4>2, AppendFacts
    <3>3. QED
      BY <3>1, <3>2
  <2>2. PICK w \in Unlock : w = unlocks'[j][i] /\ w.after <= Len(pairings) /\ Current(w)
    <3>1. CASE unlocks'[j][i] = u
      BY <1>1, <1>2, <1>3, <3>1
    <3>2. CASE i \in DOMAIN unlocks[j] /\ unlocks'[j][i] = unlocks[j][i]
      BY <1>1, <3>2 DEF KeysInv, CurrentPhoneUnlocks
    <3>3. QED
      BY <2>1, <3>1, <3>2
  <2>3. Current(w)'
    BY <1>4, <2>2
  <2>4. QED
    BY <2>2, <2>3 DEF Current
<1>6. CurrentPhoneUnlocks'
  BY <1>5 DEF CurrentPhoneUnlocks
<1>7. QED
  BY <1>5, <1>6 DEF KeysInv, Latest

\* Every step keeps the keys and the unlocks in step with the pairings.
LEMMA KeysInvStep ==
    ASSUME DesktopTypeOK, DesktopTypeOK', KeysInv, [DesktopNext]_allVars
    PROVE  KeysInv'
<1>1. ASSUME UNCHANGED <<pairedKeys, sessionKeys, pairings>>, UNCHANGED unlocks
      PROVE  KeysInv'
  BY <1>1 DEF KeysInv, Latest, CurrentPhoneUnlocks, Current
<1>2. ASSUME NEW p \in Phones, NEW d \in Devices, NEW s \in Phones \cup {NoPhone},
             NEW n \in Nonces, NEW t \in Timestamps, Verify(p, d, s, n, t)
      PROVE  KeysInv'
  BY <1>1, <1>2, VerifyOutcomes, UnlockKeepsKeys
<1>3. ASSUME NEW p \in Phones, NEW d \in Devices, Pair(p, d) PROVE KeysInv'
  BY <1>3, PairKeepsKeys
<1>4. CASE start \/ startFailed \/ stop \/ pairingPayload \/ DesktopTick
  BY <1>1, <1>4 DEF start, startFailed, stop, pairingPayload, DesktopTick, desktopVars
<1>5. CASE UNCHANGED allVars
  BY <1>1, <1>5 DEF allVars, desktopVars
<1>6. QED
  BY <1>2, <1>3, <1>4, <1>5 DEF DesktopNext

\* Only the phone paired last under an id unlocks with it, however often ids are
\* paired again.
THEOREM LatestPhoneUnlocks == DesktopSpec => []CurrentPhoneUnlocks
<1> DEFINE I == GuardInv /\ DesktopTypeOK /\ KeysInv
<1>1. DesktopInit => I
  <2> SUFFICES ASSUME DesktopInit PROVE I
    OBVIOUS
  <2>1. KeysInv
    BY DEF DesktopInit, KeysInv, CurrentPhoneUnlocks
  <2>2. QED
    BY <2>1, GuardInvInit, DesktopTypeInit DEF DesktopInit
<1>2. I /\ [DesktopNext]_allVars => I'
  <2> SUFFICES ASSUME I, [DesktopNext]_allVars PROVE I'
    OBVIOUS
  <2>1. GuardInv'
    BY GuardStep, GuardInvStep
  <2>2. DesktopTypeOK'
    BY <2>1, DesktopTypeStep DEF GuardInv
  <2>3. QED
    BY <2>1, <2>2, KeysInvStep
<1>3. I => CurrentPhoneUnlocks
  BY DEF KeysInv
<1>4. QED
  BY <1>1, <1>2, <1>3, PTL DEF DesktopSpec

=============================================================================
