------------------------- MODULE ReplayGuardProofs -------------------------
(***************************************************************************)
(* The bound on replays, for every freshness window and every cleanup      *)
(* interval at least twice as long.                                        *)
(***************************************************************************)
EXTENDS ReplayGuard, TLAPS

\* The types and the invariant hold before the first request.
LEMMA GuardInvInit == GuardInit => GuardInv
<1> SUFFICES ASSUME GuardInit PROVE GuardInv
  OBVIOUS
<1>1. slow \in BOOLEAN
  BY DEF GuardInit
<1>2. GuardTypeOK
  BY <1>1, GuardAssumption DEF GuardInit, GuardTypeOK
<1>3. ASSUME NEW k \in Tokens PROVE TokenInv(k)
  BY DEF GuardInit, TokenInv
<1>4. QED
  BY <1>2, <1>3, GuardAssumption DEF GuardInit, GuardInv

\* Accepting a token keeps the invariant of every token.
LEMMA AcceptedStep ==
    ASSUME GuardInv, NEW n \in Nonces, NEW t \in Timestamps, NEW time \in Later,
           Accepted(n, t, time)
    PROVE  GuardInv'
<1> DEFINE k == <<n, t>>
<1>a. /\ k \in Tokens /\ k[2] = t /\ t \in Int
      /\ Fresh \in Nat /\ Cleanup \in Nat /\ Start \in Nat /\ MaxTime \in Nat
      /\ 2 * Fresh <= Cleanup
  BY GuardAssumption, CleanupCoversWindow DEF Tokens, Timestamps
<1>b. /\ now \in Nat /\ lastCleanup \in Nat /\ lastCleanup <= now
      /\ seen \in SUBSET Tokens /\ accepts \in [Tokens -> Nat]
      /\ time \in Nat /\ now <= time
  BY DEF GuardInv, GuardTypeOK, Later
<1>c. /\ t - now <= Fresh /\ now - t <= Fresh
      /\ now' = time
      /\ accepts' = [accepts EXCEPT ![k] = @ + 1]
  BY DEF Accepted, isFreshTimestamp, SecondReading
<1>d. slow \in BOOLEAN /\ slow' = (slow \/ time > now + 1)
  BY DEF GuardInv, GuardTypeOK, Accepted, SecondReading
<1>e. slow' \in BOOLEAN
  BY <1>d
<1> HIDE DEF k
<1>1. CASE CleanupDue(time)
  <2>1. seen' = {k} /\ lastCleanup' = time /\ lastCleanup + Cleanup < time
    BY <1>1, <1>a, <1>b DEF Accepted, Known, CleanupDue, k
  <2>2. GuardTypeOK' /\ (lastCleanup <= now)'
    BY <1>a, <1>b, <1>c, <1>e, <2>1 DEF GuardTypeOK
  <2>3. ASSUME NEW j \in Tokens PROVE TokenInv(j)'
    <3>1. j[2] \in Int /\ TokenInv(j)
      BY GuardAssumption DEF Tokens, Timestamps, GuardInv
    <3>2. CASE j = k
      <4>1. /\ accepts'[j] = accepts[j] + 1 /\ accepts[j] \in Nat /\ accepts[j] <= 3
            /\ j[2] = t
        BY <1>a, <1>b, <1>c, <3>1, <3>2 DEF TokenInv
      <4>2. accepts[j] # 3
        BY <1>a, <1>b, <1>c, <3>1, <4>1 DEF TokenInv
      <4>3. accepts[j] = 2 => time > t + Fresh + 1
        BY <1>a, <1>b, <1>c, <2>1, <3>1, <4>1 DEF TokenInv
      <4>4. accepts[j] = 2 => slow'
        <5>1. accepts[j] = 2 => time > now + 1
          BY <1>a, <1>b, <1>c, <4>3
        <5>2. QED
          BY <1>d, <5>1, Zenon
      <4>5. accepts[j] = 1 => t - Fresh < time
        BY <1>a, <1>b, <1>c, <2>1, <3>1, <4>1 DEF TokenInv
      <4>6. QED
        BY <1>a, <1>b, <1>c, <2>1, <3>2, <4>1, <4>2, <4>3, <4>4, <4>5 DEF TokenInv
    <3>3. CASE j # k
      BY <1>a, <1>b, <1>c, <1>d, <2>1, <3>1, <3>3 DEF TokenInv
    <3>4. QED
      BY <3>2, <3>3
  <2>4. QED
    BY <2>2, <2>3 DEF GuardInv
<1>2. CASE ~CleanupDue(time)
  <2>1. /\ k \notin seen /\ seen' = seen \cup {k} /\ lastCleanup' = lastCleanup
        /\ time <= lastCleanup + Cleanup
    BY <1>2, <1>a, <1>b DEF Accepted, Known, CleanupDue, k
  <2>2. GuardTypeOK' /\ (lastCleanup <= now)'
    BY <1>a, <1>b, <1>c, <1>e, <2>1 DEF GuardTypeOK
  <2>3. ASSUME NEW j \in Tokens PROVE TokenInv(j)'
    <3>1. j[2] \in Int /\ TokenInv(j)
      BY GuardAssumption DEF Tokens, Timestamps, GuardInv
    <3>2. CASE j = k
      BY <1>a, <1>b, <1>c, <1>d, <2>1, <3>1, <3>2 DEF TokenInv
    <3>3. CASE j # k
      BY <1>a, <1>b, <1>c, <1>d, <2>1, <3>1, <3>3 DEF TokenInv
    <3>4. QED
      BY <3>2, <3>3
  <2>4. QED
    BY <2>2, <2>3 DEF GuardInv
<1>3. QED
  BY <1>1, <1>2

\* Every step keeps the invariant.
LEMMA GuardInvStep == GuardInv /\ [GuardNext]_guardVars => GuardInv'
<1> SUFFICES ASSUME GuardInv, [GuardNext]_guardVars PROVE GuardInv'
  OBVIOUS
<1>1. ASSUME now' \in Nat, now <= now', UNCHANGED <<seen, lastCleanup, accepts>>,
             slow' \in BOOLEAN, slow => slow'
      PROVE  GuardInv'
  BY <1>1 DEF GuardInv, GuardTypeOK, TokenInv
<1>2. ASSUME NEW n \in Nonces, NEW t \in Timestamps, accept(n, t) PROVE GuardInv'
  <2>1. ASSUME NEW time \in Later, Replayed(n, t, time) PROVE GuardInv'
    BY <1>1, <2>1 DEF Replayed, SecondReading, Later, GuardInv, GuardTypeOK
  <2>2. CASE Stale(t)
    BY <1>1, <2>2 DEF Stale, guardVars, GuardInv, GuardTypeOK
  <2>3. QED
    BY <1>2, <2>1, <2>2, AcceptedStep DEF accept
<1>3. CASE GuardTick
  BY <1>1, <1>3 DEF GuardTick, GuardInv, GuardTypeOK
<1>4. CASE UNCHANGED guardVars
  BY <1>1, <1>4 DEF guardVars, GuardInv, GuardTypeOK
<1>5. QED
  BY <1>2, <1>3, <1>4 DEF GuardNext

\* No token is accepted a third time, except by a request that lies still between
\* its two readings of the clock, and none a fourth time.
THEOREM ReplayBound == GuardSpec => []AcceptsBounded
<1>1. GuardInv => AcceptsBounded
  BY DEF GuardInv, TokenInv, AcceptsBounded
<1>2. QED
  BY <1>1, GuardInvInit, GuardInvStep, PTL DEF GuardSpec

=============================================================================
