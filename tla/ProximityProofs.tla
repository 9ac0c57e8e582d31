-------------------------- MODULE ProximityProofs --------------------------
(***************************************************************************)
(* The proximity scan, for every number of taps, devices and results.      *)
(***************************************************************************)
EXTENDS Proximity, TLAPS

\* No results at all, of any device.
LEMMA NoReadings ==
    /\ [d \in Devices |-> <<>>] \in [Devices -> Seq(Levels)]
    /\ [d \in Devices |-> FALSE] \in [Devices -> BOOLEAN]
<1>1. <<>> \in Seq(Levels)
  OBVIOUS
<1>2. QED
  BY <1>1

LEMMA ProximityInvInit == ProximityInit => ProximityInv
<1> SUFFICES ASSUME ProximityInit PROVE ProximityInv
  OBVIOUS
<1> USE DEF ProximityInit
<1>1. ProximityTypeOK
  BY NoReadings DEF ProximityTypeOK, Awaits
<1>2. Calm
  BY DEF Calm, Awaits
<1>3. ListenerKnown
  BY DEF ListenerKnown, SilentWhenOff
<1>4. HysteresisRight
  <2>1. DOMAIN << >> = {}
    OBVIOUS
  <2>2. QED
    BY <2>1 DEF HysteresisRight, InRange
<1>5. QED
  BY <1>1, <1>2, <1>3, <1>4 DEF ProximityInv

\* The types are kept.
LEMMA ProximityTypeStep ==
    ASSUME ProximityTypeOK, [ProximityNext]_proximityVars
    PROVE  ProximityTypeOK'
<1> USE DEF ProximityTypeOK
<1>1. ASSUME NEW t \in Tasks, ToggleOn(t) \/ ToggleOff(t) \/ dispose(t) PROVE ProximityTypeOK'
  BY <1>1 DEF ToggleOn, ToggleOff, dispose, Begin, Awaits
<1>2. ASSUME NEW t \in Tasks,
             OnStopScan(t) \/ OnListen(t) \/ OnStarted(t) \/ OnThrows(t)
      PROVE  ProximityTypeOK'
  BY <1>2 DEF OnStopScan, OnListen, OnStarted, OnThrows, Resume, Awaits
<1>3. ASSUME NEW t \in Tasks,
             StopScan(t) \/ StopCancels(t) \/ StopThrows(t) \/ StopClears(t)
      PROVE  ProximityTypeOK'
  BY <1>3, NoReadings DEF StopScan, StopCancels, StopThrows, StopClears, Resume, Awaits
<1>4. ASSUME NEW t \in Tasks, NEW d \in Devices, NEW rssi \in Levels, Result(t, d, rssi)
      PROVE  ProximityTypeOK'
  <2>1. IsNearby(nearby[d], rssi) \in BOOLEAN
    <3>1. (rssi >= farThreshold) \in BOOLEAN /\ (rssi >= nearThreshold) \in BOOLEAN
      BY ProximityAssumption
    <3>2. QED
      BY <3>1, Zenon DEF IsNearby
  <2>2. Append(readings[d], rssi) \in Seq(Levels)
    OBVIOUS
  <2>3. nearby' \in [Devices -> BOOLEAN] /\ readings' \in [Devices -> Seq(Levels)]
    BY <1>4, <2>1, <2>2 DEF Result
  <2>4. QED
    BY <1>4, <2>3 DEF Result
<1>5. CASE UNCHANGED proximityVars
  BY <1>5 DEF proximityVars
<1>6. QED
  BY <1>1, <1>2, <1>3, <1>4, <1>5 DEF ProximityNext

-----------------------------------------------------------------------------
(* What a stop leaves behind *)

\* A task that starts alone finds the service idle.
LEMMA CalmBegin ==
    ASSUME ProximityTypeOK, Calm, ~overlapped', NEW t \in Tasks,
           ToggleOn(t) \/ ToggleOff(t) \/ dispose(t)
    PROVE  Calm'
<1>a. Idle /\ pc[t] = "unused" /\ mounted
  BY DEF ToggleOn, ToggleOff, dispose, Begin
<1>b. \A u \in Tasks : pc[u] \notin Awaits
  BY <1>a DEF Idle
<1>1. \A u \in Tasks : u # t => pc'[u] = pc[u]
  BY DEF ProximityTypeOK, ToggleOn, ToggleOff, dispose, Begin
<1>2. pc'[t] \in {"onCancel", "uiCancel", "stop"}
  BY DEF ProximityTypeOK, ToggleOn, ToggleOff, dispose, Begin
<1>3. ~Idle'
  BY <1>2 DEF Idle, Awaits
<1>4. \A u, v \in Tasks : pc'[u] \in Awaits /\ pc'[v] \in Awaits => u = v
  BY <1>1, <1>b
<1>5. active' \subseteq {subscription'} \cap Tasks
  BY DEF Calm, ToggleOn, ToggleOff, dispose
<1>6. ASSUME NEW u \in Tasks
      PROVE  /\ pc'[u] \in {"onCancel", "onStop", "onStart"} => proximity' /\ mounted'
             /\ pc'[u] \in {"onCancel", "onStop"} => active' = {}
             /\ pc'[u] \in {"uiCancel", "stop", "cancel"} => ~(proximity' /\ mounted')
             /\ pc'[u] = "cancel" => active' = {} /\ ~scanning'
  <2>1. CASE u # t
    BY <2>1, <1>1, <1>b DEF Awaits
  <2>2. CASE u = t /\ ToggleOn(t)
    <3>1. pc'[u] = "onCancel" /\ proximity' = TRUE /\ mounted' = TRUE
      BY <2>2, <1>a DEF ProximityTypeOK, ToggleOn, Begin
    <3>2. active' = {}
      BY <2>2 DEF Calm, ToggleOn
    <3>3. QED
      BY <3>1, <3>2
  <2>3. CASE u = t /\ ToggleOff(t)
    BY <2>3 DEF ProximityTypeOK, ToggleOff, Begin
  <2>4. CASE u = t /\ dispose(t)
    BY <2>4 DEF ProximityTypeOK, dispose, Begin
  <2>5. QED
    BY <2>1, <2>2, <2>3, <2>4
<1>7. QED
  BY <1>3, <1>4, <1>5, <1>6 DEF Calm

\* A task that goes on is the only one; when it ends, the service is idle.
LEMMA CalmResume ==
    ASSUME ProximityTypeOK, Calm, NEW t \in Tasks,
           \/ OnStopScan(t) \/ OnListen(t) \/ OnStarted(t) \/ OnThrows(t)
           \/ StopScan(t) \/ StopCancels(t) \/ StopThrows(t) \/ StopClears(t)
    PROVE  Calm'
<1>a. pc[t] \in Awaits /\ UNCHANGED <<proximity, mounted>>
  BY DEF OnStopScan, OnListen, OnStarted, OnThrows, StopScan, StopCancels, StopThrows,
         StopClears, Resume, Awaits
<1>b. \A u \in Tasks : u # t => pc'[u] = pc[u] /\ pc[u] \notin Awaits
  BY <1>a DEF Calm, ProximityTypeOK, OnStopScan, OnListen, OnStarted, OnThrows, StopScan,
              StopCancels, StopThrows, StopClears, Resume
<1>1. \A u, v \in Tasks : pc'[u] \in Awaits /\ pc'[v] \in Awaits => u = v
  BY <1>b
<1>2. ASSUME NEW u \in Tasks, u # t, pc'[u] \in Awaits PROVE FALSE
  BY <1>2, <1>b
<1>c. /\ pc[t] \in {"onCancel", "onStop", "onStart"} => proximity /\ mounted
      /\ pc[t] \in {"onCancel", "onStop"} => active = {}
      /\ pc[t] \in {"uiCancel", "stop", "cancel"} => ~(proximity /\ mounted)
      /\ pc[t] = "cancel" => active = {} /\ ~scanning
      /\ active \subseteq {subscription} \cap Tasks
  BY DEF Calm
<1> DEFINE Mine ==
      /\ pc'[t] \in {"onCancel", "onStop", "onStart"} => proximity' /\ mounted'
      /\ pc'[t] \in {"onCancel", "onStop"} => active' = {}
      /\ pc'[t] \in {"uiCancel", "stop", "cancel"} => ~(proximity' /\ mounted')
      /\ pc'[t] = "cancel" => active' = {} /\ ~scanning'
      /\ active' \subseteq {subscription'} \cap Tasks
      /\ pc'[t] = "done" /\ ~stopFailed' /\ ~(proximity' /\ mounted') =>
           active' = {} /\ ~scanning' /\ \A d \in Devices : ~nearby'[d]
<1>3. Mine
  <2>1. CASE OnStopScan(t)
    BY <2>1, <1>a, <1>c DEF ProximityTypeOK, OnStopScan, Resume
  <2>2. CASE OnListen(t)
    BY <2>2, <1>a, <1>c DEF ProximityTypeOK, OnListen, Resume
  <2>3. CASE OnStarted(t)
    BY <2>3, <1>a, <1>c DEF ProximityTypeOK, OnStarted, Resume
  <2>4. CASE OnThrows(t)
    BY <2>4, <1>a, <1>c DEF ProximityTypeOK, OnThrows, Resume
  <2>5. CASE StopScan(t)
    BY <2>5, <1>a, <1>c DEF ProximityTypeOK, StopScan, Resume
  <2>6. CASE StopCancels(t)
    BY <2>6, <1>a, <1>c DEF ProximityTypeOK, StopCancels, Resume
  <2>7. CASE StopThrows(t)
    BY <2>7, <1>a, <1>c DEF ProximityTypeOK, StopThrows, Resume
  <2>8. CASE StopClears(t)
    BY <2>8, <1>a, <1>c DEF ProximityTypeOK, StopClears, Resume
  <2>9. QED
    BY <2>1, <2>2, <2>3, <2>4, <2>5, <2>6, <2>7, <2>8
<1>4. Idle' => pc'[t] = "done"
  BY DEF Idle, ProximityTypeOK, OnStopScan, OnListen, OnStarted, OnThrows, StopScan,
         StopCancels, StopThrows, StopClears, Resume, Awaits
<1>5. \A u \in Tasks :
         /\ pc'[u] \in {"onCancel", "onStop", "onStart"} => proximity' /\ mounted'
         /\ pc'[u] \in {"onCancel", "onStop"} => active' = {}
         /\ pc'[u] \in {"uiCancel", "stop", "cancel"} => ~(proximity' /\ mounted')
         /\ pc'[u] = "cancel" => active' = {} /\ ~scanning'
  <2> SUFFICES ASSUME NEW u \in Tasks
               PROVE  /\ pc'[u] \in {"onCancel", "onStop", "onStart"} => proximity' /\ mounted'
                      /\ pc'[u] \in {"onCancel", "onStop"} => active' = {}
                      /\ pc'[u] \in {"uiCancel", "stop", "cancel"} => ~(proximity' /\ mounted')
                      /\ pc'[u] = "cancel" => active' = {} /\ ~scanning'
    OBVIOUS
  <2>1. CASE u = t
    BY <2>1, <1>3
  <2>2. CASE u # t
    BY <2>2, <1>b DEF Awaits
  <2>3. QED
    BY <2>1, <2>2
<1>6. QED
  BY <1>1, <1>3, <1>4, <1>5 DEF Calm

\* A result comes in only while somebody is subscribed.
LEMMA CalmResult ==
    ASSUME ProximityTypeOK, Calm, NEW t \in Tasks, NEW d \in Devices, NEW rssi \in Levels,
           Result(t, d, rssi)
    PROVE  Calm'
BY DEF Calm, Idle, Result

-----------------------------------------------------------------------------
(* The listener of the page *)

LEMMA ListenerStep ==
    ASSUME ProximityTypeOK, ListenerKnown, [ProximityNext]_proximityVars
    PROVE  ListenerKnown'
<1>1. ASSUME NEW t \in Tasks, ToggleOn(t) \/ ToggleOff(t) \/ dispose(t) PROVE ListenerKnown'
  <2>1. CASE ToggleOn(t)
    BY <2>1 DEF ListenerKnown, SilentWhenOff, ToggleOn, Begin
  <2>2. CASE ToggleOff(t) \/ dispose(t)
    BY <2>2 DEF ListenerKnown, SilentWhenOff, ToggleOff, dispose
  <2>3. QED
    BY <1>1, <2>1, <2>2
<1>2. ASSUME UNCHANGED <<mounted, proximity, listeners, uiSubscription>> PROVE ListenerKnown'
  BY <1>2 DEF ListenerKnown, SilentWhenOff
<1>3. QED
  BY <1>1, <1>2
  DEF ProximityNext, OnStopScan, OnListen, OnStarted, OnThrows, StopScan, StopCancels,
      StopThrows, StopClears, Result, proximityVars

-----------------------------------------------------------------------------
(* The hysteresis *)

\* One more result decides as IsNearby does.
LEMMA OneMore ==
    ASSUME NEW s \in Seq(Levels), NEW rssi \in Levels, NEW near \in BOOLEAN,
           near <=> InRange(s)
    PROVE  IsNearby(near, rssi) <=> InRange(Append(s, rssi))
<1> DEFINE n == Len(s)
           r == Append(s, rssi)
<1>a. /\ n \in Nat /\ DOMAIN s = 1 .. n /\ DOMAIN r = 1 .. n + 1 /\ Len(r) = n + 1
      /\ \A i \in 1 .. n : r[i] = s[i] /\ s[i] \in Int
      /\ r[n + 1] = rssi /\ rssi \in Int
      /\ nearThreshold \in Int /\ farThreshold \in Int /\ farThreshold <= nearThreshold
  <2>1. Levels \subseteq Int /\ \A i \in 1 .. Len(s) : s[i] \in Levels
    BY ProximityAssumption
  <2>2. /\ n \in Nat /\ DOMAIN s = 1 .. n
        /\ DOMAIN r = 1 .. n + 1 /\ Len(r) = n + 1 /\ r[n + 1] = rssi
        /\ \A i \in 1 .. n : r[i] = s[i]
    OBVIOUS
  <2>3. QED
    BY <2>1, <2>2, ProximityAssumption
<1> HIDE DEF r
<1>1. ASSUME InRange(s), rssi >= farThreshold PROVE InRange(r)
  <2>1. PICK i \in 1 .. n : s[i] >= nearThreshold /\ \A j \in i .. n : s[j] >= farThreshold
    BY <1>1, <1>a DEF InRange
  <2>2. i \in DOMAIN r /\ r[i] >= nearThreshold
    BY <2>1, <1>a
  <2>3. \A j \in i .. n + 1 : r[j] >= farThreshold
    BY <2>1, <1>1, <1>a
  <2>4. QED
    BY <2>2, <2>3, <1>a DEF InRange
<1>2. ASSUME rssi >= nearThreshold PROVE InRange(r)
  <2>1. n + 1 \in DOMAIN r /\ r[n + 1] >= nearThreshold
    BY <1>2, <1>a
  <2>2. \A j \in n + 1 .. n + 1 : r[j] >= farThreshold
    BY <1>2, <1>a
  <2>3. QED
    BY <2>1, <2>2, <1>a DEF InRange
<1>3. ASSUME InRange(r)
      PROVE  rssi >= nearThreshold \/ (InRange(s) /\ rssi >= farThreshold)
  <2>1. PICK i \in 1 .. n + 1 :
          r[i] >= nearThreshold /\ \A j \in i .. n + 1 : r[j] >= farThreshold
    BY <1>3, <1>a DEF InRange
  <2>2. CASE i = n + 1
    BY <2>1, <2>2, <1>a
  <2>3. CASE i \in 1 .. n
    <3>1. s[i] >= nearThreshold /\ \A j \in i .. n : s[j] >= farThreshold
      BY <2>1, <2>3, <1>a
    <3>2. rssi >= farThreshold
      BY <2>1, <2>3, <1>a
    <3>3. QED
      BY <2>3, <3>1, <3>2, <1>a DEF InRange
  <2>4. QED
    BY <2>1, <2>2, <2>3, <1>a
<1>4. QED
  BY <1>1, <1>2, <1>3, <1>a DEF IsNearby, r

LEMMA HysteresisStep ==
    ASSUME ProximityTypeOK, HysteresisRight, [ProximityNext]_proximityVars
    PROVE  HysteresisRight'
<1>1. ASSUME NEW t \in Tasks, NEW d \in Devices, NEW rssi \in Levels, Result(t, d, rssi)
      PROVE  HysteresisRight'
  <2> SUFFICES ASSUME NEW e \in Devices PROVE nearby'[e] <=> InRange(readings'[e])
    BY DEF HysteresisRight
  <2>a. nearby[e] \in BOOLEAN /\ readings[e] \in Seq(Levels) /\ (nearby[e] <=> InRange(readings[e]))
    BY DEF ProximityTypeOK, HysteresisRight
  <2>1. CASE e # d
    BY <1>1, <2>1, <2>a DEF Result, ProximityTypeOK
  <2>2. CASE e = d
    <3>1. nearby'[e] = IsNearby(nearby[e], rssi) /\ readings'[e] = Append(readings[e], rssi)
      BY <1>1, <2>2 DEF Result, ProximityTypeOK
    <3>2. QED
      BY <3>1, <2>a, OneMore
  <2>3. QED
    BY <2>1, <2>2
<1>2. ASSUME NEW t \in Tasks, StopClears(t) PROVE HysteresisRight'
  <2>1. DOMAIN << >> = {}
    OBVIOUS
  <2>2. QED
    BY <1>2, <2>1 DEF HysteresisRight, InRange, StopClears
<1>3. ASSUME UNCHANGED <<nearby, readings>> PROVE HysteresisRight'
  BY <1>3 DEF HysteresisRight
<1>4. QED
  BY <1>1, <1>2, <1>3
  DEF ProximityNext, ToggleOn, ToggleOff, dispose, OnStopScan, OnListen, OnStarted, OnThrows,
      StopScan, StopCancels, StopThrows, proximityVars

-----------------------------------------------------------------------------

LEMMA CalmStep ==
    ASSUME ProximityTypeOK, ~overlapped => Calm, ~overlapped', [ProximityNext]_proximityVars
    PROVE  Calm'
<1>1. ~overlapped
  BY DEF ProximityNext, ToggleOn, ToggleOff, dispose, Begin, OnStopScan, OnListen, OnStarted,
         OnThrows, StopScan, StopCancels, StopThrows, StopClears, Result, proximityVars
<1>2. CASE UNCHANGED proximityVars
  BY <1>1, <1>2 DEF Calm, Idle, proximityVars
<1>3. QED
  BY <1>1, <1>2, CalmBegin, CalmResume, CalmResult DEF ProximityNext

\* The invariant of the scan and of its switch.
THEOREM ProximityInvariance == ProximitySpec => []ProximityInv
<1>1. ProximityInv /\ [ProximityNext]_proximityVars => ProximityInv'
  BY ProximityTypeStep, CalmStep, ListenerStep, HysteresisStep DEF ProximityInv
<1>2. QED
  BY <1>1, ProximityInvInit, PTL DEF ProximitySpec

\* A stop that has ended leaves no subscription, no scan and no nearby device,
\* if no two taps overlapped.
THEOREM StopsAreComplete == ProximitySpec => []OffMeansOff
<1>1. ProximityInv => OffMeansOff
  BY DEF ProximityInv, Calm, OffMeansOff
<1>2. QED
  BY <1>1, ProximityInvariance, PTL

\* Nothing listens to the scan while the switch is off, overlapping taps or not.
THEOREM SwitchSilences == ProximitySpec => []SilentWhenOff
<1>1. ProximityInv => SilentWhenOff
  BY DEF ProximityInv, ListenerKnown
<1>2. QED
  BY <1>1, ProximityInvariance, PTL

\* The hysteresis computes what its definition over all results says.
THEOREM HysteresisIsRight == ProximitySpec => []HysteresisRight
<1>1. ProximityInv => HysteresisRight
  BY DEF ProximityInv
<1>2. QED
  BY <1>1, ProximityInvariance, PTL

=============================================================================
