-------------------------- MODULE DashboardProofs --------------------------
(***************************************************************************)
(* The window keeps up with the server and the scan, for every number of   *)
(* devices, codes, beacons and levels; and what is proved of the server    *)
(* alone holds with the window around it.                                  *)
(***************************************************************************)
EXTENDS Dashboard, DesktopProofs, SequenceTheorems

\* Every step of the window is a step of the server, or leaves it alone.
LEMMA DashboardStep ==
    ASSUME [DashboardNext]_dashboardVars
    PROVE  [DesktopNext]_allVars
<1>1. ASSUME NEW p \in Phones, NEW d \in Devices, PairListed(p, d) PROVE DesktopNext
  BY <1>1 DEF PairListed, DesktopNext
<1>2. ASSUME NEW p \in Phones, NEW d \in Devices, NEW s \in Phones \cup {NoPhone},
             NEW n \in Nonces, NEW t \in Timestamps, VerifyServed(p, d, s, n, t)
      PROVE  DesktopNext
  BY <1>2 DEF VerifyServed, DesktopNext
<1>3. CASE Launch \/ LaunchFailed \/ Quit \/ showPairing \/ TickShown
  BY <1>3 DEF Launch, StartScan, LaunchFailed, Quit, showPairing, TickShown, DesktopNext
<1>4. CASE CloseWindow \/ OpenWindow \/ CloseDialog \/ ScanEnds \/ EditThreshold
  BY <1>4 DEF CloseWindow, OpenWindow, CloseDialog, ScanEnds, EditThreshold
<1>5. ASSUME NEW b \in Beacons, NEW rssi \in Levels \cup {0}, discovered(b, rssi)
      PROVE  UNCHANGED allVars
  BY <1>5 DEF discovered, deviceFound
<1>6. CASE UNCHANGED dashboardVars
  BY <1>6 DEF dashboardVars
<1>7. QED
  BY <1>1, <1>2, <1>3, <1>4, <1>5, <1>6 DEF DashboardNext

\* The controller with its window implements the server of module Desktop, so
\* its codes, unlocks and replay guard are as good as those proved there.
THEOREM ServerInside == DashboardSpec => DesktopSpec
<1>1. DashboardInit => DesktopInit
  BY DEF DashboardInit
<1>2. [DashboardNext]_dashboardVars => [DesktopNext]_allVars
  BY DashboardStep
<1>3. QED
  BY <1>1, <1>2, PTL DEF DashboardSpec, DesktopSpec

\* The server's types, in the composition.
ServerInv == GuardInv /\ DesktopTypeOK

LEMMA ServerInvInit == DashboardInit => ServerInv
BY GuardInvInit, DesktopTypeInit DEF DashboardInit, DesktopInit, ServerInv

LEMMA ServerInvStep ==
    ASSUME ServerInv, [DashboardNext]_dashboardVars
    PROVE  ServerInv'
<1>1. [DesktopNext]_allVars
  BY DashboardStep
<1>2. GuardInv'
  BY <1>1, GuardStep, GuardInvStep DEF ServerInv
<1>3. DesktopTypeOK'
  BY <1>1, <1>2, DesktopTypeStep DEF ServerInv, GuardInv
<1>4. QED
  BY <1>2, <1>3 DEF ServerInv

-----------------------------------------------------------------------------
(* The dialog *)

\* Dialogs are open only while the program runs, and show codes.
DialogInv ==
    /\ dialogs \subseteq Codes
    /\ phase # "running" => dialogs = {}
    /\ DialogCodeLive

\* A code leaves the server in one way while it is on screen: a phone pairs with
\* it.  The dialog is modal, so nobody asks for another.
LEMMA DialogStep ==
    ASSUME ServerInv, DialogInv, [DashboardNext]_dashboardVars
    PROVE  DialogInv'
<1>a. /\ NoCode \notin Codes
      /\ pairings \in Seq(Pairing)
  BY DesktopAssumption DEF ServerInv, DesktopTypeOK
<1>1. ASSUME UNCHANGED <<pairingCode, pairings, phase>>, dialogs' \subseteq dialogs
      PROVE  DialogInv'
  BY <1>1 DEF DialogInv, DialogCodeLive
<1>2. ASSUME dialogs' = {} PROVE DialogInv'
  BY <1>2 DEF DialogInv, DialogCodeLive
<1>3. CASE Launch \/ LaunchFailed \/ Quit
  BY <1>2, <1>3 DEF Launch, StartScan, LaunchFailed, Quit, start, startFailed, windowVars, DialogInv
<1>4. CASE showPairing
  <2>1. pairingCode' \in Codes
    <3>1. ASSUME NEW code \in Codes, DrawCode(code) PROVE pairingCode' \in Codes
      BY <3>1 DEF DrawCode
    <3>2. CASE pairingCode # NoCode /\ UNCHANGED pairingCode
      BY <3>2 DEF ServerInv, DesktopTypeOK
    <3>3. QED
      BY <1>4, <3>1, <3>2 DEF showPairing, PairingDialog, pairingPayload
  <2>2. dialogs' = {pairingCode'} /\ phase' = "running"
    BY <1>4 DEF showPairing, PairingDialog, Reachable, pairingPayload
  <2>3. QED
    BY <2>1, <2>2 DEF DialogInv, DialogCodeLive
<1>5. ASSUME NEW p \in Phones, NEW d \in Devices, PairListed(p, d) PROVE DialogInv'
  <2>1. Pair(p, d) /\ dialogs' = dialogs /\ phase' = phase
    BY <1>5 DEF PairListed, Pair
  <2>2. PICK code \in shown \cup {NoCode} :
          /\ code = pairingCode
          /\ pairings' = Append(pairings,
               [device |-> d, phone |-> p, code |-> code, at |-> now])
    BY <2>1 DEF Pair, PairAccepted
  <2>3. [device |-> d, phone |-> p, code |-> code, at |-> now] \in Pairing
    BY <2>2 DEF ServerInv, DesktopTypeOK, GuardTypeOK, Pairing
  <2>4. /\ \A i \in DOMAIN pairings : i \in DOMAIN pairings' /\ pairings'[i] = pairings[i]
        /\ \E i \in DOMAIN pairings' : pairings'[i].code = pairingCode
    <3> DEFINE x == [device |-> d, phone |-> p, code |-> code, at |-> now]
    <3>1. /\ Len(pairings) \in Nat /\ DOMAIN pairings = 1 .. Len(pairings)
          /\ DOMAIN pairings' = 1 .. Len(pairings) + 1
          /\ \A i \in 1 .. Len(pairings) : pairings'[i] = pairings[i]
          /\ pairings'[Len(pairings) + 1] = x
      BY <1>a, <2>2, <2>3, AppendFacts
    <3>2. x.code = pairingCode
      BY <2>2
    <3>3. Len(pairings) + 1 \in DOMAIN pairings'
      BY <3>1
    <3>4. QED
      BY <3>1, <3>2, <3>3
  <2>5. DialogCodeLive'
    <3> SUFFICES ASSUME NEW c \in dialogs
                 PROVE  \E i \in DOMAIN pairings' : pairings'[i].code = c
      BY <2>1 DEF DialogCodeLive
    <3>1. CASE c = pairingCode
      BY <2>4, <3>1
    <3>2. CASE \E i \in DOMAIN pairings : pairings[i].code = c
      BY <2>4, <3>2
    <3>3. QED
      BY <3>1, <3>2 DEF DialogInv, DialogCodeLive
  <2>6. QED
    BY <2>1, <2>5 DEF DialogInv
<1>6. ASSUME NEW p \in Phones, NEW d \in Devices, NEW s \in Phones \cup {NoPhone},
             NEW n \in Nonces, NEW t \in Timestamps, VerifyServed(p, d, s, n, t)
      PROVE  DialogInv'
  BY <1>1, <1>6 DEF VerifyServed, Verify, codeVars, windowVars
<1>7. CASE CloseDialog
  BY <1>1, <1>7 DEF CloseDialog, allVars, desktopVars, codeVars
<1>8. CASE CloseWindow \/ OpenWindow \/ ScanEnds \/ EditThreshold
  BY <1>1, <1>8
  DEF CloseWindow, OpenWindow, ScanEnds, EditThreshold, allVars, desktopVars, codeVars
<1>9. ASSUME NEW b \in Beacons, NEW rssi \in Levels \cup {0}, discovered(b, rssi)
      PROVE  DialogInv'
  BY <1>1, <1>9 DEF discovered, deviceFound, allVars, desktopVars, codeVars
<1>10. CASE TickShown
  BY <1>1, <1>10 DEF TickShown, DesktopTick, desktopVars, codeVars, windowVars
<1>11. CASE UNCHANGED dashboardVars
  BY <1>1, <1>11 DEF dashboardVars, allVars, desktopVars, codeVars, windowVars
<1>12. QED
  BY <1>3, <1>4, <1>5, <1>6, <1>7, <1>8, <1>9, <1>10, <1>11 DEF DashboardNext

\* The code in an open dialog is the server's current one until a phone uses it.
THEOREM DialogsShowLiveCodes == DashboardSpec => []DialogCodeLive
<1>1. DashboardInit => ServerInv /\ DialogInv
  BY ServerInvInit DEF DashboardInit, DesktopInit, DialogInv, DialogCodeLive
<1>2. ServerInv /\ DialogInv /\ [DashboardNext]_dashboardVars => (ServerInv /\ DialogInv)'
  BY ServerInvStep, DialogStep
<1>3. DialogInv => DialogCodeLive
  BY DEF DialogInv
<1>4. QED
  BY <1>1, <1>2, <1>3, PTL DEF DashboardSpec

-----------------------------------------------------------------------------
(* The rows *)

\* The elements of two parts with one element missing in between.
LEMMA JoinFacts ==
    ASSUME NEW len \in Nat, NEW row \in 1 .. len, NEW s, NEW t, NEW a, NEW b,
           \A i \in 1 .. row - 1 : a[i] = s[i],
           \A i \in 1 .. len - row : b[i] = s[row + i],
           \A i \in 1 .. len - 1 : t[i] = IF i <= row - 1 THEN a[i] ELSE b[i - (row - 1)]
    PROVE  \A i \in 1 .. len - 1 : t[i] = IF i < row THEN s[i] ELSE s[i + 1]
<1> SUFFICES ASSUME NEW i \in 1 .. len - 1
             PROVE  t[i] = IF i < row THEN s[i] ELSE s[i + 1]
  OBVIOUS
<1>1. CASE i < row
  BY <1>1
<1>2. CASE i >= row
  <2>1. i - (row - 1) \in 1 .. len - row /\ row + (i - (row - 1)) = i + 1
    BY <1>2
  <2>2. b[i - (row - 1)] = s[i + 1]
    BY <2>1
  <2>3. QED
    BY <1>2, <2>2
<1>3. QED
  BY <1>1, <1>2

\* What is left of a sequence without one element.
LEMMA TakeFacts ==
    ASSUME NEW S, NEW s \in Seq(S), NEW row \in 1 .. Len(s)
    PROVE  LET t == SubSeq(s, 1, row - 1) \o SubSeq(s, row + 1, Len(s)) IN
           /\ t \in Seq(S)
           /\ Len(t) = Len(s) - 1
           /\ \A i \in 1 .. Len(s) - 1 : t[i] = IF i < row THEN s[i] ELSE s[i + 1]
<1> DEFINE a == SubSeq(s, 1, row - 1)
           b == SubSeq(s, row + 1, Len(s))
           t == a \o b
<1>1. /\ a \in Seq(S) /\ Len(a) = row - 1
      /\ \A i \in 1 .. row - 1 : a[i] = s[i]
  OBVIOUS
<1>2. /\ b \in Seq(S) /\ Len(b) = Len(s) - row
      /\ \A i \in 1 .. Len(s) - row : b[i] = s[row + i]
  OBVIOUS
<1> HIDE DEF a, b
<1>3. /\ t \in Seq(S) /\ Len(t) = Len(a) + Len(b)
      /\ \A i \in 1 .. Len(a) + Len(b) : t[i] = IF i <= Len(a) THEN a[i] ELSE b[i - Len(a)]
  BY <1>1, <1>2, ConcatProperties
<1> HIDE DEF t
<1>4. Len(s) \in Nat /\ Len(a) + Len(b) = Len(s) - 1
  BY <1>1, <1>2
<1>5. \A i \in 1 .. Len(s) - 1 : t[i] = IF i <= row - 1 THEN a[i] ELSE b[i - (row - 1)]
  BY <1>1, <1>3, <1>4
<1>6. \A i \in 1 .. Len(s) - 1 : t[i] = IF i < row THEN s[i] ELSE s[i + 1]
  BY <1>1, <1>2, <1>4, <1>5, JoinFacts
<1>7. t \in Seq(S) /\ Len(t) = Len(s) - 1
  BY <1>3, <1>4
<1>8. QED
  BY <1>6, <1>7 DEF t, a, b

Unique == \A i, j \in DOMAIN deviceList : deviceList[i] = deviceList[j] => i = j

\* setDevice leaves one row for a device that is there and none for one that is
\* not, and does not touch the rows of others.
LEMMA SetDeviceFacts ==
    ASSUME deviceList \in Seq(Ids), Unique, NEW id \in Ids, NEW connected \in BOOLEAN,
           setDevice(id, connected)
    PROVE  /\ deviceList' \in Seq(Ids)
           /\ Unique'
           /\ Listed(id)' <=> connected
           /\ \A x : x # id => (Listed(x)' <=> Listed(x))
<1>1. CASE (Listed(id) <=> connected) /\ UNCHANGED deviceList
  BY <1>1 DEF Unique, Listed
<1>2. ASSUME ~connected, NEW row \in DOMAIN deviceList, deviceList[row] = id,
             deviceList' = takeItem(row)
      PROVE  /\ deviceList' \in Seq(Ids)
             /\ Unique'
             /\ ~Listed(id)'
             /\ \A x : x # id => (Listed(x)' <=> Listed(x))
  <2>1. row \in 1 .. Len(deviceList) /\ Len(deviceList) \in Nat
        /\ DOMAIN deviceList = 1 .. Len(deviceList)
    BY <1>2
  <2>2. /\ deviceList' \in Seq(Ids)
        /\ Len(deviceList') = Len(deviceList) - 1
        /\ \A i \in 1 .. Len(deviceList) - 1 :
             deviceList'[i] = IF i < row THEN deviceList[i] ELSE deviceList[i + 1]
    <3>1. deviceList' = SubSeq(deviceList, 1, row - 1)
                           \o SubSeq(deviceList, row + 1, Len(deviceList))
      BY <1>2 DEF takeItem
    <3>2. QED
      BY <2>1, <3>1, TakeFacts
  <2>3. DOMAIN deviceList' = 1 .. Len(deviceList) - 1
    BY <2>2
  <2>4. Unique'
    <3> SUFFICES ASSUME NEW i \in 1 .. Len(deviceList) - 1, NEW j \in 1 .. Len(deviceList) - 1,
                        deviceList'[i] = deviceList'[j]
                 PROVE  i = j
      BY <2>3 DEF Unique
    <3> DEFINE old(k) == IF k < row THEN k ELSE k + 1
    <3>1. /\ old(i) \in DOMAIN deviceList /\ deviceList'[i] = deviceList[old(i)]
          /\ old(j) \in DOMAIN deviceList /\ deviceList'[j] = deviceList[old(j)]
      BY <2>1, <2>2
    <3>2. old(i) = old(j)
      BY <3>1 DEF Unique
    <3>3. QED
      BY <2>1, <3>2
  <2>5. ~Listed(id)'
    BY <1>2, <2>1, <2>2, <2>3 DEF Listed, Unique
  <2>6. ASSUME NEW x, x # id, Listed(x) PROVE Listed(x)'
    <3>1. PICK i \in 1 .. Len(deviceList) : deviceList[i] = x
      BY <2>1, <2>6 DEF Listed
    <3>2. CASE i < row
      BY <2>1, <2>2, <2>3, <3>1, <3>2 DEF Listed
    <3>3. CASE i > row
      <4>1. i - 1 \in DOMAIN deviceList' /\ deviceList'[i - 1] = x
        BY <2>1, <2>2, <2>3, <3>1, <3>3
      <4>2. QED
        BY <4>1 DEF Listed
    <3>4. QED
      BY <1>2, <2>1, <2>6, <3>1, <3>2, <3>3
  <2>7. ASSUME NEW x, Listed(x)' PROVE Listed(x)
    BY <2>1, <2>2, <2>3, <2>7 DEF Listed
  <2>8. QED
    BY <2>2, <2>4, <2>5, <2>6, <2>7
<1>3. CASE ~Listed(id) /\ connected /\ deviceList' = Append(deviceList, id)
  <2>1. /\ deviceList' \in Seq(Ids)
        /\ Len(deviceList) \in Nat /\ DOMAIN deviceList = 1 .. Len(deviceList)
        /\ DOMAIN deviceList' = 1 .. Len(deviceList) + 1
        /\ \A i \in 1 .. Len(deviceList) : deviceList'[i] = deviceList[i]
        /\ deviceList'[Len(deviceList) + 1] = id
    BY <1>3, AppendFacts
  <2>2. Unique'
    BY <1>3, <2>1 DEF Unique, Listed
  <2>3. Listed(id)'
    BY <2>1 DEF Listed
  <2>4. ASSUME NEW x, x # id PROVE Listed(x)' <=> Listed(x)
    BY <2>1, <2>4 DEF Listed
  <2>5. QED
    BY <1>3, <2>1, <2>2, <2>3, <2>4
<1>4. QED
  BY <1>1, <1>2, <1>3 DEF setDevice

\* Nothing that the rows depend on has changed.
LEMMA RowsKept ==
    ASSUME DashboardInv, UNCHANGED <<deviceList, pairedKeys, nearThreshold, farThreshold, heard>>
    PROVE  DashboardInv'
BY DEF DashboardInv, RowsJustified, Listed, Paired

\* Every step keeps the rows and the thresholds in order.
LEMMA RowsStep ==
    ASSUME ServerInv, DashboardInv, [DashboardNext]_dashboardVars
    PROVE  DashboardInv'
<1>a. /\ deviceList \in Seq(Ids) /\ Unique
      /\ nearThreshold \in Int /\ farThreshold \in Int /\ farThreshold <= nearThreshold
      /\ Levels \subseteq Int /\ deviceUuid \in [Beacons -> BleIds]
      /\ pairedKeys \in [Devices -> Phones \cup {NoPhone}]
  BY DashboardAssumption DEF DashboardInv, Unique, ServerInv, DesktopTypeOK
<1>1. ASSUME NEW p \in Phones, NEW d \in Devices, PairListed(p, d) PROVE DashboardInv'
  <2>1. /\ pairedKeys' = [pairedKeys EXCEPT ![d] = p]
        /\ setDevice(d, TRUE)
        /\ UNCHANGED <<nearThreshold, farThreshold, heard>>
    BY <1>1 DEF PairListed, Pair, StoreKeys
  <2>2. /\ deviceList' \in Seq(Ids) /\ Unique' /\ Listed(d)'
        /\ \A x : x # d => (Listed(x)' <=> Listed(x))
    BY <1>a, <2>1, SetDeviceFacts DEF Ids
  <2>3. \A e \in Devices \ BleIds : pairedKeys'[e] # NoPhone => Listed(e)'
    BY <1>a, <2>1, <2>2 DEF DashboardInv
  <2>4. RowsJustified'
    <3>1. Paired(d)'
      BY <1>a, <2>1, DesktopAssumption DEF Paired
    <3>2. \A x : Paired(x) => Paired(x)'
      BY <1>a, <2>1, DesktopAssumption DEF Paired
    <3>3. QED
      BY <2>1, <2>2, <3>1, <3>2 DEF DashboardInv, RowsJustified
  <2>5. QED
    BY <1>a, <2>1, <2>2, <2>3, <2>4 DEF DashboardInv, Unique
<1>2. ASSUME NEW b \in Beacons, NEW rssi \in Levels \cup {0}, discovered(b, rssi)
      PROVE  DashboardInv'
  <2> DEFINE id == deviceUuid[b]
  <2>1. /\ id \in BleIds /\ id \in Ids
        /\ setDevice(id, rssi >= nearThreshold)
        /\ heard' = [heard EXCEPT ![id] =
              (IF rssi >= nearThreshold THEN {"near"} ELSE {})
                \cup (IF rssi < farThreshold THEN {"far"} ELSE {})]
        /\ UNCHANGED <<nearThreshold, farThreshold, pairedKeys>>
    BY <1>2, <1>a DEF discovered, deviceFound, Ids, allVars, desktopVars
  <2> HIDE DEF id
  <2>2. /\ deviceList' \in Seq(Ids) /\ Unique'
        /\ Listed(id)' <=> rssi >= nearThreshold
        /\ \A x : x # id => (Listed(x)' <=> Listed(x))
    <3>1. PICK connected \in BOOLEAN : connected <=> rssi >= nearThreshold
      OBVIOUS
    <3>2. setDevice(id, connected)
      BY <2>1, <3>1 DEF setDevice
    <3>3. QED
      BY <1>a, <2>1, <3>1, <3>2, SetDeviceFacts
  <2>3. \A d \in Devices \ BleIds : pairedKeys'[d] # NoPhone => Listed(d)'
    BY <2>1, <2>2 DEF DashboardInv
  <2>4. RowsJustified'
    <3> SUFFICES ASSUME NEW u \in BleIds
                 PROVE  /\ "near" \in heard'[u] => Listed(u)'
                        /\ Listed(u)' => "near" \in heard'[u] \/ Paired(u)'
                        /\ heard'[u] # {"near", "far"}
      BY DEF RowsJustified
    <3>1. CASE u # id
      <4>1. Paired(u)' <=> Paired(u)
        BY <2>1 DEF Paired
      <4>2. QED
        BY <2>1, <2>2, <3>1, <4>1 DEF DashboardInv, RowsJustified
    <3>2. CASE u = id
      <4>1. heard'[id] = (IF rssi >= nearThreshold THEN {"near"} ELSE {})
                           \cup (IF rssi < farThreshold THEN {"far"} ELSE {})
        BY <2>1 DEF DashboardInv
      <4>2. ~(rssi >= nearThreshold /\ rssi < farThreshold)
        BY <1>a
      <4>3. QED
        BY <2>2, <3>2, <4>1, <4>2
    <3>3. QED
      BY <3>1, <3>2
  <2>5. heard' \in [BleIds -> SUBSET {"near", "far"}]
    BY <2>1 DEF DashboardInv
  <2>6. QED
    BY <1>a, <2>1, <2>2, <2>3, <2>4, <2>5 DEF DashboardInv, Unique
<1>3. CASE EditThreshold
  <2>1. /\ UNCHANGED <<deviceList, heard, pairedKeys>>
        /\ nearThreshold' \in Int /\ farThreshold' \in Int
        /\ farThreshold' <= nearThreshold'
    BY <1>3, <1>a DEF EditThreshold, proximityChanged, allVars, desktopVars
  <2>2. QED
    BY <2>1 DEF DashboardInv, RowsJustified, Listed, Paired
<1>4. CASE Launch \/ LaunchFailed \/ Quit \/ showPairing
  BY <1>4, RowsKept
  DEF Launch, StartScan, LaunchFailed, Quit, showPairing, PairingDialog, start, startFailed,
      stop, pairingPayload,
      windowVars
<1>5. CASE CloseWindow \/ OpenWindow \/ CloseDialog \/ ScanEnds
  BY <1>5, RowsKept
  DEF CloseWindow, OpenWindow, CloseDialog, ScanEnds, allVars, desktopVars
<1>6. ASSUME NEW p \in Phones, NEW d \in Devices, NEW s \in Phones \cup {NoPhone},
             NEW n \in Nonces, NEW t \in Timestamps, VerifyServed(p, d, s, n, t)
      PROVE  DashboardInv'
  BY <1>6, RowsKept DEF VerifyServed, Verify, windowVars
<1>7. CASE TickShown
  BY <1>7, RowsKept DEF TickShown, DesktopTick, desktopVars, windowVars
<1>8. CASE UNCHANGED dashboardVars
  BY <1>8, RowsKept DEF dashboardVars, allVars, desktopVars, windowVars
<1>9. QED
  BY <1>1, <1>2, <1>3, <1>4, <1>5, <1>6, <1>7, <1>8 DEF DashboardNext

LEMMA RowsInit == DashboardInit => DashboardInv
<1> SUFFICES ASSUME DashboardInit PROVE DashboardInv
  OBVIOUS
<1>1. /\ deviceList = <<>> /\ heard = [id \in BleIds |-> {}]
      /\ pairedKeys = [d \in Devices |-> NoPhone]
      /\ nearThreshold \in Int /\ farThreshold \in Int /\ farThreshold <= nearThreshold
  BY DashboardAssumption DEF DashboardInit, DesktopInit
<1>2. DOMAIN deviceList = {} /\ deviceList \in Seq(Ids)
  BY <1>1
<1>3. QED
  BY <1>1, <1>2 DEF DashboardInv, RowsJustified, Listed

\* Every step keeps the invariant of the rows, in every run of the controller.
THEOREM RowsInvariance == DashboardSpec => []DashboardInv
<1>1. DashboardInit => ServerInv /\ DashboardInv
  BY ServerInvInit, RowsInit
<1>2. ServerInv /\ DashboardInv /\ [DashboardNext]_dashboardVars
        => (ServerInv /\ DashboardInv)'
  BY ServerInvStep, RowsStep
<1>3. QED
  BY <1>1, <1>2, PTL DEF DashboardSpec

\* A paired device has its one row for as long as the program runs, if its id is
\* no UUID's text.
THEOREM PairedAreListed == DashboardSpec => []PairedListed
<1>1. DashboardInv => PairedListed
  <2> SUFFICES ASSUME DashboardInv, NEW d \in Devices, pairedKeys[d] # NoPhone,
                      d \in BleIds => "near" \in heard[d]
               PROVE  \E row \in DOMAIN deviceList :
                        /\ deviceList[row] = d
                        /\ \A other \in DOMAIN deviceList : deviceList[other] = d => other = row
    BY DEF PairedListed
  <2>1. Listed(d)
    BY DEF DashboardInv, RowsJustified
  <2>2. QED
    BY <2>1 DEF DashboardInv, Listed
<1>2. QED
  BY <1>1, RowsInvariance, PTL

\* The Bluetooth rows are those whose latest report was near, or under whose text
\* a phone is paired, and near excludes far.
THEOREM RowsAreJustified == DashboardSpec => []RowsJustified
<1>1. DashboardInv => RowsJustified
  BY DEF DashboardInv
<1>2. QED
  BY <1>1, RowsInvariance, PTL

=============================================================================
