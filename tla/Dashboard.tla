----------------------------- MODULE Dashboard -----------------------------
(***************************************************************************)
(* The desktop controller with its window (src/ui/main_window.cpp,         *)
(* src/ui/pairing_dialog.cpp, src/core/ble_discovery.cpp and src/main.cpp) *)
(* around the server of module Desktop.  Everything runs on the one thread *)
(* of Qt, but the pairing dialog runs an event loop of its own inside      *)
(* exec(): the server pairs phones and the Bluetooth scan reports devices  *)
(* while the dialog is open, and only the window behind it is blocked.     *)
(* Logging, layout and the drawing of the QR code are left out.            *)
(***************************************************************************)
EXTENDS Desktop

CONSTANTS
    Beacons,       \* Bluetooth LE devices in the neighbourhood
    BleIds,        \* the texts of their UUIDs
    deviceUuid,    \* QBluetoothDeviceInfo::deviceUuid; where the platform has
                   \* none, every device has the null UUID
    Levels,        \* -100 .. -1, the range of both spin boxes, main_window.cpp:23
    NearDefault,   \* -70
    FarDefault     \* -82

\* The mobile app's device id is the hex form of its key (main.dart:69), but the
\* server takes any id that is not empty (server.cpp:36): one may also be the text
\* of a UUID, and then the window has one row for both.
ASSUME DashboardAssumption ==
    /\ deviceUuid \in [Beacons -> BleIds]
    /\ Levels \subseteq Int
    /\ {NearDefault, FarDefault} \subseteq Levels
    /\ FarDefault <= NearDefault

Ids == Devices \cup BleIds

VARIABLES
    window,          \* "none" before the window is built, "shown", or "hidden"
    dialogs,         \* the codes in the open pairing dialogs
    deviceList,      \* deviceList_: the ids of the rows, in order
    nearThreshold,   \* nearThreshold_
    farThreshold,    \* farThreshold_
    scan,            \* agent_.isActive()
    heard            \* history: for each UUID, what its latest report was at the
                     \* time, "near" (at or above near), "far" (below far)

windowVars == <<window, dialogs, deviceList, nearThreshold, farThreshold, scan, heard>>
dashboardVars == <<allVars, windowVars>>

DashboardTypeOK ==
    /\ DesktopTypeOK
    /\ window \in {"none", "shown", "hidden"}
    /\ dialogs \in SUBSET Codes
    /\ deviceList \in Seq(Ids)
    /\ nearThreshold \in Levels
    /\ farThreshold \in Levels
    /\ scan \in BOOLEAN
    /\ heard \in [BleIds -> SUBSET {"near", "far"}]

DashboardInit ==
    /\ DesktopInit
    /\ window = "none"
    /\ dialogs = {}
    /\ deviceList = <<>>
    /\ nearThreshold = NearDefault
    /\ farThreshold = FarDefault
    /\ scan = FALSE
    /\ heard = [id \in BleIds |-> {}]

-----------------------------------------------------------------------------
(* main and the tray *)

\* BleDiscovery::start, with an agent that is not active.
StartScan == scan' = TRUE

\* main: the server has started, then the window is built, which starts the
\* scan, and shown.
Launch ==
    /\ start
    /\ window' = "shown"
    /\ StartScan
    /\ UNCHANGED <<dialogs, deviceList, nearThreshold, farThreshold, heard>>

\* main returns 1.
LaunchFailed ==
    /\ startFailed
    /\ UNCHANGED windowVars

\* The user can reach the window: no modal dialog is in front of it.
Reachable ==
    /\ phase = "running"
    /\ window = "shown"
    /\ dialogs = {}

\* The window is closed; setQuitOnLastWindowClosed(false) keeps the program and
\* its server running.
CloseWindow ==
    /\ Reachable
    /\ window' = "hidden"
    /\ UNCHANGED <<allVars, dialogs, deviceList, nearThreshold, farThreshold, scan, heard>>

\* "Open dashboard" in the tray.
OpenWindow ==
    /\ phase = "running"
    /\ window = "hidden"
    /\ window' = "shown"
    /\ UNCHANGED <<allVars, dialogs, deviceList, nearThreshold, farThreshold, scan, heard>>

\* "Quit" in the tray, which also leaves the event loop of an open dialog.
Quit ==
    /\ stop
    /\ window' = "none"
    /\ dialogs' = {}
    /\ scan' = FALSE
    /\ UNCHANGED <<deviceList, nearThreshold, farThreshold, heard>>

-----------------------------------------------------------------------------
(* The pairing dialog *)

\* A dialog shows the code of its payload, as text and as a QR code.
PairingDialog(code) == dialogs' = dialogs \cup {code}

\* Mutant: the dialog is shown without blocking the window.
showPairingModeless ==
    /\ phase = "running"
    /\ window = "shown"
    /\ pairingPayload
    /\ PairingDialog(pairingCode')
    /\ UNCHANGED <<window, deviceList, nearThreshold, farThreshold, scan, heard>>

\* The payload is made and put into a modal dialog.
showPairing ==
    /\ Reachable
    /\ pairingPayload
    /\ PairingDialog(pairingCode')
    /\ UNCHANGED <<window, deviceList, nearThreshold, farThreshold, scan, heard>>

\* The dialog is closed; what it has shown stays with whoever has scanned it.
CloseDialog ==
    /\ phase = "running"
    /\ \E code \in dialogs : dialogs' = dialogs \ {code}
    /\ UNCHANGED <<allVars, window, deviceList, nearThreshold, farThreshold, scan, heard>>

-----------------------------------------------------------------------------
(* The list of devices *)

Listed(id) == \E row \in DOMAIN deviceList : deviceList[row] = id

\* The list without one row.
takeItem(row) ==
    SubSeq(deviceList, 1, row - 1) \o SubSeq(deviceList, row + 1, Len(deviceList))

\* Mutant: the row that is removed is the newest one.
setDeviceNewest(id, connected) ==
    \/ /\ Listed(id) <=> connected
       /\ UNCHANGED deviceList
    \/ /\ Listed(id) /\ ~connected
       /\ deviceList' = takeItem(Len(deviceList))
    \/ /\ ~Listed(id) /\ connected
       /\ deviceList' = Append(deviceList, id)

\* A device that has come gets a row, one that is gone loses its first row.
setDevice(id, connected) ==
    \/ /\ Listed(id) <=> connected
       /\ UNCHANGED deviceList
    \/ /\ ~connected
       /\ \E row \in DOMAIN deviceList :
            /\ deviceList[row] = id
            /\ \A earlier \in 1 .. row - 1 : deviceList[earlier] # id
            /\ deviceList' = takeItem(row)
    \/ /\ ~Listed(id) /\ connected
       /\ deviceList' = Append(deviceList, id)

\* A pair request that succeeds emits deviceChanged(id, true), also while the
\* dialog is open.
PairListed(phone, device) ==
    /\ Pair(phone, device)
    /\ setDevice(device, TRUE)
    /\ UNCHANGED <<window, dialogs, nearThreshold, farThreshold, scan, heard>>

VerifyServed(sender, device, signer, nonce, timestamp) ==
    /\ Verify(sender, device, signer, nonce, timestamp)
    /\ UNCHANGED windowVars

\* The window's slot for a report: near enough is as good as paired.
deviceFound(id, rssi) ==
    /\ setDevice(id, rssi >= nearThreshold)
    /\ heard' = [heard EXCEPT ![id] = (IF rssi >= nearThreshold THEN {"near"} ELSE {})
                                        \cup (IF rssi < farThreshold THEN {"far"} ELSE {})]
    /\ UNCHANGED <<allVars, window, dialogs, nearThreshold, farThreshold, scan>>

\* The agent reports a low-energy device, with the strength 0 when the platform
\* does not know it.
discovered(beacon, rssi) ==
    /\ phase = "running"
    /\ scan
    /\ deviceFound(deviceUuid[beacon], rssi)

\* finished, canceled or errorOccurred: nobody starts the agent again.
ScanEnds ==
    /\ phase = "running"
    /\ scan
    /\ scan' = FALSE
    /\ UNCHANGED <<allVars, window, dialogs, deviceList, nearThreshold, farThreshold, heard>>

-----------------------------------------------------------------------------
(* The thresholds *)

\* Mutant: the near threshold is not pulled along.
proximityChangedLoose(near, far) ==
    /\ nearThreshold' = near
    /\ farThreshold' = far

\* The slot of both spin boxes: a near threshold below the far one is set to
\* it, which runs the slot once more, inside the first and with nothing to do.
proximityChanged(near, far) ==
    /\ nearThreshold' = IF near < far THEN far ELSE near
    /\ farThreshold' = far

\* The user edits one of the two.
EditThreshold ==
    /\ Reachable
    /\ \E level \in Levels :
         \/ proximityChanged(level, farThreshold)
         \/ proximityChanged(nearThreshold, level)
    /\ UNCHANGED <<allVars, window, dialogs, deviceList, scan, heard>>

TickShown ==
    /\ DesktopTick
    /\ UNCHANGED windowVars

-----------------------------------------------------------------------------

DashboardNext ==
    \/ Launch
    \/ LaunchFailed
    \/ CloseWindow
    \/ OpenWindow
    \/ Quit
    \/ showPairing
    \/ CloseDialog
    \/ \E p \in Phones, d \in Devices : PairListed(p, d)
    \/ \E p \in Phones, d \in Devices, s \in Phones \cup {NoPhone},
          n \in Nonces, t \in Timestamps : VerifyServed(p, d, s, n, t)
    \/ \E b \in Beacons, rssi \in Levels \cup {0} : discovered(b, rssi)
    \/ ScanEnds
    \/ EditThreshold
    \/ TickShown

DashboardSpec == DashboardInit /\ [][DashboardNext]_dashboardVars

-----------------------------------------------------------------------------
(* Properties *)

\* A code that is on screen is the one the server would take, unless a phone
\* has paired with it meanwhile: no second dialog has replaced the code behind
\* the user's back (main_window.cpp:31, pairing_dialog.cpp:16, server.cpp:27).
DialogCodeLive ==
    \A code \in dialogs :
        \/ code = pairingCode
        \/ \E i \in DOMAIN pairings : pairings[i].code = code

\* Every paired device has exactly one row, whatever the Bluetooth scan reports
\* of others, in whatever order the rows came and went, and with the window
\* closed or a dialog open (main_window.cpp:30, server.cpp:37).  One that is paired
\* under the text of a UUID has it for sure only while that UUID is near.
PairedListed ==
    \A d \in Devices : pairedKeys[d] # NoPhone /\ (d \in BleIds => "near" \in heard[d]) =>
        \E row \in DOMAIN deviceList :
            /\ deviceList[row] = d
            /\ \A other \in DOMAIN deviceList : deviceList[other] = d => other = row

\* A phone is paired under this id.
Paired(id) == \E d \in Devices : d = id /\ pairedKeys[d] # NoPhone

\* A Bluetooth row is there exactly when the latest report of its UUID was near,
\* or else a phone is paired under the same text; and what was near was not far
\* as well, whatever the user did to the thresholds before (main_window.cpp:26, 30
\* and 32).
RowsJustified ==
    \A id \in BleIds :
        /\ "near" \in heard[id] => Listed(id)
        /\ Listed(id) => "near" \in heard[id] \/ Paired(id)
        /\ heard[id] # {"near", "far"}

\* Inductive: no id has two rows, a paired device that is no UUID has one, the
\* thresholds are in order, and the Bluetooth rows are as stated above.
DashboardInv ==
    /\ deviceList \in Seq(Ids)
    /\ \A i, j \in DOMAIN deviceList : deviceList[i] = deviceList[j] => i = j
    /\ \A d \in Devices \ BleIds : pairedKeys[d] # NoPhone => Listed(d)
    /\ nearThreshold \in Int /\ farThreshold \in Int
    /\ farThreshold <= nearThreshold
    /\ heard \in [BleIds -> SUBSET {"near", "far"}]
    /\ RowsJustified

=============================================================================
