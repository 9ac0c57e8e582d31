\* Two device ids, one of them also a UUID, and another UUID; dialogs, pairings, reports and edited thresholds in any order.
SPECIFICATION DashboardSpec
CONSTANTS
    Nonces = {n1}
    Fresh = 0
    Cleanup = 0
    Start = 1
    MaxTime = 2
    Devices = {d1, u1}
    Phones = {p1}
    NoPhone = NoPhone
    Codes = {c1, c2}
    NoCode = NoCode
    PairingTtl = 0
    MaxPairings = 2
    b1 = b1
    b2 = b2
    b3 = b3
    u1 = u1
    u2 = u2
    Beacons = {b1, b2, b3}
    BleIds = {u1, u2}
    deviceUuid <- MCdeviceUuid
    Levels <- MCLevels
    NearDefault <- MCNear
    FarDefault <- MCFar
SYMMETRY MCSymmetry
INVARIANTS
    DialogCodeLive
    PairedListed
    RowsJustified
CHECK_DEADLOCK FALSE
