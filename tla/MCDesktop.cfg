\* Two phones and two device ids; codes that are used, replaced and expire.
SPECIFICATION DesktopSpec
CONSTANTS
    Nonces = {n1}
    Fresh = 0
    Cleanup = 0
    Start = 1
    MaxTime = 3
    Devices = {d1, d2}
    Phones = {p1, p2}
    NoPhone = NoPhone
    Codes = {c1, c2}
    NoCode = NoCode
    PairingTtl = 1
    MaxPairings = 3
SYMMETRY MCSymmetry
INVARIANTS
    OneTimeCode
    UncodedPairingConfined
    CurrentPhoneUnlocks
    ReplayedUnlocksBounded
    AcceptsBounded
CHECK_DEADLOCK FALSE
