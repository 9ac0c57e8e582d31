\* The smallest instance in which a pair request succeeds.
SPECIFICATION DesktopSpec
CONSTANTS
    Nonces = {n1}
    Fresh = 0
    Cleanup = 0
    Start = 1
    MaxTime = 3
    Devices = {d1, d2}
    Phones = {p1, p2}
    NoPhone = NoPhone
    Codes = {c1, c2, c3}
    NoCode = NoCode
    PairingTtl = 1
    MaxPairings = 2
SYMMETRY MCSymmetry
INVARIANT PairingNeedsCode
CHECK_DEADLOCK FALSE
