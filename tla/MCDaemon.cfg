\* Two logins, one phone: races for the map, colliding ids, timeouts.
SPECIFICATION Spec
CONSTANTS
    Logins = {l1, l2}
    Phones = {p1}
    Pairers = {}
    Keys = {k1}
    Nonces = {n1, n2}
    NoNonce = NoNonce
    ZeroId = ZeroId
    NoEntry = NoEntry
    NoCheck = NoCheck
    NoKey = NoKey
    AuthTimeout = 1
    Window = 1
    MaxTime = 0
    MaxSkew = 0
    Conns <- MCConns
    Sends <- MCSends
    Readable = {TRUE, FALSE}
SYMMETRY MCSymmetry
INVARIANTS
    Inv
    EntryOwned
    ApprovalSingleUse
    GrantNeedsApproval
    PatientLogin
PROPERTY ImplementsLogin
CHECK_DEADLOCK FALSE
