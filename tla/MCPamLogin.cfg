\* Calls of PAM one after the other, each end at its own speed.
SPECIFICATION PamFairSpec
CONSTANTS
    PamConns = {l1}
    Phones = {p1}
    Keys = {k1}
    Nonces = {n1}
    NoNonce = NoNonce
    ZeroId = ZeroId
    NoEntry = NoEntry
    NoCheck = NoCheck
    NoKey = NoKey
    AuthTimeout = 1
    Window = 1
    PollTimeout = 2
    MaxCalls = 2
    MaxSignals = 1
    MaxTime = 0
    MaxSkew = 0
    Conns <- MCConns
    Sends <- MCSends
    Readable = {TRUE}
INVARIANTS PamSuccessApproved GrantReachesPam
PROPERTIES PamReturns PamImplementsLogin
CHECK_DEADLOCK FALSE
