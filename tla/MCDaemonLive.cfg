\* A login, and a client that pairs, logs in and approves, under fairness of the handlers and of the clock.
SPECIFICATION FairSpec
CONSTANTS
    Logins = {l1, p1}
    Phones = {p1}
    Pairers = {p1}
    Keys = {k1, k2}
    Nonces = {n1, n2}
    NoNonce = NoNonce
    ZeroId = ZeroId
    NoEntry = NoEntry
    NoCheck = NoCheck
    NoKey = NoKey
    AuthTimeout = 1
    Window = 1
    MaxTime = 0
    MaxSkew = 0
    Conns <- MCConns
    Sends <- MCSends
    Readable = {TRUE}
INVARIANT AcceptedKeysStored
PROPERTY AuthorizeAnswered
CHECK_DEADLOCK FALSE
