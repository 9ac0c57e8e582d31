\* Two logon sessions, one of which can have a factory, a provider and a credential.
SPECIFICATION ProviderFairSpec
CONSTANTS
    Sessions = {s1, s2}
    NoSession = NoSession
    Objects = {o1, o2, o3}
    NoObject = NoObject
    MaxRefs = 2
INVARIANTS
    HeldUsable
    TileAlive
    OnlyCredentialsLeak
    RequestInHand
PROPERTIES
    PipeComesBack
    SentIsRead
