--------------------------- MODULE ProviderProofs ---------------------------
(***************************************************************************)
(* The references of a host stay usable while it has locked the server,    *)
(* for every number of sessions, objects and references and however the    *)
(* sessions interleave.                                                    *)
(***************************************************************************)
EXTENDS CredentialProvider, FiniteSetTheorems, TLAPS

\* Every variable keeps its type.
LEMMA ProviderTypeInit == ProviderInit => ProviderTypeOK
<1> SUFFICES ASSUME ProviderInit PROVE ProviderTypeOK
  OBVIOUS
<1>1. /\ kind \in [Objects -> Classes \cup {"free"}]
      /\ references \in [Objects -> Nat]
      /\ credential \in [Objects -> Objects \cup {NoObject}]
      /\ held \in [Objects -> Nat]
      /\ owner \in [Objects -> Sessions \cup {NoSession}]
      /\ module_locks \in Int
      /\ request \in [Sessions -> Requests]
  BY DEF ProviderInit, ComInit, Requests, Classes
<1>2. /\ loaded \in BOOLEAN /\ up \in BOOLEAN
      /\ lock \in [Sessions -> BOOLEAN]
      /\ handler \in [Sessions -> BOOLEAN]
      /\ pipe \in {"none", "listening"} \cup Sessions
  BY Zenon DEF ProviderInit, ComInit
<1>3. QED
  BY <1>1, <1>2 DEF ProviderTypeOK

\* The counts of an object are those of an object: used where a step takes a
\* reference away.
LEMMA ProviderTypeStep ==
    ASSUME ProviderTypeOK, CountsRight, [ProviderNext]_providerVars
    PROVE  ProviderTypeOK'
<1> USE ProviderAssumption DEF ProviderTypeOK, Requests, Classes, Handed, QueryInterface, pipeVars, comVars
<1>1. ASSUME NEW s \in Sessions, HostStep(s) PROVE ProviderTypeOK'
  <2>1. CASE DllGetClassObject(s)
    BY <2>1 DEF DllGetClassObject
  <2>2. ASSUME NEW o \in Objects, CreateInstance(s, o) PROVE ProviderTypeOK'
    BY <2>2 DEF CreateInstance
  <2>3. ASSUME NEW o \in Objects, GetCredentialAt(s, o) \/ AddRef(s, o) PROVE ProviderTypeOK'
    BY <2>3 DEF GetCredentialAt, AddRef
  <2>4. ASSUME NEW o \in Objects, Release(s, o) PROVE ProviderTypeOK'
    <3>1. held[o] > 0 /\ references[o] > 0
      BY <2>4 DEF Release, Callable, CountsRight
    <3>2. QED
      BY <2>4, <3>1 DEF Release
  <2>5. ASSUME NEW o \in Objects, NEW on \in BOOLEAN, LockServer(s, o, on)
        PROVE  ProviderTypeOK'
    BY <2>5 DEF LockServer
  <2>6. ASSUME NEW o \in Objects, GetSerialization(s, o) PROVE ProviderTypeOK'
    BY <2>6 DEF GetSerialization
  <2>7. QED
    BY <1>1, <2>1, <2>2, <2>3, <2>4, <2>5, <2>6 DEF HostStep
<1>2. ASSUME NEW s \in Sessions, PipeApproval(s) \/ Connect(s) \/ Handle(s)
      PROVE  ProviderTypeOK'
  <2>1. CASE PipeApproval(s)
    BY <2>1 DEF PipeApproval, Closed
  <2>2. CASE Connect(s)
    BY <2>2 DEF Connect
  <2>3. CASE Handle(s)
    BY <2>3 DEF Handle
  <2>4. QED
    BY <1>2, <2>1, <2>2, <2>3
<1>3. CASE Unload \/ Create \/ DaemonStarts
  BY <1>3 DEF Unload, Create, DaemonStarts
<1>4. CASE HostEnds
  <2>1. /\ kind' \in [Objects -> Classes \cup {"free"}]
        /\ references' \in [Objects -> Nat]
        /\ credential' \in [Objects -> Objects \cup {NoObject}]
        /\ held' \in [Objects -> Nat]
        /\ owner' \in [Objects -> Sessions \cup {NoSession}]
        /\ module_locks' \in Int
    BY <1>4 DEF HostEnds
  <2>2. request' \in [Sessions -> Requests]
    BY <1>4 DEF HostEnds, Closed
  <2>3. loaded' \in BOOLEAN /\ lock' \in [Sessions -> BOOLEAN]
    BY <1>4, Zenon DEF HostEnds
  <2>4. QED
    BY <1>4, <2>1, <2>2, <2>3 DEF HostEnds
<1>5. CASE DaemonEnds
  BY <1>5 DEF DaemonEnds
<1>6. CASE UNCHANGED providerVars
  BY <1>6 DEF providerVars
<1>7. QED
  BY <1>1, <1>2, <1>3, <1>4, <1>5, <1>6 DEF ProviderNext

\* Steps that leave the objects, the locks and the DLL alone.
LEMMA PipeSteps ==
    ASSUME ProviderInv, UNCHANGED comVars
    PROVE  ProviderInv'
  BY DEF ProviderInv, CountsRight, LocksRight, TileAlive, OnlyCredentialsLeak, HeldUsable, comVars

\* The sessions that have locked the server.
Locked == {s \in Sessions : lock[s]}

LEMMA LockedFinite == IsFiniteSet(Locked) /\ Cardinality(Locked) \in Nat
<1>1. Locked \subseteq Sessions
  BY DEF Locked
<1>2. QED
  BY <1>1, ProviderAssumption, FS_Subset, FS_CardinalityType

\* A new factory.
LEMMA FactoryStep ==
    ASSUME ProviderTypeOK, ProviderInv, NEW s \in Sessions, DllGetClassObject(s)
    PROVE  ProviderInv'
<1> USE DEF ProviderInv, ProviderTypeOK, Handed, QueryInterface
<1>1. PICK o \in Objects, known \in BOOLEAN :
        /\ kind[o] = "free"
        /\ kind' = [kind EXCEPT ![o] = IF Handed(known) = 0 THEN "free" ELSE "factory"]
        /\ references' = [references EXCEPT ![o] = Handed(known)]
        /\ held' = [held EXCEPT ![o] = IF known THEN 1 ELSE 0]
        /\ owner' = [owner EXCEPT ![o] = IF known THEN s ELSE NoSession]
  BY DEF DllGetClassObject
<1>2. loaded' /\ credential' = credential /\ lock' = lock /\ module_locks' = module_locks
  BY DEF DllGetClassObject, LocksRight
<1>3. CountsRight'
  BY <1>1, <1>2 DEF CountsRight, Classes
<1>4. LocksRight'
  BY <1>2 DEF LocksRight
<1>5. TileAlive'
  BY <1>1, <1>2 DEF TileAlive
<1>6. OnlyCredentialsLeak' /\ HeldUsable'
  BY <1>1, <1>2 DEF OnlyCredentialsLeak, HeldUsable
<1>7. QED
  BY <1>3, <1>4, <1>5, <1>6

\* A new provider with its credential.
LEMMA InstanceStep ==
    ASSUME ProviderTypeOK, ProviderInv, NEW s \in Sessions, NEW f \in Objects,
           CreateInstance(s, f)
    PROVE  ProviderInv'
<1> USE DEF ProviderInv, ProviderTypeOK, Handed, QueryInterface
<1>1. PICK p \in Objects, c \in Objects, known \in BOOLEAN :
        /\ p # c /\ kind[p] = "free" /\ kind[c] = "free"
        /\ kind' = [kind EXCEPT ![p] = IF Handed(known) = 0 THEN "free" ELSE "provider",
                                ![c] = "credential"]
        /\ references' = [references EXCEPT ![p] = Handed(known), ![c] = 1]
        /\ credential' = [credential EXCEPT ![p] = IF Handed(known) = 0 THEN NoObject ELSE c]
        /\ held' = [held EXCEPT ![p] = IF known THEN 1 ELSE 0]
        /\ owner' = [owner EXCEPT ![p] = IF known THEN s ELSE NoSession, ![c] = s]
  BY DEF CreateInstance
<1>2. lock' = lock /\ module_locks' = module_locks /\ loaded' = loaded
  BY DEF CreateInstance
<1>3. loaded
  BY DEF CreateInstance, Callable, HeldUsable
<1>4. CountsRight'
  <2>1. held[c] = 0
    BY <1>1 DEF CountsRight
  <2>2. QED
    BY <1>1, <2>1 DEF CountsRight, Classes
<1>5. LocksRight'
  BY <1>2 DEF LocksRight
<1>6. TileAlive'
  <2> SUFFICES ASSUME NEW o \in Objects, kind'[o] = "provider"
               PROVE  credential'[o] \in Objects /\ kind'[credential'[o]] = "credential"
    BY DEF TileAlive
  <2>1. CASE o = p
    <3>1. known
      BY <1>1, <2>1
    <3>2. credential'[p] = c /\ kind'[c] = "credential"
      BY <1>1, <3>1
    <3>3. QED
      BY <2>1, <3>2
  <2>2. CASE o # p
    <3>1. kind[o] = "provider" /\ credential'[o] = credential[o]
      BY <1>1, <2>2
    <3>2. credential[o] \in Objects /\ kind[credential[o]] = "credential"
      BY <3>1 DEF TileAlive
    <3>3. QED
      BY <1>1, <3>1, <3>2, ProviderAssumption
  <2>3. QED
    BY <2>1, <2>2
<1>7. OnlyCredentialsLeak' /\ HeldUsable'
  BY <1>1, <1>2, <1>3 DEF OnlyCredentialsLeak, HeldUsable
<1>8. QED
  BY <1>4, <1>5, <1>6, <1>7

\* One more reference to an object that is alive, for the host and in its count.
LEMMA CountUp ==
    ASSUME ProviderTypeOK, ProviderInv, NEW o \in Objects, kind[o] # "free", loaded,
           held' = [held EXCEPT ![o] = @ + 1],
           references' = [references EXCEPT ![o] = @ + 1],
           UNCHANGED <<loaded, module_locks, kind, credential, owner, lock>>
    PROVE  ProviderInv'
<1> USE DEF ProviderInv, ProviderTypeOK
<1>1. CountsRight'
  BY DEF CountsRight, Classes
<1>2. LocksRight' /\ TileAlive'
  BY DEF LocksRight, TileAlive
<1>3. OnlyCredentialsLeak' /\ HeldUsable'
  BY DEF OnlyCredentialsLeak, HeldUsable
<1>4. QED
  BY <1>1, <1>2, <1>3

\* A reference is given back.  That of a credential is never the last one.
LEMMA ReleaseStep ==
    ASSUME ProviderTypeOK, ProviderInv, NEW s \in Sessions, NEW o \in Objects,
           Release(s, o)
    PROVE  ProviderInv'
<1> USE DEF ProviderInv, ProviderTypeOK
<1>1. /\ held[o] > 0 /\ loaded /\ kind[o] # "free"
      /\ held' = [held EXCEPT ![o] = @ - 1]
      /\ references' = [references EXCEPT ![o] = @ - 1]
      /\ UNCHANGED <<loaded, module_locks, lock>>
  BY DEF Release, Callable, HeldUsable
<1>2. /\ references[o] = held[o] + (IF kind[o] = "credential" THEN 1 ELSE 0)
      /\ references[o] > 0
  BY <1>1 DEF CountsRight
<1>3. LocksRight'
  BY <1>1 DEF LocksRight
<1>4. CASE references[o] # 1
  <2>1. UNCHANGED <<kind, credential, owner>>
    BY <1>4 DEF Release
  <2>2. CountsRight'
    BY <1>1, <1>2, <1>4, <2>1 DEF CountsRight, Classes
  <2>3. TileAlive' /\ HeldUsable'
    BY <1>1, <2>1 DEF TileAlive, HeldUsable
  <2>4. OnlyCredentialsLeak'
    BY <1>1, <1>2, <1>4, <2>1 DEF OnlyCredentialsLeak
  <2>5. QED
    BY <1>3, <2>2, <2>3, <2>4
<1>5. CASE references[o] = 1
  <2>1. /\ kind' = [kind EXCEPT ![o] = "free"]
        /\ credential' = [credential EXCEPT ![o] = NoObject]
        /\ owner' = [owner EXCEPT ![o] = NoSession]
    BY <1>5 DEF Release
  <2>2. kind[o] # "credential" /\ held[o] = 1
    BY <1>1, <1>2, <1>5
  <2>3. CountsRight'
    BY <1>1, <1>2, <1>5, <2>1, <2>2 DEF CountsRight, Classes
  <2>4. TileAlive'
    BY <2>1, <2>2 DEF TileAlive
  <2>5. OnlyCredentialsLeak' /\ HeldUsable'
    BY <1>1, <2>1, <2>2 DEF OnlyCredentialsLeak, HeldUsable
  <2>6. QED
    BY <1>3, <2>3, <2>4, <2>5
<1>6. QED
  BY <1>4, <1>5

\* A session locks or unlocks.
LEMMA LockStep ==
    ASSUME ProviderTypeOK, ProviderInv, NEW s \in Sessions, NEW f \in Objects,
           NEW on \in BOOLEAN, LockServer(s, f, on)
    PROVE  ProviderInv'
<1> USE DEF ProviderInv, ProviderTypeOK
<1>1. loaded /\ loaded'
  BY DEF LockServer, Callable, HeldUsable
<1>2. CountsRight' /\ TileAlive' /\ OnlyCredentialsLeak' /\ HeldUsable'
  <2>1. UNCHANGED <<kind, references, credential, held, owner>>
    BY DEF LockServer
  <2>2. CountsRight' /\ TileAlive' /\ OnlyCredentialsLeak'
    BY <2>1 DEF CountsRight, TileAlive, OnlyCredentialsLeak
  <2>3. HeldUsable'
    BY <1>1, <2>1 DEF HeldUsable
  <2>4. QED
    BY <2>2, <2>3
<1>3. module_locks = Cardinality(Locked)
  BY DEF LocksRight, Locked
<1>4. CASE on
  <2>1. s \notin Locked /\ Locked' = Locked \cup {s}
    BY <1>4, Zenon DEF LockServer, Locked
  <2>2. Cardinality(Locked \cup {s}) = Cardinality(Locked) + 1
    BY <2>1, LockedFinite, FS_AddElement
  <2>3. module_locks' = module_locks + 1
    BY <1>4 DEF LockServer
  <2>4. QED
    BY <1>1, <1>2, <1>3, <2>1, <2>2, <2>3 DEF LocksRight, Locked
<1>5. CASE ~on
  <2>1. s \in Locked /\ Locked' = Locked \ {s}
    BY <1>5, Zenon DEF LockServer, Locked
  <2>2. Cardinality(Locked \ {s}) = Cardinality(Locked) - 1
    BY <2>1, LockedFinite, FS_RemoveElement
  <2>3. module_locks' = module_locks - 1
    BY <1>5 DEF LockServer
  <2>4. QED
    BY <1>1, <1>2, <1>3, <2>1, <2>2, <2>3 DEF LocksRight, Locked
<1>6. QED
  BY <1>4, <1>5

\* Without locks nobody has locked.
LEMMA UnloadStep ==
    ASSUME ProviderTypeOK, ProviderInv, Unload
    PROVE  ProviderInv'
<1> USE DEF ProviderInv, ProviderTypeOK
<1>1. Cardinality(Locked) = 0 /\ module_locks = 0
  BY DEF Unload, DllCanUnloadNow, LocksRight, Locked
<1>2. Locked = {}
  BY <1>1, LockedFinite, FS_EmptySet
<1>3. \A s \in Sessions : ~lock[s]
  BY <1>2, Zenon DEF Locked
<1>4. HeldUsable'
  <2> SUFFICES ASSUME NEW o \in Objects, held[o] > 0
               PROVE  kind[o] # "free" /\ ~lock[owner[o]]
    BY DEF HeldUsable, Unload
  <2>1. kind[o] # "free" /\ owner[o] \in Sessions
    BY DEF CountsRight, HeldUsable
  <2>2. QED
    BY <1>3, <2>1
<1>5. CountsRight' /\ LocksRight' /\ TileAlive' /\ OnlyCredentialsLeak'
  BY <1>1 DEF Unload, CountsRight, LocksRight, TileAlive, OnlyCredentialsLeak
<1>6. QED
  BY <1>4, <1>5

\* A new host process has nothing.
LEMMA FreshHost == ComInit => ProviderInv
<1> SUFFICES ASSUME ComInit PROVE ProviderInv
  OBVIOUS
<1>1. CountsRight /\ TileAlive /\ OnlyCredentialsLeak /\ HeldUsable
  BY DEF ComInit, CountsRight, TileAlive, OnlyCredentialsLeak, HeldUsable
<1>2. {s \in Sessions : lock[s]} = {}
  BY Zenon DEF ComInit
<1>3. QED
  BY <1>1, <1>2, FS_EmptySet DEF ProviderInv, LocksRight, ComInit

LEMMA HostEndsStep == HostEnds => ProviderInv'
<1> SUFFICES ASSUME HostEnds PROVE ProviderInv'
  OBVIOUS
<1>1. CountsRight' /\ TileAlive' /\ OnlyCredentialsLeak' /\ HeldUsable'
  BY DEF HostEnds, CountsRight, TileAlive, OnlyCredentialsLeak, HeldUsable
<1>2. {s \in Sessions : lock'[s]} = {}
  BY Zenon DEF HostEnds
<1>3. QED
  BY <1>1, <1>2, FS_EmptySet DEF ProviderInv, LocksRight, HostEnds

\* Every step of host and daemon keeps the invariant.
LEMMA ProviderInvStep ==
    ASSUME ProviderTypeOK, ProviderInv, [ProviderNext]_providerVars
    PROVE  ProviderInv'
<1>1. ASSUME NEW s \in Sessions, HostStep(s) PROVE ProviderInv'
  <2>1. ASSUME NEW o \in Objects, GetCredentialAt(s, o) PROVE ProviderInv'
    <3>1. kind[o] = "provider" /\ loaded
      BY <2>1 DEF GetCredentialAt, Callable, ProviderInv, HeldUsable
    <3>2. credential[o] \in Objects /\ kind[credential[o]] # "free"
      BY <3>1 DEF ProviderInv, TileAlive
    <3>3. QED
      BY <2>1, <3>1, <3>2, CountUp DEF GetCredentialAt
  <2>2. ASSUME NEW o \in Objects, AddRef(s, o) PROVE ProviderInv'
    <3>1. kind[o] # "free" /\ loaded
      BY <2>2 DEF AddRef, Callable, ProviderInv, HeldUsable
    <3>2. QED
      BY <2>2, <3>1, CountUp DEF AddRef, QueryInterface
  <2>3. ASSUME NEW o \in Objects, GetSerialization(s, o) PROVE ProviderInv'
    BY <2>3, PipeSteps DEF GetSerialization
  <2>4. QED
    BY <1>1, <2>1, <2>2, <2>3, FactoryStep, InstanceStep, ReleaseStep, LockStep DEF HostStep
<1>2. ASSUME NEW s \in Sessions, PipeApproval(s) \/ Connect(s) \/ Handle(s)
      PROVE  ProviderInv'
  BY <1>2, PipeSteps DEF PipeApproval, Connect, Handle
<1>3. CASE Create \/ DaemonStarts \/ DaemonEnds
  BY <1>3, PipeSteps DEF Create, DaemonStarts, DaemonEnds
<1>4. CASE UNCHANGED providerVars
  BY <1>4, PipeSteps DEF providerVars
<1>5. QED
  BY <1>1, <1>2, <1>3, <1>4, UnloadStep, HostEndsStep DEF ProviderNext

\* The inductive invariant: counts are references, locks are sessions.
THEOREM ProviderInvariance == ProviderSpec => [](ProviderTypeOK /\ ProviderInv)
<1>1. ProviderInit => ProviderTypeOK /\ ProviderInv
  BY ProviderTypeInit, FreshHost DEF ProviderInit
<1>2. ProviderTypeOK /\ ProviderInv /\ [ProviderNext]_providerVars
        => ProviderTypeOK' /\ ProviderInv'
  BY ProviderTypeStep, ProviderInvStep DEF ProviderInv
<1>3. QED
  BY <1>1, <1>2, PTL DEF ProviderSpec

\* No object is deleted under a reference of the host, and no code unloaded under
\* one of a session that has locked the server.
THEOREM ReferencesUsable == ProviderSpec => []HeldUsable
<1>1. ProviderInv => HeldUsable
  BY DEF ProviderInv
<1>2. ProviderSpec => []ProviderInv
  <2>1. ProviderSpec => [](ProviderTypeOK /\ ProviderInv)
    BY ProviderInvariance
  <2>2. QED
    BY <2>1, PTL
<1>3. QED
  BY <1>1, <1>2, PTL

\* A provider can always hand out its credential.
THEOREM TilesServed == ProviderSpec => []TileAlive
<1>1. ProviderInv => TileAlive
  BY DEF ProviderInv
<1>2. ProviderSpec => []ProviderInv
  <2>1. ProviderSpec => [](ProviderTypeOK /\ ProviderInv)
    BY ProviderInvariance
  <2>2. QED
    BY <2>1, PTL
<1>3. QED
  BY <1>1, <1>2, PTL

\* Factories and providers do not leak.
THEOREM LeaksBounded == ProviderSpec => []OnlyCredentialsLeak
<1>1. ProviderInv => OnlyCredentialsLeak
  BY DEF ProviderInv
<1>2. ProviderSpec => []ProviderInv
  <2>1. ProviderSpec => [](ProviderTypeOK /\ ProviderInv)
    BY ProviderInvariance
  <2>2. QED
    BY <2>1, PTL
<1>3. QED
  BY <1>1, <1>2, PTL

-----------------------------------------------------------------------------
(* The pipe *)

\* A step of the host, of the loop, of a handler, or the end of either process
\* leaves every request in one hand.
LEMMA HandsStep ==
    ASSUME ProviderTypeOK, HandsRight, [ProviderNext]_providerVars
    PROVE  HandsRight'
<1> USE ProviderAssumption DEF ProviderTypeOK, HandsRight, Requests
<1>1. ASSUME NEW s \in Sessions, HostStep(s) PROVE HandsRight'
  <2>1. CASE UNCHANGED pipeVars
    BY <2>1 DEF pipeVars
  <2>2. ASSUME NEW o \in Objects, GetSerialization(s, o) PROVE HandsRight'
    BY <2>2 DEF GetSerialization
  <2>3. QED
    BY <1>1, <2>1, <2>2
    DEF HostStep, DllGetClassObject, CreateInstance, GetCredentialAt, AddRef, Release, LockServer
<1>2. ASSUME NEW s \in Sessions, PipeApproval(s) PROVE HandsRight'
  BY <1>2 DEF PipeApproval, Closed
<1>3. ASSUME NEW s \in Sessions, Connect(s) PROVE HandsRight'
  BY <1>3 DEF Connect
<1>4. ASSUME NEW s \in Sessions, Handle(s) PROVE HandsRight'
  BY <1>4 DEF Handle
<1>5. CASE Create
  BY <1>5 DEF Create
<1>6. CASE HostEnds
  BY <1>6 DEF HostEnds, Closed
<1>7. CASE DaemonEnds
  BY <1>7 DEF DaemonEnds
<1>8. CASE Unload \/ DaemonStarts
  BY <1>8 DEF Unload, DaemonStarts, pipeVars
<1>9. CASE UNCHANGED providerVars
  BY <1>9 DEF providerVars, pipeVars
<1>10. QED
  BY <1>1, <1>2, <1>3, <1>4, <1>5, <1>6, <1>7, <1>8, <1>9 DEF ProviderNext

\* A request left in the pipe is in exactly one hand of the daemon: none is lost
\* and none is read twice.
THEOREM RequestsKept == ProviderSpec => []RequestInHand
<1>1. ProviderInit => HandsRight
  BY ProviderAssumption DEF ProviderInit, HandsRight
<1>2. ProviderTypeOK /\ HandsRight => RequestInHand
  BY Zenon DEF HandsRight, RequestInHand, ProviderTypeOK
<1>3. ProviderSpec => [](ProviderTypeOK /\ ProviderInv)
  BY ProviderInvariance
<1>4. QED
  BY <1>1, <1>2, <1>3, HandsStep, PTL DEF ProviderSpec

=============================================================================
