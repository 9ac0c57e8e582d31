------------------------- MODULE CredentialProvider -------------------------
(***************************************************************************)
(* The Windows credential provider (windows-cp/): the COM objects of the   *)
(* DLL, their reference counts, the lock count that DllCanUnloadNow looks  *)
(* at, and the request that GetSerialization sends through the daemon's    *)
(* named pipe.  The host is LogonUI: it calls only through references it   *)
(* holds, each logon session from a thread of its own (the registered      *)
(* threading model is Apartment), so objects are not shared by sessions.   *)
(* A call that fails before it creates anything (a null pointer, another   *)
(* class, aggregation, no memory, an index other than 0), and a method     *)
(* that answers a constant, change nothing and are left out.               *)
(***************************************************************************)
EXTENDS Integers, FiniteSets

CONSTANTS
    Sessions,    \* logon sessions of the host
    NoSession,
    Objects,     \* addresses of objects; a bound on those alive at a time
    NoObject,
    MaxRefs      \* bound on the references the host holds to one object

ASSUME ProviderAssumption ==
    /\ IsFiniteSet(Sessions)
    /\ NoSession \notin Sessions
    /\ NoObject \notin Objects
    /\ {"none", "listening"} \cap Sessions = {}
    /\ MaxRefs \in Nat

VARIABLES
    loaded,        \* the DLL is mapped into the host
    module_locks,
    kind,          \* kind[o]: the class of the object at o, or "free"
    references,    \* references[o]: references_
    credential,    \* credential[o]: credential_ of the provider at o
    held,          \* held[o]: the references the host has and has not released
    owner,         \* owner[o]: the session whose object it is
    lock,          \* lock[s]: the session has locked the server
    up,            \* the daemon runs
    pipe,          \* the pipe's open instance: "none", "listening" or its client
    request,       \* request[s]: what the pipe of the session holds
    handler        \* handler[s]: a handler of the daemon serves that pipe

comVars == <<loaded, module_locks, kind, references, credential, held, owner, lock>>
pipeVars == <<up, pipe, request, handler>>
providerVars == <<comVars, pipeVars>>

Classes == {"factory", "provider", "credential"}

\* "writing": the client is in PipeApproval.  "sent" and "broken": it has closed
\* the pipe, with and without a complete request in it.
Requests == {"none", "writing", "sent", "broken"}

ProviderTypeOK ==
    /\ loaded \in BOOLEAN
    /\ module_locks \in Int
    /\ kind \in [Objects -> Classes \cup {"free"}]
    /\ references \in [Objects -> Nat]
    /\ credential \in [Objects -> Objects \cup {NoObject}]
    /\ held \in [Objects -> Nat]
    /\ owner \in [Objects -> Sessions \cup {NoSession}]
    /\ lock \in [Sessions -> BOOLEAN]
    /\ up \in BOOLEAN
    /\ pipe \in {"none", "listening"} \cup Sessions
    /\ request \in [Sessions -> Requests]
    /\ handler \in [Sessions -> BOOLEAN]

\* A new host process, without the DLL.
ComInit ==
    /\ loaded = FALSE
    /\ module_locks = 0
    /\ kind = [o \in Objects |-> "free"]
    /\ references = [o \in Objects |-> 0]
    /\ credential = [o \in Objects |-> NoObject]
    /\ held = [o \in Objects |-> 0]
    /\ owner = [o \in Objects |-> NoSession]
    /\ lock = [s \in Sessions |-> FALSE]

ProviderInit ==
    /\ ComInit
    /\ up = FALSE
    /\ pipe = "none"
    /\ request = [s \in Sessions |-> "none"]
    /\ handler = [s \in Sessions |-> FALSE]

-----------------------------------------------------------------------------
(* The objects *)

\* The session is not inside a call, and has a reference to call through, to code
\* that is there: a call into unloaded code is one of the ends of the host.
Callable(s, o, class) ==
    /\ loaded
    /\ held[o] > 0 /\ owner[o] = s /\ kind[o] = class
    /\ request[s] # "writing"

\* QueryInterface counts the reference it hands out, if it knows the interface.
QueryInterface(count, known) == IF known THEN count + 1 ELSE count

\* What is left of a new object's count of 1 once it has been queried for the
\* caller and released; at 0 the object is deleted.
Handed(known) == QueryInterface(1, known) - 1

\* DllGetClassObject, which loads the DLL if need be, hands out a new factory.
\* For an unknown interface the factory is deleted at once: nothing changes
\* but the loading.
DllGetClassObject(s) ==
    /\ request[s] # "writing"
    /\ loaded' = TRUE
    /\ module_locks' = IF loaded THEN module_locks ELSE 0
    /\ \E o \in Objects, known \in BOOLEAN :
         /\ kind[o] = "free"
         /\ kind' = [kind EXCEPT ![o] = IF Handed(known) = 0 THEN "free" ELSE "factory"]
         /\ references' = [references EXCEPT ![o] = Handed(known)]
         /\ held' = [held EXCEPT ![o] = IF known THEN 1 ELSE 0]
         /\ owner' = [owner EXCEPT ![o] = IF known THEN s ELSE NoSession]
    /\ UNCHANGED <<credential, lock, pipeVars>>

\* Mutant: CreateInstance does not release its own reference to the provider.
CreateInstanceUnreleased(s, f) ==
    /\ Callable(s, f, "factory")
    /\ \E p, c \in Objects, known \in BOOLEAN :
         /\ p # c /\ kind[p] = "free" /\ kind[c] = "free"
         /\ kind' = [kind EXCEPT ![p] = "provider", ![c] = "credential"]
         /\ references' = [references EXCEPT ![p] = QueryInterface(1, known), ![c] = 1]
         /\ credential' = [credential EXCEPT ![p] = c]
         /\ held' = [held EXCEPT ![p] = IF known THEN 1 ELSE 0]
         /\ owner' = [owner EXCEPT ![p] = s, ![c] = s]
    /\ UNCHANGED <<loaded, module_locks, lock, pipeVars>>

\* A provider with a credential of its own.  For an unknown interface the
\* provider is deleted at once, and its credential stays, as no destructor
\* releases it.
CreateInstance(s, f) ==
    /\ Callable(s, f, "factory")
    /\ \E p, c \in Objects, known \in BOOLEAN :
         /\ p # c /\ kind[p] = "free" /\ kind[c] = "free"
         /\ kind' = [kind EXCEPT ![p] = IF Handed(known) = 0 THEN "free" ELSE "provider",
                                 ![c] = "credential"]
         /\ references' = [references EXCEPT ![p] = Handed(known), ![c] = 1]
         /\ credential' = [credential EXCEPT ![p] = IF Handed(known) = 0 THEN NoObject ELSE c]
         /\ held' = [held EXCEPT ![p] = IF known THEN 1 ELSE 0]
         /\ owner' = [owner EXCEPT ![p] = IF known THEN s ELSE NoSession, ![c] = s]
    /\ UNCHANGED <<loaded, module_locks, lock, pipeVars>>

\* Mutant: the credential is handed out without a reference.
GetCredentialUncounted(s, p) ==
    /\ Callable(s, p, "provider")
    /\ held[credential[p]] < MaxRefs
    /\ held' = [held EXCEPT ![credential[p]] = @ + 1]
    /\ UNCHANGED <<loaded, module_locks, kind, references, credential, owner, lock, pipeVars>>

\* GetCredentialAt(0), the only index below GetCredentialCount.
GetCredentialAt(s, p) ==
    /\ Callable(s, p, "provider")
    /\ held[credential[p]] < MaxRefs
    /\ held' = [held EXCEPT ![credential[p]] = @ + 1]
    /\ references' = [references EXCEPT ![credential[p]] = @ + 1]
    /\ UNCHANGED <<loaded, module_locks, kind, credential, owner, lock, pipeVars>>

\* AddRef, or QueryInterface for an interface the object has.
AddRef(s, o) ==
    /\ \E class \in Classes : Callable(s, o, class)
    /\ held[o] < MaxRefs
    /\ held' = [held EXCEPT ![o] = @ + 1]
    /\ references' = [references EXCEPT ![o] = QueryInterface(@, TRUE)]
    /\ UNCHANGED <<loaded, module_locks, kind, credential, owner, lock, pipeVars>>

\* Release: the last reference deletes the object.  A deleted provider forgets
\* its credential without releasing it.
Release(s, o) ==
    /\ \E class \in Classes : Callable(s, o, class)
    /\ held' = [held EXCEPT ![o] = @ - 1]
    /\ references' = [references EXCEPT ![o] = @ - 1]
    /\ \/ /\ references[o] # 1
          /\ UNCHANGED <<kind, credential, owner>>
       \/ /\ references[o] = 1
          /\ kind' = [kind EXCEPT ![o] = "free"]
          /\ credential' = [credential EXCEPT ![o] = NoObject]
          /\ owner' = [owner EXCEPT ![o] = NoSession]
    /\ UNCHANGED <<loaded, module_locks, lock, pipeVars>>

\* Mutant: the lock is a flag.
LockServerFlag(s, f, on) ==
    /\ Callable(s, f, "factory")
    /\ lock[s] = ~on
    /\ lock' = [lock EXCEPT ![s] = on]
    /\ module_locks' = IF on THEN 1 ELSE 0
    /\ UNCHANGED <<loaded, kind, references, credential, held, owner, pipeVars>>

\* LockServer; a session undoes its own lock and no other.
LockServer(s, f, on) ==
    /\ Callable(s, f, "factory")
    /\ lock[s] = ~on
    /\ lock' = [lock EXCEPT ![s] = on]
    /\ module_locks' = module_locks + (IF on THEN 1 ELSE -1)
    /\ UNCHANGED <<loaded, kind, references, credential, held, owner, pipeVars>>

DllCanUnloadNow == module_locks = 0

\* The host frees unused libraries.  What is still allocated stays so, without
\* code to run until the DLL is loaded again.
Unload ==
    /\ loaded
    /\ DllCanUnloadNow
    /\ loaded' = FALSE
    /\ UNCHANGED <<module_locks, kind, references, credential, held, owner, lock, pipeVars>>

\* What the pipe holds once the client has closed it: nothing, if the daemon has
\* ended since it was opened.
Closed(s, content) == IF pipe = s \/ handler[s] THEN content ELSE "none"

\* The host process ends: by itself, because `new OpenBioCredential`, which is
\* not nothrow, leaves CreateInstance with an exception, or because it runs into
\* code that has been unloaded.
HostEnds ==
    /\ loaded' = FALSE
    /\ module_locks' = 0
    /\ kind' = [o \in Objects |-> "free"]
    /\ references' = [o \in Objects |-> 0]
    /\ credential' = [o \in Objects |-> NoObject]
    /\ held' = [o \in Objects |-> 0]
    /\ owner' = [o \in Objects |-> NoSession]
    /\ lock' = [s \in Sessions |-> FALSE]
    /\ request' = [s \in Sessions |->
         IF request[s] = "writing" THEN Closed(s, "broken") ELSE request[s]]
    /\ UNCHANGED <<up, pipe, handler>>

-----------------------------------------------------------------------------
(* The named pipe *)

\* GetSerialization calls PipeApproval, and CreateFileW finds an instance that
\* listens; otherwise it fails and nothing changes.  Bound: a session has one
\* unserved request at a time.
GetSerialization(s, o) ==
    /\ Callable(s, o, "credential")
    /\ request[s] = "none" /\ ~handler[s]
    /\ pipe = "listening"
    /\ pipe' = s
    /\ request' = [request EXCEPT ![s] = "writing"]
    /\ UNCHANGED <<comVars, up, handler>>

\* WriteFile and CloseHandle.  S_OK is returned if the request is in the pipe;
\* the answer is never read.  With the daemon gone the write fails.
PipeApproval(s) ==
    /\ loaded
    /\ request[s] = "writing"
    /\ request' = [request EXCEPT ![s] = Closed(s, "sent")]
    /\ UNCHANGED <<comVars, up, pipe, handler>>

\* run_named_pipe creates an instance, in which it waits for a client.
Create ==
    /\ up /\ pipe = "none"
    /\ pipe' = "listening"
    /\ UNCHANGED <<comVars, up, request, handler>>

\* Mutant: the client is served before the loop goes on.
ConnectInline(s) ==
    /\ pipe = s
    /\ request[s] \in {"sent", "broken"}
    /\ pipe' = "none"
    /\ request' = [request EXCEPT ![s] = "none"]
    /\ UNCHANGED <<comVars, up, handler>>

\* Mutant: only a client that is still connected is served.
ConnectMissed(s) ==
    /\ pipe = s
    /\ pipe' = "none"
    /\ handler' = [handler EXCEPT ![s] = request[s] = "writing"]
    /\ UNCHANGED <<comVars, up, request>>

\* server.connect() returns: a handler is spawned and the loop goes on.
Connect(s) ==
    /\ pipe = s
    /\ pipe' = "none"
    /\ handler' = [handler EXCEPT ![s] = TRUE]
    /\ UNCHANGED <<comVars, up, request>>

\* The handler reads the request or the end of file.  Its answer to a challenge
\* finds the pipe closed, and it ends.
Handle(s) ==
    /\ handler[s]
    /\ request[s] \in {"sent", "broken"}
    /\ request' = [request EXCEPT ![s] = "none"]
    /\ handler' = [handler EXCEPT ![s] = FALSE]
    /\ UNCHANGED <<comVars, up, pipe>>

DaemonStarts ==
    /\ ~up
    /\ up' = TRUE
    /\ UNCHANGED <<comVars, pipe, request, handler>>

\* The daemon ends with its pipes; a failure of create or connect is one reason.
DaemonEnds ==
    /\ up
    /\ up' = FALSE
    /\ pipe' = "none"
    /\ request' = [s \in Sessions |-> IF request[s] = "writing" THEN "writing" ELSE "none"]
    /\ handler' = [s \in Sessions |-> FALSE]
    /\ UNCHANGED comVars

-----------------------------------------------------------------------------

HostStep(s) ==
    \/ DllGetClassObject(s)
    \/ \E o \in Objects :
         \/ CreateInstance(s, o)
         \/ GetCredentialAt(s, o)
         \/ AddRef(s, o)
         \/ Release(s, o)
         \/ \E on \in BOOLEAN : LockServer(s, o, on)
         \/ GetSerialization(s, o)

ProviderNext ==
    \/ \E s \in Sessions : HostStep(s)
    \/ \E s \in Sessions : PipeApproval(s)
    \/ Unload
    \/ HostEnds
    \/ Create
    \/ \E s \in Sessions : Connect(s)
    \/ \E s \in Sessions : Handle(s)
    \/ DaemonStarts
    \/ DaemonEnds

ProviderSpec == ProviderInit /\ [][ProviderNext]_providerVars

\* The daemon's tasks run.  Nothing is assumed of the host.
ProviderFairSpec ==
    /\ ProviderSpec
    /\ WF_providerVars(Create)
    /\ \A s \in Sessions : WF_providerVars(Connect(s)) /\ WF_providerVars(Handle(s))

-----------------------------------------------------------------------------
(* Properties *)

\* Nothing is deleted under a reference the host holds, and DllCanUnloadNow, which
\* counts locks and no objects (dllmain.cpp:55-57), lets nobody unload the code
\* of a session that has locked the server, whatever the others lock, unlock and
\* release meanwhile.
HeldUsable ==
    \A o \in Objects : held[o] > 0 => kind[o] # "free" /\ (lock[owner[o]] => loaded)

\* The credential that a provider would hand out next is alive, however often it
\* was handed out and released (CredentialProvider.cpp:34 and 45).
TileAlive ==
    \A o \in Objects : kind[o] = "provider" =>
        credential[o] \in Objects /\ kind[credential[o]] = "credential"

\* Factories and providers go with their last reference: each path through
\* DllGetClassObject and CreateInstance gives up its own (dllmain.cpp:29-33, 48-52).
\* Credentials do not, as their provider never releases them.
OnlyCredentialsLeak ==
    \A o \in Objects : kind[o] \in {"factory", "provider"} => held[o] > 0

\* A client that connects and then stalls does not keep others out: the pipe
\* listens again, or the daemon has ended (server.rs:64-71).
PipeComesBack == \A s \in Sessions : pipe = s ~> pipe = "listening" \/ ~up

\* A request for which GetSerialization has returned S_OK is read by a handler,
\* or the daemon has ended.
SentIsRead == \A s \in Sessions : request[s] = "sent" ~> request[s] = "none"

\* What makes that possible: a request that its client has left in the pipe
\* (CredentialProvider.cpp:11-12) is in the hands of exactly one party of the
\* daemon, the loop that has yet to notice the client or a handler, whichever of
\* the two ends went first and however often the daemon was restarted.
RequestInHand ==
    \A s \in Sessions :
        request[s] \in {"sent", "broken"} => (pipe = s) # handler[s]

\* Inductive: an instance is never in two hands, nor in one for no request.
HandsRight ==
    \A s \in Sessions :
        /\ request[s] \in {"sent", "broken"} => pipe = s \/ handler[s]
        /\ pipe = s => request[s] # "none" /\ ~handler[s]
        /\ handler[s] => request[s] # "none"

\* Inductive: a count is the references of the host, and one more for a
\* credential, which its provider has taken and never gives back.
CountsRight ==
    \A o \in Objects :
        /\ references[o] = held[o] + (IF kind[o] = "credential" THEN 1 ELSE 0)
        /\ kind[o] \in {"factory", "provider"} => references[o] > 0
        /\ kind[o] = "free" => references[o] = 0
        /\ kind[o] # "free" => owner[o] \in Sessions

\* Inductive: the lock count is the number of sessions that have locked.
LocksRight ==
    /\ module_locks = Cardinality({s \in Sessions : lock[s]})
    /\ ~loaded => module_locks = 0

ProviderInv == CountsRight /\ LocksRight /\ TileAlive /\ OnlyCredentialsLeak /\ HeldUsable

=============================================================================
