------------------------------ MODULE KeyStore ------------------------------
(***************************************************************************)
(* The daemon's store of paired public keys (daemon/src/store.rs): one     *)
(* entry of the OS keyring that holds every key, one a line.  A handler    *)
(* adds a key by reading the whole entry, appending the key to its own     *)
(* copy and writing the copy back.  Nothing locks the entry, and the       *)
(* handlers run on several threads, so the read and the write are separate *)
(* steps.  Lines are kept as a set: their order is never looked at and     *)
(* add_public_key never adds a line twice.                                 *)
(***************************************************************************)

CONSTANTS
    Keys,       \* Ed25519 public keys that clients may offer
    Conns,      \* connections, each served by a handler task of its own
    Readable    \* the outcomes get_password may have: TRUE success, FALSE error

ASSUME ReadableAssumption == Readable \subseteq BOOLEAN

VARIABLES
    vault,      \* the keyring entry; {} also stands for no entry
    keys,       \* keys[c]: handler c's copy, {} while it is not adding a key
    stored,     \* history: every key some successful write has contained
    exposed     \* history: the keys that a handler between its read and its write
                \* does not have in its copy, since they were last written

storeVars == <<vault, keys, stored, exposed>>

StoreTypeOK ==
    /\ vault \in SUBSET Keys
    /\ keys \in [Conns -> SUBSET Keys]
    /\ stored \in SUBSET Keys
    /\ exposed \in SUBSET Keys

\* Whatever an earlier run of the daemon has left in the keyring.
StoreInit ==
    /\ vault \in SUBSET Keys
    /\ keys = [c \in Conns |-> {}]
    /\ stored = vault
    /\ exposed = {}

-----------------------------------------------------------------------------

\* An error of get_password is read as an empty store, not reported.
load_public_keys(readable) == IF readable THEN vault ELSE {}

\* The keys that a handler misses which could not read the entry.
Misread(readable) == IF readable THEN {} ELSE vault

\* The keys of handler c's copy which another handler has loaded too early to
\* have in its own.
Overtaken(c) == {k \in keys[c] : \E d \in Conns : d # c /\ keys[d] # {} /\ k \notin keys[d]}

\* Mutant: the new key is written without the ones already there.
AddLoadAlone(c, key) ==
    /\ keys[c] = {}
    /\ \E readable \in Readable :
         /\ keys' = [keys EXCEPT ![c] = {key}]
         /\ exposed' = exposed \cup Misread(readable)
    /\ UNCHANGED <<vault, stored>>

\* The first half of add_public_key: load the keys, push the new one.
AddLoad(c, key) ==
    /\ keys[c] = {}
    /\ \E readable \in Readable :
         /\ keys' = [keys EXCEPT ![c] = load_public_keys(readable) \cup {key}]
         /\ exposed' = exposed \cup Misread(readable)
    /\ UNCHANGED <<vault, stored>>

\* The second half, set_password succeeding: the handler's copy replaces
\* the entry.
AddSet(c) ==
    /\ keys[c] # {}
    /\ vault' = keys[c]
    /\ stored' = stored \cup keys[c]
    /\ exposed' = (exposed \ keys[c]) \cup Overtaken(c)
    /\ keys' = [keys EXCEPT ![c] = {}]

\* The second half, set_password failing: the entry is as it was.
AddFail(c) ==
    /\ keys[c] # {}
    /\ keys' = [keys EXCEPT ![c] = {}]
    /\ UNCHANGED <<vault, stored, exposed>>

\* The process ends: every handler's copy is gone, the keyring is not.
StoreCrash ==
    /\ keys' = [c \in Conns |-> {}]
    /\ UNCHANGED <<vault, stored, exposed>>

StoreNext ==
    \/ \E c \in Conns, key \in Keys : AddLoad(c, key)
    \/ \E c \in Conns : AddSet(c)
    \/ \E c \in Conns : AddFail(c)
    \/ StoreCrash

StoreSpec == StoreInit /\ [][StoreNext]_storeVars

-----------------------------------------------------------------------------

\* A key whose pairing was answered `accepted: true` (server.rs:99) is still
\* in the keyring, whatever pairings, failed writes and restarts of the daemon
\* came after it, unless another pairing had read the entry before this key was
\* written and not written it back yet, or could not read it (store.rs:25, 33-36):
\* pairings that overlap cost each other's keys, never those from before, and a
\* key that is paired again is as safe as a new one.
AcceptedKeysStored == stored \ vault \subseteq exposed

\* Inductive: what a copy that is about to be written lacks is exposed.
StoreInv ==
    /\ AcceptedKeysStored
    /\ \A c \in Conns : keys[c] # {} => vault \ keys[c] \subseteq exposed

=============================================================================
