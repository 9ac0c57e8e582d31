# OpenBioUnlock in TLA+

OpenBioUnlock lets a phone approve a login on a workstation. This directory holds
TLA+ models of the parts that decide who gets in, TLC runs that check them on small
instances, and TLAPS proofs for all instances. Paths below are those of the repository.

## The system

| Part | State it keeps | Operations | Talks to |
|---|---|---|---|
| Daemon (`daemon/src/server.rs`, `main.rs`) | a map from challenge id to pending login, behind a tokio mutex; one task per connection | `pair`, `authorize`, `challenge`, `verify` requests over TCP, Unix socket or named pipe; a 30 s timeout; exit when a listener fails | login programs, phones, key store |
| Key store (`daemon/src/store.rs`) | one keyring entry with all paired keys | load, add (read, append, write back) | called by the daemon's handlers without a lock |
| Signature check (`daemon/src/crypto.rs`) | none | nonce, freshness of 30 s, Ed25519 | daemon |
| PAM module (`linux-pam/pam_openbiounlock.c`) | the locals of one call | connect, write, poll for 35 s, read, close | daemon, over the Unix socket |
| Desktop server (`src/core/server.cpp`, `src/main.cpp`) | pairing code with its age, signing and session key of each device id, replay guard; all in memory | start, stop, QR payload, `pair`, `challenge`, `verify` in an AES-GCM envelope | mobile app, dashboard |
| Replay guard (`src/core/crypto.cpp`) | the tokens seen, the time of the last cleanup | `accept` | desktop server |
| Dashboard (`src/ui`, `src/main.cpp`) | window, open dialog, device list, log, thresholds | show QR in a modal dialog, list paired and nearby devices, edit thresholds, close, reopen, quit | desktop server, BLE discovery |
| BLE discovery (`src/core/ble_discovery.cpp`) | whether the agent scans | start, reports, end | dashboard |
| Credential vault (`src/core/credential.cpp`) | secrets in QSettings or Secret Service | write, read, remove; no caller yet | DPAPI, libsecret |
| Mobile app (`mobile/lib/main.dart`, `crypto_service.dart`) | seeds in secure storage, session key | initialize, sign, pair | desktop server |
| Proximity scan (`mobile/lib/ble_service.dart`, the switch in `main.dart`) | scan subscription, who is near, the page's listener | switch on and off, leave the page, results | Bluetooth plugin |
| Windows credential provider (`windows-cp`) | COM reference counts, lock count, pipe handle | create, hand out, release, lock, unload; a `challenge` through the named pipe | LogonUI, daemon |
| `proto/` | none, and unused | | |

What is hard, and where:

- **Interleaving.** The daemon's handlers run on several threads. The mutex is dropped
  between every two steps of a handler: draw, insert, wait, look, remove; check the
  signature, then apply it; read the keyring, then write it.
- **Lost wakeups.** `notify_waiters` wakes only who is parked.
- **Timeouts against late answers.** The daemon's timer against the phone's approval,
  PAM's timer against the daemon's answer, the freshness window against both.
- **Failure.** Clients hang up, the process ends, the keyring fails, a random draw fails.
- **Sequences.** Codes that are used, shown again, replaced or expire; ids that are
  paired again; a guard that forgets.
- **Awaits.** The phone's tasks overtake each other at every await of `initialize()` and
  of the pairing conversation, and share key pairs, session key and storage. So do the
  taps on the proximity switch.
- **Nested event loops.** The pairing dialog runs one inside `exec()`, and a spin box's slot
  runs inside itself.
- **Lifetimes.** COM objects live by hand-kept counts, and their code by a lock count.

Correct means: a login is granted only on a fresh approval of this very request by a
paired phone; an approval is used once; nothing stays in the map; every request and
every PAM call ends; a pairing code pairs one phone in its five minutes; only the phone
paired last under an id unlocks, and a signed challenge unlocks a bounded number of times;
a phone acts only under the identity it has stored, and phone and workstation agree on
the session key of an accepted pairing; a switch that is off listens to nothing; the
dashboard shows the code and the devices that are; a COM reference can be called, and a
request written to the pipe is read.

## Modules

| Module | What it is |
|---|---|
| `KeyStore` | the keyring entry and the two halves of `add_public_key` |
| `LoginApproval` | abstract specification: the life of the login request of a connection |
| `Daemon` | extends `KeyStore`; every step of `handle_stream` between two critical sections, hang-ups, the end of the process, the clock |
| `PamLogin` | extends `Daemon`; PAM calls composed with the daemon |
| `ReplayGuard` | `ReplayGuard::accept` and the clock |
| `Desktop` | extends `ReplayGuard`; one run of the desktop server |
| `Mobile` | the phone app's tasks between their awaits, with the pairing side of a workstation |
| `Dashboard` | extends `Desktop`; the window, its dialog, list and thresholds, and the Bluetooth scan, around the server |
| `Proximity` | the phone's proximity switch and scan between their awaits |
| `CredentialProvider` | the COM objects of the DLL, their host, and the daemon's named pipe |
| `CredentialVault` | the vault in its three builds with the system store behind it |
| `MCDaemon`, `MCPamLogin`, `MCDesktop`, `MCDashboard`, `MCMobile`, `MCProximity` | instances for TLC: who sends what, symmetry |
| `DaemonProofs` (with the key store), `PamProofs`, `ReplayGuardProofs`, `DesktopProofs`, `DashboardProofs`, `MobileProofs`, `ProximityProofs`, `ProviderProofs` | theorems |

### How the models correspond to the code

`Daemon`. `pending` is the `HashMap`, `pc[c]` the place of connection `c`'s handler in
`handle_stream`, `auth[c]` and `check[c]` its locals, `reply[c]` the line it has written
for the latest request. `ReadAuthorize`, `Insert`, `Listen`, `Look`, `Expire` and `Remove`
are the steps of `authorize`: `Listen` stands for the first poll of `notified()`, and an
approval before it wakes nobody. `ReadVerify` checks the signature without the lock and
`Apply` marks the entry under it. A handler that is woken can still lose to the timeout
while it waits for the lock. `Crash` is `try_join!` returning an error, or the process
being killed: all but the keyring is gone. Three histories are kept for the properties:
`approvals` of each nonce and, in `KeyStore`, every key that was ever `stored` and those that
are `exposed`: a handler between its read and its write does not have them in its copy, because
it read the entry before they were written or could not read it.

Challenge ids are named by the nonce they are drawn with, or `ZeroId` for the 32 zero
bytes that replace a failed draw. Nonces and codes are drawn without repetition. A
phone can sign only nonces that a `challenge` response has shown, with any key it has,
under any timestamp, for any id; signatures cannot be forged. The wall clock and the
monotonic clock are one clock that does not go back. The names in `user` and `device_id`
are left out since the daemon ignores them.

`PamLogin`. `PamConnect` is `connect` with the daemon's `accept`; the request is in the
socket once `PamWrite` is done and the daemon reads it when it likes; an answer stays
readable after the daemon has ended. `PamSignal` is `EINTR`, which restarts `poll` with
all of its 35 seconds. A write to a socket that the daemon has closed fails or, in a login
program that does not handle it, raises SIGPIPE and ends the program (`PamSigpipe`). The history `late` is set when a second passes while the daemon could
take a step; `GrantReachesPam` speaks of behaviours without one. `PamView` maps the composition to
`LoginApproval` once more, now for calls: a call is open from its connect, approved once the
nonce of its request is, and granted or refused only by what `pam_sm_authenticate` returns.

`ReplayGuard`. A token is the pair of nonce and timestamp. The code appends the decimal
timestamp to the nonce, which tells pairs apart for nonces of one length, and the server
hands out nonces of 32 bytes. The clock is read twice, and the second reading may be any time later
than the first; the history `slow` tells whether it ever was by two seconds or more.

`Desktop`. A phone stands for its signing key and its exchange key, so
`pairedKeys` and `sessionKeys` map ids to phones. Requests that are refused change
nothing and are left out, except those that reach the replay guard. `challenge` keeps
nothing at the server. A run of the program starts from nothing, so one behaviour is one run.

`Mobile`. A tap on Test or Pair starts a task; `place[t]` is the await it is at. A read of the
storage and what follows it up to the next await are one step, since that only touches the
task's locals; a write and the assignment after it are two, and storage may complete the calls
of two tasks in any order. Key pairs are generated without repetition. Of a workstation only
the number of the code it shows and the session keys are kept (`AcceptPair`, `RefusePair`,
`CodeExpires`); a pair request may be processed long after the phone has given it up. A
`dart:io` socket can be listened to once, so the second `_readLine` throws (`ListenAgain`)
and the rest of `pairFromQr` is never reached. A scanned key that is not hexadecimal and a
stored seed of the wrong length cannot come from the programs themselves and are left out. The
user taps at any time. Two histories mark what the code does not survive: `hurried`, a tap while
a task was busy and a seed not stored yet, and `mixed`, the tasks whose pairing overlapped another.

`Dashboard`. Every action is an action of `Desktop` with its effect on the window, or leaves the
server alone; `ServerInside` proves that, so what holds of the server holds in its window.
`dialogs` are the codes on screen; while one is, the window behind it cannot be reached
(`Reachable`), but the server and the scan go on. `deviceList` is the list with the order of its
rows, `heard` the history of the latest report of each UUID. The server takes any device id that is
not empty (`server.cpp:36`), so one may be the text of a UUID and share its row, though the app's ids,
keys in hex (`main.dart:69`), never are. The log, the status label and the drawing of the QR code are left out.

`Proximity`. A task is one tap on the switch or the end of the page; `pc[t]` is the await it is
at. Listeners and subscriptions are named by the task that made them, so that a task can cancel
or forget one that is not its own. Calls of the Bluetooth plugin end later or throw, and
a result may reach any live subscription. Two histories mark the behaviours in which the code
cannot keep its promise: `overlapped` (a tap during another) and `stopFailed`.

`CredentialProvider`. An object is an address with a class, a count and, for a provider, its
credential; `held` is what the host has to release. The host is as COM requires: it calls
only through references it holds, and into code that is loaded. It unloads whenever
`DllCanUnloadNow` says yes, under live objects too if no session has locked the server. Of the pipe, one instance is open at a time (`pipe`); `request[s]` is what a session's end of it
holds, and stays readable after the client has closed it. Methods that answer a constant, and calls
that fail early, change nothing.

`CredentialVault`. Bytes are a secret with the encodings it is in, so that decoding what was
not encoded that way fails as it does in the code. Each call may fail where the system's may.

## Runs

| Run | Instance | Shows |
|---|---|---|
| `daemon_logins` | 2 logins, 1 phone, 2 nonces, the zero id, a keyring that may fail to read, timeout and window of 1 s | `Inv`, `EntryOwned`, `ApprovalSingleUse`, `GrantNeedsApproval`, `PatientLogin`; refinement of `LoginApproval` |
| `daemon_live` | 1 login beside a client that pairs, logs in and approves; 2 keys, fairness | `AuthorizeAnswered`, `AcceptedKeysStored` |
| `pam` | 2 PAM calls, 1 phone, 1 signal, a daemon of any speed that may stall or crash | `PamSuccessApproved`, `GrantReachesPam`, `PamReturns`; refinement of `LoginApproval` by the calls (`PamImplementsLogin`) |
| `desktop_pairing` | 2 phones, 2 ids, 2 codes, 3 pairings, code window of 1 s, a guard whose window is the current second | `OneTimeCode`, `UncodedPairingConfined`, `CurrentPhoneUnlocks`, `ReplayedUnlocksBounded`, `AcceptsBounded` |
| `dashboard` | 1 phone, 2 ids of which 1 is also a UUID, 2 codes, 3 beacons of which 2 share another UUID, 3 levels | `DialogCodeLive`, `PairedListed`, `RowsJustified` |
| `mobile` | 2 tasks, 2 workstations, 3 taps, 1 kill, 2 codes each, 3 key pairs, failing storage, a user who may or may not wait | `KeyIsStored`, `EnvelopeOpens` |
| `proximity` | 5 taps at any await of the others, 1 device, 3 results between two stops | `OffMeansOff`, `SilentWhenOff`, `HysteresisRight` |
| `credential_provider` | 2 sessions, 3 objects, 2 references to each, a daemon that restarts, fairness | `HeldUsable`, `TileAlive`, `OnlyCredentialsLeak`, `RequestInHand`, `PipeComesBack`, `SentIsRead` |
| `mobile_overlap` | as `mobile` | `StoredIdentity`, without the condition of `KeyIsStored`, is violated: two first uses, two identities |
| `mobile_challenge` | as `mobile` | violated: an accepted pairing is reported as failed |
| `desktop_code` | as `desktop_pairing` | violated: a request without a code pairs after a pairing |
| `vault_windows` | 1 name, 1 secret, the Windows build | violated: a stored secret cannot be read |

Each property has a mutant: a changed definition, marked `Mutant` in the module, under
which TLC finds the property violated.

**Bounds.** The daemon's 30 seconds become 1 and PAM's 35 become 2, keeping the order of the
code's constants; that is enough for every order of timer, approval and freshness. The replay
guard's 30 and 60 become 0 in the desktop runs: a token is fresh in one second only, but a
cleanup may still fall into it, between the two readings of the clock. A third acceptance needs a
window of at least 1: the guard alone (`GuardSpec`) with a window of 1, a cleanup interval of 2 and
seven seconds of clock has been checked as well and has one, and the proof covers every window and
cleanup with `2 * Fresh <= Cleanup`. Two
logins are the fewest that can collide on an id, hold each other's entry or be confused
by a phone. The number of nonces bounds the login requests of a behaviour. The clock goes
past `MaxTime` only while a timer is armed, so that every timer can fire and there
are finitely many states. `MaxCalls`, `MaxSignals`, `MaxPairings` and the number of codes bound
what their names say, as do `MaxTaps`, `MaxKills` and `MaxCodes`; three taps are a first use, a
pairing that is given up and one that its late request can disturb; three key pairs are an
identity, an exchange key and one that is lost to a failure or a race. Three pairings are one with
a code and two without, or one between two codes. `daemon_live` has one pairing client over a
readable keyring; with one nonce in place of two, two pairing clients and a keyring that may fail
have been checked as well, and `AcceptedKeysKept` covers them all.
Three objects are a factory, a provider and its credential, which the two sessions have to share;
two references tell a count from a flag. Five taps are two switched on, two off and the end of
the page; three results are one that comes near, one between the thresholds and one that leaves.
Three levels lie below, between and above the thresholds. The runs allow deadlock where
a bounded instance ends: when its nonces, codes, taps or seconds are used up, and when the
desktop program exits. `credential_provider` is checked for deadlock.

**Fairness.** `daemon_live` assumes weak fairness of each handler's own steps, which
tokio gives by polling every ready task and by its first-come mutex, and that time
passes. Nothing is assumed of clients or crashes. `pam` assumes weak fairness of
PAM's own steps and of the clock, and nothing of the daemon. Signals must be finitely
many: `poll` starts over at each of them. `credential_provider` assumes that the daemon's
tasks run (the loop of `run_named_pipe` and the handlers it spawns), and nothing of the host.

## What the runs found

- `vault_windows`: `write` stores base64 text (`credential.cpp:17`) and `read` gives that text to
  DPAPI (`credential.cpp:26`). With libsecret the property holds.
- `desktop_code`: `pairingCode_.clear()` leaves the empty string to be matched
  (`server.cpp:36-37`); the mobile app itself never sends it.
- `mobile_overlap`: two taps at the first use generate two key pairs, and the one in use
  need not be the one stored (`crypto_service.dart:19-25`).
- `mobile_challenge`: the socket is listened to twice (`main.dart:71` and `76`), so the challenge
  that follows a pairing is never signed.

Seen while modelling, with no document that says otherwise, so without a run:

- An approval between the insert and the first `notified()` is lost (`server.rs:111-114`):
  the phone is told `authorized: true`, the login is refused at the timeout.
- The daemon takes any pairing code that is not empty (`server.rs:94`): it has shown none to compare
  it with, so a client that reaches its socket adds a key without the ceremony that the desktop
  server requires. `ReadPair` lets every client pair, and "a stored key" in `GrantNeedsApproval` means
  a key that some client has paired in this way.
- Two pairings at once lose a key, and a failed keyring read makes the next pairing drop
  all others (`store.rs:25, 33-36`).
- `challenge` shows an arbitrary entry, including approved ones and those of clients that
  are gone (`server.rs:125`).
- The replay guard's cleanup forgets tokens that are still fresh (`crypto.cpp:45`), so a token
  may be accepted twice. A request that lies still for two seconds or more between its two readings
  of the clock, across the end of the token's freshness, may have it accepted a third time. What does
  hold, and is proved, is the bound of two without such a request and of three with one.
- `write_all` writes without `MSG_NOSIGNAL` (`pam_openbiounlock.c:26`): a daemon that ends between
  `connect` and `write` may kill the login program by SIGPIPE.
- Two taps on the proximity switch that overlap leave a scan subscription that nobody can
  cancel (`ble_service.dart:21-23, 37-38`); after the page is gone its results are added to a closed
  stream.
- `DllCanUnloadNow` counts locks and no objects (`dllmain.cpp:56`), and a provider never releases
  its credential (`CredentialProvider.cpp:34`). A session that has not locked the server can be left
  with a reference into an unloaded DLL, which is why `HeldUsable` promises the code only to those
  that have. The answer to the provider's `challenge` is never read, and
  `GetSerialization` never serializes a credential.
- The window connects to the server after `start()` has announced its status, so the label stays
  at "Starting" (`main.cpp:13`, `main_window.cpp:22`). The Bluetooth scan is started once and rows of
  devices that leave later stay (`main_window.cpp:26`). A strength of 0, which stands for unknown,
  counts as near. Typing a far threshold passes through values that raise the near one for good.
- At exactly 30 seconds a login is given up while `is_fresh` still holds (`server.rs:112`,
  `crypto.rs:25`): an approval in the rest of that second is refused. `PatientLogin` says that no
  more than that second is lost.
- A phone that pairs under the text of a nearby device's UUID loses its row when that device is
  reported far (`server.cpp:36`, `main_window.cpp:30`).
- A storage failure at `crypto_service.dart:31` leaves `_keyPair` set and `_exchangeKeyPair`
  null: every pairing fails until the app is started again. Two pairings at once mix their
  session keys, since there is one `_sessionKey`.
- The QR payload names a LAN address (`server.cpp:27`) while the server listens on loopback
  (`server.cpp:20`); the model assumes that connections can be made.
- `server.cpp:50` misses a brace after `"openbiounlock"`; the models take the packet to
  be the object that is meant.

## Proofs

| Theorem | Statement |
|---|---|
| `DaemonProofs!TypeCorrect`, `Invariance` | types; `Spec => []Inv` |
| `NoOrphans`, `SingleUse`, `GrantsAreApproved`, `LoginsArePatient` | the four invariants of `daemon_logins` |
| `Refinement` | `Spec => ImplementsLogin` |
| `StoreKeeps`, `AcceptedKeysKept` | `AcceptedKeysStored` of the key store alone and inside the daemon |
| `PamProofs!PamSuccessIsApproved`, `GrantsReachPam` | the invariants of `pam` |
| `ComposedRefinement`, `ComposedKeysKept` | `PamSpec => ImplementsLogin`, `PamSpec => []AcceptedKeysStored` |
| `EndToEnd` | `PamSpec => PamImplementsLogin` |
| `ReplayGuardProofs!ReplayBound` | `GuardSpec => []AcceptsBounded` |
| `DesktopProofs!GuardInside` | `DesktopSpec => GuardSpec` |
| `CodesAreOneTime`, `UncodedPairingsConfined`, `UnlocksBounded`, `LatestPhoneUnlocks` | the invariants of `desktop_pairing` |
| `DashboardProofs!ServerInside` | `DashboardSpec => DesktopSpec` |
| `DialogsShowLiveCodes`, `PairedAreListed`, `RowsAreJustified` | the invariants of `dashboard` |
| `ProximityProofs!StopsAreComplete`, `SwitchSilences`, `HysteresisIsRight` | the invariants of `proximity` |
| `ProviderProofs!ReferencesUsable`, `TilesServed`, `LeaksBounded`, `RequestsKept` | the invariants of `credential_provider` |
| `MobileProofs!MobileTypeCorrect` | types of the phone app |
| `IdentityKept`, `SessionsAgree` | the invariants of `mobile` |

Assumptions: those named in the modules, evaluated by TLC in every run. The ones with
content are `TimeoutCoversWindow` (30 <= 30), `PollCoversTimeout` (30 < 35), `CleanupCoversWindow` (2 * 30 <= 60) and
`Start > Cleanup` (the epoch is long ago). No theorem assumes anything of users, phones or login
programs beyond what they can sign, or of the number of handlers. The host of the credential
provider is held to the rules of COM: `Callable` lets it call only through references it holds and
into code that is loaded, and a caller outside them is outside `ProviderProofs`. Where the code keeps a promise only under a condition, the condition
is a history variable in the property itself (`exposed`, `slow`, `late`, `hurried`, `mixed`, `overlapped`,
`stopFailed`), so that the theorem is about every behaviour and names what breaks the promise.

*The daemon.* `GrantNeedsApproval` is not inductive: one has to know why a set flag means
an approval of this request. `Inv` says that every entry belongs to a handler that
is still at it and agrees with it on nonce and timestamp (`EntryOwned`), that no two
handlers hold the same nonce (`NoncesOwned`), that an entry's flag is set exactly if its
nonce has an approval (`FlagIsApproval`), that a handler past its wakeup has
an approval and one before its insert has none (`PhaseApproval`), that checked signatures
and approvals are by stored keys and were fresh (`SignaturesSound`), and that a busy
handler has not answered (`BusyUnanswered`). Colliding zero ids are harmless: an approval wakes
the handlers of its own nonce only, so a handler whose entry was overwritten is refused at its
timeout unless its own nonce was approved before.
`StepKinds` sorts the steps into those that leave all of this alone and the few that do not.
`Patience` adds where a deadline comes from. The refinement maps a handler to
`open` or `approved` by whether its nonce has an approval.

*The key store.* `StoreInv`: whatever a copy that is about to be written lacks of the entry is
exposed, so writing it back loses nothing else. A load takes in the whole entry or exposes it; a write
exposes what the other copies lack of the new entry, and nothing of it besides.

*PAM.* Steps of the composition are steps of the daemon or the clock
(`ComposedStep`), which keep `Inv`; added is that the answer that made a call succeed
stays the latest on its connection, since a busy handler has no answer out. `Timely` is about
deadlines: as long as no second passes while the daemon could take a step, a request that PAM
has sent is read in the same second and its handler's deadline lies before the end of PAM's poll.
`EndToEnd` looks at a call from outside: `SignedSteps` and `SignedByClient` say which steps may add an
approval, `DaemonCallStep` that no step of the daemon moves a call except by one, and `OwnCallStep`
that PAM's own steps do what `LoginApproval` allows. A new call must find nothing of the last one on
its connection, which is what the mutant of `Accept` breaks.

*The replay guard.* `TokenInv` relates how often a token was accepted to the last cleanup:
accepted once and forgotten, the cleanup came after the first second it was fresh in;
accepted twice and forgotten, after the last, so it is stale. A third acceptance must bring its own
cleanup, which comes two seconds or more after the last second of freshness, while its first reading
of the clock is at most in that second.

*The desktop.* `CodeInv`: the code in use carries its own age and has paired nobody.
`WindowInv`: while the code is empty, the latest pairing with a code is the one whose window
is running, and every pairing since was without one; a code that is drawn ends that.
`KeysInv`: both keys under an id are those of the latest pairing under it. `CountInv`:
unlocks are acceptances, so the guard's bound carries over.

*The dashboard.* `ServerInside` first: each step is a step of the server or leaves it alone.
`DashboardInv`: no id has two rows, a paired id that is no UUID has one, the thresholds are in order and rows agree
with `heard`; `TakeFacts` and `SetDeviceFacts` say what removing and adding a row does to the others.
A dialog's code is the current one because only the dialog's own window can ask for another.

*The proximity scan.* `Calm`, which holds until taps overlap: one task at a time, and the only live
subscription is the one `_subscription` names. `ListenerKnown`, which always holds: the page
overwrites its listener only when there is none. `OneMore` says how the definition of being in range
changes with one more result.

*The credential provider.* `CountsRight`: a count is what the host holds, and one more for a
credential. `LocksRight`: the lock count is the number of sessions that have locked, so one that is
0 means that nobody with a reference relies on the code. `HandsRight`: of the loop and the
handlers, none has an instance without a client and no two have the same one, so what a client has
left in the pipe is still to be read.

*The phone.* `NoRace`: tasks overlap only when both seeds are stored or the user was in a hurry,
and pairings that overlap are `mixed`. `KeysThere`, which holds of every user: a task has the keys it
has come past. `IdentityInv`: unless `hurried`, the key pair in use is the stored one, and who is
about to store one is alone and finds none. `ExchangeInv`: the same for the exchange key, which is
used before it is stored, so its stored and used values agree only once both are there; a pairing that
has taken its exchange key keeps it. `WireInv` and `AnswerInv`: codes on the wire are never newer than
the code shown, so once a request has paired, no stale one can replace the session key of a pairing
that is not mixed.

**Only model-checked:** `AuthorizeAnswered`, `PamReturns`, `PipeComesBack` and `SentIsRead`, which
are liveness under fairness and out of the prover's reach. Every invariant of a passing run is proved.

## Not modelled, and the plan

Modelled, in the order of importance: daemon, key store, PAM, replay guard, desktop server,
phone app, credential provider, dashboard with BLE discovery, proximity scan, vault.
What could still be added:

1. `Mobile` composed with `Desktop` itself, in place of the counters of codes that stand for it.
2. The desktop server's connections: line buffers that are filled in pieces, and clients that
   leave in the middle of a line (`server.cpp:28-30`). Now a request is one action.
3. Two hosts of the credential provider at one pipe.

Left out for good: OpenSSL, Ed25519 and X25519 themselves (ideal operations), the bytes
of JSON lines and sockets, UDP discovery (a stateless broadcast), the dashboard's log and status
label, `connect` and `connectAndDiscover` of the BLE service (nothing calls them), methods that
answer constants, `proto/` (unused), installers and build files.
