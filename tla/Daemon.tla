------------------------------- MODULE Daemon -------------------------------
(***************************************************************************)
(* The Rust daemon (daemon/src/server.rs, crypto.rs, main.rs).  Every      *)
(* connection, from the TCP, Unix or named-pipe listener, is served by one *)
(* handle_stream task that reads a line, handles it and answers it.  The   *)
(* tasks run on several threads and share one map of pending login         *)
(* requests behind a mutex.  The mutex is never held across an await, so a *)
(* critical section is one action and everything between two critical      *)
(* sections of a handler is open to the others.                            *)
(*                                                                         *)
(* An `authorize` request parks its handler on a tokio Notify inside a     *)
(* timeout; a `challenge` request shows a pending request to a phone; a    *)
(* `verify` request checks the phone's signature, marks the request as     *)
(* authorized and notifies the parked handler.                             *)
(***************************************************************************)
EXTENDS KeyStore, Naturals, Sequences

CONSTANTS
    Nonces,       \* 32-byte random values; a bound on the login requests
    NoNonce,      \* a connection that has made no login request yet
    ZeroId,       \* the challenge id used when its random draw fails
    NoEntry,      \* no entry in the map
    NoCheck,      \* no verify request between its check and its effect
    NoKey,        \* a signature no key verifies
    Sends,        \* Sends[c]: what the client of c may send, hanging up included
    AuthTimeout,  \* Duration::from_secs(30), server.rs:112
    Window,       \* FRESHNESS_WINDOW_SECONDS = 30, crypto.rs:5
    MaxTime,      \* bound: the clock runs past it only while a timer is armed
    MaxSkew       \* bound: how far a signed timestamp may lie in the future

RequestKinds == {"pair", "authorize", "challenge", "verify", "invalid", "hangup"}

ASSUME DaemonAssumption ==
    /\ NoNonce \notin Nonces
    /\ ZeroId \notin Nonces
    /\ Sends \in [Conns -> SUBSET RequestKinds]
    /\ AuthTimeout \in Nat /\ Window \in Nat
    /\ MaxTime \in Nat /\ MaxSkew \in Nat
    /\ NoKey \notin Keys

\* The 30 seconds a login request waits are no less than the 30 seconds its
\* challenge stays fresh.
ASSUME TimeoutCoversWindow == Window <= AuthTimeout

\* A challenge id is drawn together with a nonce and stands for that draw.
Ids == Nonces \cup {ZeroId}

\* PendingAuth; `notify` names the handler that holds the other Arc<Notify>.
PendingAuth == [nonce : Nonces, timestamp : Nat, authorized : BOOLEAN, notify : Conns]

\* A verify request whose signature has been checked at time `at`.
Check == [id : Ids, nonce : Nonces, timestamp : Nat, key : Keys, at : Nat]

\* History of one successful verify: which key, which timestamp, when checked.
Approval == [key : Keys, timestamp : Nat, at : Nat]

ASSUME SentinelAssumption == NoEntry \notin PendingAuth /\ NoCheck \notin Check

VARIABLES
    now,        \* the clock in seconds, wall and monotonic alike
    pending,    \* SharedState: challenge id -> PendingAuth or NoEntry
    pc,         \* pc[c]: where the handler of connection c is
    auth,       \* auth[c]: the locals of c's latest authorize request
    check,      \* check[c]: the locals of c's verify request
    reply,      \* reply[c]: the line written to the client of c for its latest
                \* request, "none" while that is being handled
    peer,       \* peer[c]: the client of c is still there
    used,       \* the random values drawn so far
    offered,    \* the nonces that challenge responses have shown
    approvals   \* history: the successful verifies of each nonce

daemonVars == <<now, pending, pc, auth, check, reply, peer, used, offered, approvals>>
vars == <<storeVars, daemonVars>>

\* Where a handler is.  "closed": no connection.  "reading": next_line.
\* "insert": drew its nonce, about to take the lock.  "arming": entry in the
\* map, Notified not yet created.  "waiting": parked on notified().  "woken":
\* notified, about to take the lock and look.  "removing": the timeout block
\* has a result.  "apply": signature checked, about to take the lock.
\* "pairing": keys loaded, about to be written.
Phases == {"closed", "reading", "insert", "arming", "waiting", "woken",
           "removing", "apply", "pairing"}

\* The phases in which an authorize request has its entry's fate in hand.
Registered == {"arming", "waiting", "woken", "removing"}
Authorizing == Registered \cup {"insert"}

\* The answer to the latest request: "granted" and "refused" are those to
\* authorize, {"type":"authorized","authorized":bool}.  The answers to the
\* other requests steer no client of the daemon and are not told apart.
Replies == {"none", "granted", "refused", "other"}

AuthLocals == [id : Ids, nonce : Nonces \cup {NoNonce}, timestamp : Nat,
               deadline : Nat, authorized : BOOLEAN]

\* A handler that has handled no authorize request yet.
NoAuth == [id |-> ZeroId, nonce |-> NoNonce, timestamp |-> 0, deadline |-> 0,
           authorized |-> FALSE]

TypeOK ==
    /\ StoreTypeOK
    /\ now \in Nat
    /\ pending \in [Ids -> PendingAuth \cup {NoEntry}]
    /\ pc \in [Conns -> Phases]
    /\ auth \in [Conns -> AuthLocals]
    /\ check \in [Conns -> Check \cup {NoCheck}]
    /\ reply \in [Conns -> Replies]
    /\ peer \in [Conns -> BOOLEAN]
    /\ used \in SUBSET Nonces
    /\ offered \in SUBSET Nonces
    /\ approvals \in [Nonces -> Seq(Approval)]

Init ==
    /\ StoreInit
    /\ now = 0
    /\ pending = [i \in Ids |-> NoEntry]
    /\ pc = [c \in Conns |-> "closed"]
    /\ auth = [c \in Conns |-> NoAuth]
    /\ check = [c \in Conns |-> NoCheck]
    /\ reply = [c \in Conns |-> "none"]
    /\ peer = [c \in Conns |-> FALSE]
    /\ used = {}
    /\ offered = {}
    /\ approvals = [n \in Nonces |-> <<>>]

-----------------------------------------------------------------------------
(* Connections *)

\* Mutant: the new connection starts out with what is left of the last one.
AcceptStale(c) ==
    /\ pc[c] = "closed"
    /\ pc' = [pc EXCEPT ![c] = "reading"]
    /\ peer' = [peer EXCEPT ![c] = TRUE]
    /\ UNCHANGED <<storeVars, now, pending, auth, check, reply, used, offered, approvals>>

\* A listener accepts a connection and spawns its handler.
Accept(c) ==
    /\ pc[c] = "closed"
    /\ pc' = [pc EXCEPT ![c] = "reading"]
    /\ peer' = [peer EXCEPT ![c] = TRUE]
    /\ reply' = [reply EXCEPT ![c] = "none"]
    /\ auth' = [auth EXCEPT ![c] = NoAuth]
    /\ UNCHANGED <<storeVars, now, pending, check, used, offered, approvals>>

\* The client goes away.  A handler waiting for a line ends; a busy one only
\* notices when it next writes or reads.
HangUp(c) ==
    /\ peer[c]
    /\ "hangup" \in Sends[c]
    /\ peer' = [peer EXCEPT ![c] = FALSE]
    /\ pc' = [pc EXCEPT ![c] = IF @ = "reading" THEN "closed" ELSE @]
    /\ UNCHANGED <<storeVars, now, pending, auth, check, reply, used, offered, approvals>>

\* Writing the response and going back to next_line: the task ends if the
\* client is gone.
AfterReply(c) == IF peer[c] THEN "reading" ELSE "closed"

\* The handler answers r and is done with this line.
Respond(c, r) ==
    /\ pc' = [pc EXCEPT ![c] = AfterReply(c)]
    /\ reply' = [reply EXCEPT ![c] = r]

\* A line that is not a request, a pair request without a code, with a
\* malformed key or without a vault, and an authorize request for which no
\* random nonce can be drawn are all answered with an error.
ReadInvalid(c) ==
    /\ pc[c] = "reading"
    /\ "invalid" \in Sends[c]
    /\ Respond(c, "other")
    /\ UNCHANGED <<storeVars, now, pending, auth, check, peer, used, offered, approvals>>

-----------------------------------------------------------------------------
(* Request::Authorize *)

\* Draw the nonce and the id, take the timestamp.  A failed draw of the id is
\* replaced by zeroes.
ReadAuthorize(c) ==
    /\ pc[c] = "reading"
    /\ "authorize" \in Sends[c]
    /\ \E n \in Nonces \ used, drawn \in BOOLEAN :
         /\ used' = used \cup {n}
         /\ auth' = [auth EXCEPT ![c] =
                       [id |-> IF drawn THEN n ELSE ZeroId, nonce |-> n,
                        timestamp |-> now, deadline |-> 0, authorized |-> FALSE]]
    /\ pc' = [pc EXCEPT ![c] = "insert"]
    /\ reply' = [reply EXCEPT ![c] = "none"]
    /\ UNCHANGED <<storeVars, now, pending, check, peer, offered, approvals>>

\* state.lock().await.insert(challenge_id, pending): an entry under the same
\* id is replaced.
Insert(c) ==
    /\ pc[c] = "insert"
    /\ pending' = [pending EXCEPT ![auth[c].id] =
                     [nonce |-> auth[c].nonce, timestamp |-> auth[c].timestamp,
                      authorized |-> FALSE, notify |-> c]]
    /\ pc' = [pc EXCEPT ![c] = "arming"]
    /\ UNCHANGED <<storeVars, now, auth, check, reply, peer, used, offered, approvals>>

\* Mutant: the wait is a second shorter than the code's.
ListenShort(c) ==
    /\ pc[c] = "arming"
    /\ auth' = [auth EXCEPT ![c].deadline = now + AuthTimeout - 1]
    /\ pc' = [pc EXCEPT ![c] = "waiting"]
    /\ UNCHANGED <<storeVars, now, pending, check, reply, peer, used, offered, approvals>>

\* timeout(30s, ...) is started and the first notified() is created.  A
\* notify_waiters before this step wakes nobody.
Listen(c) ==
    /\ pc[c] = "arming"
    /\ auth' = [auth EXCEPT ![c].deadline = now + AuthTimeout]
    /\ pc' = [pc EXCEPT ![c] = "waiting"]
    /\ UNCHANGED <<storeVars, now, pending, check, reply, peer, used, offered, approvals>>

\* Woken: look the entry up again.  It may be another one by now, or gone;
\* then the loop goes back to notified().
Look(c) ==
    LET entry == pending[auth[c].id]
        yes == entry # NoEntry /\ entry.authorized
    IN  /\ pc[c] = "woken"
        /\ pc' = [pc EXCEPT ![c] = IF yes THEN "removing" ELSE "waiting"]
        /\ auth' = [auth EXCEPT ![c].authorized = yes]
        /\ UNCHANGED <<storeVars, now, pending, check, reply, peer, used, offered, approvals>>

\* Mutant: unwrap_or(true) on the result of the timeout.
ExpireOpen(c) ==
    /\ pc[c] \in {"waiting", "woken"}
    /\ now >= auth[c].deadline
    /\ auth' = [auth EXCEPT ![c].authorized = TRUE]
    /\ pc' = [pc EXCEPT ![c] = "removing"]
    /\ UNCHANGED <<storeVars, now, pending, check, reply, peer, used, offered, approvals>>

\* Mutant: the timeout is around the lock, inside the loop, and not around
\* notified().
ExpireLock(c) ==
    /\ pc[c] = "woken"
    /\ now >= auth[c].deadline
    /\ auth' = [auth EXCEPT ![c].authorized = FALSE]
    /\ pc' = [pc EXCEPT ![c] = "removing"]
    /\ UNCHANGED <<storeVars, now, pending, check, reply, peer, used, offered, approvals>>

\* The timeout fires.  A handler already woken can still lose to it while it
\* waits for the lock.
Expire(c) ==
    /\ pc[c] \in {"waiting", "woken"}
    /\ now >= auth[c].deadline
    /\ auth' = [auth EXCEPT ![c].authorized = FALSE]
    /\ pc' = [pc EXCEPT ![c] = "removing"]
    /\ UNCHANGED <<storeVars, now, pending, check, reply, peer, used, offered, approvals>>

\* Mutant: only an approved entry is removed.
RemoveApproved(c) ==
    /\ pc[c] = "removing"
    /\ pending' = IF auth[c].authorized
                  THEN [pending EXCEPT ![auth[c].id] = NoEntry] ELSE pending
    /\ Respond(c, IF auth[c].authorized THEN "granted" ELSE "refused")
    /\ UNCHANGED <<storeVars, now, auth, check, peer, used, offered, approvals>>

\* The entry under the id is removed and the login is answered.
Remove(c) ==
    /\ pc[c] = "removing"
    /\ pending' = [pending EXCEPT ![auth[c].id] = NoEntry]
    /\ Respond(c, IF auth[c].authorized THEN "granted" ELSE "refused")
    /\ UNCHANGED <<storeVars, now, auth, check, peer, used, offered, approvals>>

-----------------------------------------------------------------------------
(* Request::Challenge *)

\* pending.iter().next(): some entry, in no order a caller may rely on.
ReadChallenge(c) ==
    /\ pc[c] = "reading"
    /\ "challenge" \in Sends[c]
    /\ \/ \E i \in Ids :
            /\ pending[i] # NoEntry
            /\ offered' = offered \cup {pending[i].nonce}
            /\ Respond(c, "other")
       \/ /\ \A i \in Ids : pending[i] = NoEntry
          /\ Respond(c, "other")
          /\ UNCHANGED offered
    /\ UNCHANGED <<storeVars, now, pending, auth, check, peer, used, approvals>>

-----------------------------------------------------------------------------
(* Request::Verify *)

\* timestamp.abs_diff(now) <= FRESHNESS_WINDOW_SECONDS
is_fresh(timestamp, time) ==
    timestamp <= time + Window /\ time <= timestamp + Window

\* verify_signature for some loaded key: `key` is the one whose holder has
\* signed the nonce and timestamp, NoKey if the signature is of nothing.
SignatureAccepted(key, timestamp, readable) ==
    /\ key \in load_public_keys(readable)
    /\ is_fresh(timestamp, now)

\* Load the keys and check the signature, without the lock.  Nonces cannot be
\* guessed: a phone signs those it has been shown, under any timestamp, and
\* the request may name any challenge id.
ReadVerify(c) ==
    /\ pc[c] = "reading"
    /\ "verify" \in Sends[c]
    /\ \E i \in Ids, n \in offered, t \in 0 .. now + MaxSkew, k \in Keys \cup {NoKey},
          readable \in Readable :
         \/ /\ SignatureAccepted(k, t, readable)
            /\ check' = [check EXCEPT ![c] =
                           [id |-> i, nonce |-> n, timestamp |-> t, key |-> k, at |-> now]]
            /\ pc' = [pc EXCEPT ![c] = "apply"]
            /\ reply' = [reply EXCEPT ![c] = "none"]
         \/ /\ ~SignatureAccepted(k, t, readable)
            /\ Respond(c, "other")
            /\ UNCHANGED check
    /\ UNCHANGED <<storeVars, now, pending, auth, peer, used, offered, approvals>>

\* Mutant: the signed nonce is not compared with the entry's.
MatchesTimestamp(entry, v) ==
    /\ entry # NoEntry
    /\ entry.timestamp = v.timestamp
    /\ ~entry.authorized

\* Mutant: an entry can be approved again.
MatchesAgain(entry, v) ==
    /\ entry # NoEntry
    /\ entry.nonce = v.nonce
    /\ entry.timestamp = v.timestamp

\* The entry is the one the phone has signed, and nobody has approved it yet.
Matches(entry, v) ==
    /\ entry # NoEntry
    /\ entry.nonce = v.nonce
    /\ entry.timestamp = v.timestamp
    /\ ~entry.authorized

\* notify_waiters: only a handler that is parked is woken, nothing is kept
\* for one that is not.
NotifyWaiters(owner) == pc[owner] = "waiting"

\* Under the lock: find the entry, compare, mark it and notify its handler.
Apply(c) ==
    LET v == check[c]
        entry == pending[v.id]
    IN  /\ pc[c] = "apply"
        /\ \/ /\ Matches(entry, v)
              /\ pending' = [pending EXCEPT ![v.id] = [entry EXCEPT !.authorized = TRUE]]
              /\ pc' = [d \in Conns |->
                          IF d = c THEN AfterReply(c)
                          ELSE IF d = entry.notify /\ NotifyWaiters(d) THEN "woken"
                          ELSE pc[d]]
              /\ reply' = [reply EXCEPT ![c] = "other"]
              /\ approvals' = [approvals EXCEPT ![v.nonce] =
                    Append(@, [key |-> v.key, timestamp |-> v.timestamp, at |-> v.at])]
           \/ /\ ~Matches(entry, v)
              /\ Respond(c, "other")
              /\ UNCHANGED <<pending, approvals>>
        /\ check' = [check EXCEPT ![c] = NoCheck]
        /\ UNCHANGED <<storeVars, now, auth, peer, used, offered>>

-----------------------------------------------------------------------------
(* Request::Pair *)

\* Any non-empty pairing code is accepted; the keys are loaded.
ReadPair(c) ==
    /\ pc[c] = "reading"
    /\ "pair" \in Sends[c]
    /\ \E k \in Keys : AddLoad(c, k)
    /\ pc' = [pc EXCEPT ![c] = "pairing"]
    /\ reply' = [reply EXCEPT ![c] = "none"]
    /\ UNCHANGED <<now, pending, auth, check, peer, used, offered, approvals>>

\* The keys are written back; `accepted` tells whether that worked.
StoreKey(c) ==
    /\ pc[c] = "pairing"
    /\ AddSet(c) \/ AddFail(c)
    /\ Respond(c, "other")
    /\ UNCHANGED <<now, pending, auth, check, peer, used, offered, approvals>>

-----------------------------------------------------------------------------
(* The process and the clock *)

\* An error of either listener ends main through try_join!, and with it every
\* handler; the same as the process being killed.  Only the keyring is kept.
Crash ==
    /\ StoreCrash
    /\ pending' = [i \in Ids |-> NoEntry]
    /\ pc' = [c \in Conns |-> "closed"]
    /\ check' = [c \in Conns |-> NoCheck]
    /\ peer' = [c \in Conns |-> FALSE]
    /\ UNCHANGED <<now, auth, reply, used, offered, approvals>>

Tick ==
    /\ \/ now < MaxTime
       \/ \E c \in Conns : pc[c] \in {"waiting", "woken"} /\ now < auth[c].deadline
    /\ now' = now + 1
    /\ UNCHANGED <<storeVars, pending, pc, auth, check, reply, peer, used, offered, approvals>>

-----------------------------------------------------------------------------

\* The steps a handler takes by itself once it has read a line.
HandlerStep(c) ==
    \/ Insert(c)
    \/ Listen(c)
    \/ Look(c)
    \/ Expire(c)
    \/ Remove(c)
    \/ Apply(c)
    \/ StoreKey(c)

\* What the client of c makes happen.
ClientStep(c) ==
    \/ Accept(c)
    \/ HangUp(c)
    \/ ReadInvalid(c)
    \/ ReadAuthorize(c)
    \/ ReadChallenge(c)
    \/ ReadVerify(c)
    \/ ReadPair(c)

Next ==
    \/ \E c \in Conns : HandlerStep(c)
    \/ \E c \in Conns : ClientStep(c)
    \/ Crash
    \/ Tick

Spec == Init /\ [][Next]_vars

\* tokio polls every ready task and its mutex is first come, first served;
\* time passes.  Nothing is assumed of the clients or of crashes.
Fairness ==
    /\ \A c \in Conns : WF_vars(HandlerStep(c))
    /\ WF_vars(Tick)

FairSpec == Spec /\ Fairness

-----------------------------------------------------------------------------
(* Properties *)

\* The entry under i is that of a handler which is still at it.
Owned(i) ==
    LET e == pending[i] IN
    /\ pc[e.notify] \in Registered
    /\ auth[e.notify].id = i
    /\ auth[e.notify].nonce = e.nonce
    /\ auth[e.notify].timestamp = e.timestamp

\* The map holds no orphan: every entry belongs to a handler that is still
\* between its insert (server.rs:111) and its remove (server.rs:118), whatever
\* timeouts, hang-ups, crashes and colliding zero ids came in between.  An
\* orphan would never be removed, and Challenge could offer it forever.
EntryOwned == \A i \in Ids : pending[i] # NoEntry => Owned(i)

\* At most one verify request ever succeeds for one challenge, however many
\* are in flight between their signature check (server.rs:135) and the lock
\* (server.rs:136).
ApprovalSingleUse == \A n \in Nonces : Len(approvals[n]) <= 1

\* What an approval of the request that c made must look like: signed for this
\* very nonce and timestamp by a key that a pairing has stored, and checked
\* while the challenge was fresh.
Approved(c) ==
    /\ Len(approvals[auth[c].nonce]) = 1
    /\ LET a == approvals[auth[c].nonce][1] IN
        /\ a.timestamp = auth[c].timestamp
        /\ a.key \in stored
        /\ is_fresh(a.timestamp, a.at)

\* A login is answered `authorized: true` (server.rs:119) only if a paired
\* phone has approved exactly this login request in time; the approval of
\* another request, another connection or an earlier run does not do.
GrantNeedsApproval == \A c \in Conns : reply[c] = "granted" => Approved(c)

\* A login is given up (server.rs:117) only in the last second in which its
\* challenge is fresh (crypto.rs:25), or later: the timer of 30 seconds starts no
\* earlier than the timestamp, so what a phone loses to it is a part of that second
\* and never a whole one.
PatientLogin ==
    \A c \in Conns :
        \/ pc[c] = "removing" /\ ~auth[c].authorized
        \/ reply[c] = "refused"
        => ~is_fresh(auth[c].timestamp, now + 1)

\* A handler has the locals its phase uses: a nonce while it is authorizing and
\* when it has granted, a checked signature before it applies one.
HasLocals(c) ==
    /\ pc[c] \in Authorizing \/ reply[c] = "granted" => auth[c].nonce \in Nonces
    /\ pc[c] = "apply" => check[c] # NoCheck

PhaseLocals == \A c \in Conns : HasLocals(c)

\* Nonces are drawn once: two connections never hold the same one, and a nonce
\* not drawn yet has no approval.
NoncesOwned ==
    /\ \A c \in Conns : auth[c].nonce \in used \cup {NoNonce}
    /\ \A c, d \in Conns :
         c # d /\ auth[c].nonce = auth[d].nonce => auth[c].nonce = NoNonce
    /\ \A n \in Nonces : n \notin used => approvals[n] = <<>>

\* An entry's flag tells whether its nonce has been approved.
FlagIsApproval ==
    \A i \in Ids : pending[i] # NoEntry =>
        (pending[i].authorized <=> approvals[pending[i].nonce] # <<>>)

\* A handler before its insert has no approval, one past its wakeup has.
ApprovalOf(c) ==
    /\ pc[c] = "insert" => approvals[auth[c].nonce] = <<>>
    /\ \/ pc[c] = "woken"
       \/ pc[c] = "removing" /\ auth[c].authorized
       \/ reply[c] = "granted"
       => approvals[auth[c].nonce] # <<>>

PhaseApproval == \A c \in Conns : ApprovalOf(c)

\* Checked signatures and the approvals made from them are by stored keys and
\* were fresh; an approval is for the timestamp of the request it approves.
CheckSound(c) ==
    pc[c] = "apply" =>
        /\ check[c].key \in stored
        /\ is_fresh(check[c].timestamp, check[c].at)

ApprovalSound(n) ==
    approvals[n] # <<>> =>
        /\ Len(approvals[n]) = 1
        /\ approvals[n][1].key \in stored
        /\ is_fresh(approvals[n][1].timestamp, approvals[n][1].at)

TimestampSound(c) ==
    auth[c].nonce \in Nonces /\ approvals[auth[c].nonce] # <<>> =>
        approvals[auth[c].nonce][1].timestamp = auth[c].timestamp

SignaturesSound ==
    /\ vault \subseteq stored
    /\ \A c \in Conns : CheckSound(c) /\ TimestampSound(c)
    /\ \A n \in Nonces : ApprovalSound(n)

\* A handler that is busy with a line has not answered it.
BusyUnanswered ==
    \A c \in Conns : pc[c] \notin {"closed", "reading"} => reply[c] = "none"

\* The inductive invariant: a nonce, its entry, its handler and its approvals
\* stay in step through every interleaving.
Inv ==
    /\ TypeOK
    /\ PhaseLocals
    /\ EntryOwned
    /\ NoncesOwned
    /\ FlagIsApproval
    /\ PhaseApproval
    /\ SignaturesSound
    /\ BusyUnanswered

\* PatientLogin, strengthened by where the deadline comes from.
Patience(c) ==
    /\ pc[c] \in {"insert", "arming"} => auth[c].timestamp <= now
    /\ pc[c] \in {"waiting", "woken"} => auth[c].timestamp + AuthTimeout <= auth[c].deadline
    /\ \/ pc[c] = "removing" /\ ~auth[c].authorized
       \/ reply[c] = "refused"
       => auth[c].timestamp + Window <= now

\* Every login request is answered, or its handler is gone: no lost wakeup, no
\* departed client and no colliding id parks a handler forever.
AuthorizeAnswered ==
    \A c \in Conns : pc[c] = "insert" ~> pc[c] \in {"reading", "closed"}

\* The status of the login request of each connection, as LoginApproval sees it.
StatusOf(c) ==
    IF pc[c] \in Authorizing
    THEN IF approvals[auth[c].nonce] = <<>> THEN "open" ELSE "approved"
    ELSE IF reply[c] \in {"granted", "refused"} THEN reply[c] ELSE "idle"

loginStatus == [c \in Conns |-> StatusOf(c)]

Login == INSTANCE LoginApproval WITH status <- loginStatus

\* The handlers with their map, locks, timers and notifications implement the
\* life of a login request that LoginApproval describes.
ImplementsLogin == Login!Spec

=============================================================================
