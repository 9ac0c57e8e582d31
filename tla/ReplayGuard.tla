---------------------------- MODULE ReplayGuard ----------------------------
(***************************************************************************)
(* The replay guard of the desktop controller (src/core/crypto.cpp).  It   *)
(* remembers the tokens, a nonce with its timestamp, that it has accepted, *)
(* and forgets all of them at once when the last such cleanup is old.      *)
(* `accept` reads the clock twice, once for the freshness of the timestamp *)
(* and once, behind the mutex, for the cleanup: the code bounds the time   *)
(* between the two by nothing.                                             *)
(***************************************************************************)
EXTENDS Integers

CONSTANTS
    Nonces,     \* the nonces clients may send
    Fresh,      \* 30 seconds, crypto.cpp:44
    Cleanup,    \* 60 seconds, crypto.cpp:45
    Start,      \* the clock when the program starts, long after lastCleanup_ = 0
    MaxTime     \* bound on the clock

ASSUME GuardAssumption ==
    /\ Fresh \in Nat /\ Cleanup \in Nat /\ Start \in Nat /\ MaxTime \in Nat
    /\ Start > Cleanup

\* A token is not remembered for less than it can be fresh.
ASSUME CleanupCoversWindow == 2 * Fresh <= Cleanup

VARIABLES
    now,            \* currentSecsSinceEpoch
    seen,           \* seen_
    lastCleanup,    \* lastCleanup_
    accepts,        \* history: how often each token has been accepted
    slow            \* history: two readings of one accept were two seconds apart or more

guardVars == <<now, seen, lastCleanup, accepts, slow>>

\* Bound: the timestamps that can be fresh at some time up to MaxTime.
Timestamps == Start - Fresh .. MaxTime + Fresh
Tokens == Nonces \X Timestamps

GuardTypeOK ==
    /\ now \in Nat
    /\ seen \in SUBSET Tokens
    /\ lastCleanup \in Nat
    /\ accepts \in [Tokens -> Nat]
    /\ slow \in BOOLEAN

GuardInit ==
    /\ now = Start
    /\ seen = {}
    /\ lastCleanup = 0
    /\ accepts = [k \in Tokens |-> 0]
    /\ slow = FALSE

-----------------------------------------------------------------------------

\* Mutant: the difference without qAbs, which an old timestamp passes.
isFreshSigned(timestamp, time) == timestamp - time <= Fresh

\* qAbs(timestamp - now) <= 30
isFreshTimestamp(timestamp, time) ==
    timestamp - time <= Fresh /\ time - timestamp <= Fresh

\* now - lastCleanup_ > 60
CleanupDue(time) == time - lastCleanup > Cleanup

\* What the guard remembers once the cleanup at `time` is done.
Known(time) == IF CleanupDue(time) THEN {} ELSE seen

\* The clock reads `time` behind the lock.
SecondReading(time) ==
    /\ now' = time
    /\ slow' = (slow \/ time > now + 1)

\* accept(nonce, timestamp) returns TRUE; the clock reads `time` behind the lock.
Accepted(nonce, timestamp, time) ==
    /\ isFreshTimestamp(timestamp, now)
    /\ <<nonce, timestamp>> \notin Known(time)
    /\ seen' = Known(time) \cup {<<nonce, timestamp>>}
    /\ lastCleanup' = IF CleanupDue(time) THEN time ELSE lastCleanup
    /\ accepts' = [accepts EXCEPT ![<<nonce, timestamp>>] = @ + 1]
    /\ SecondReading(time)

\* accept(nonce, timestamp) returns FALSE because the token is known.  A guard
\* that has just forgotten everything knows no token.
Replayed(nonce, timestamp, time) ==
    /\ isFreshTimestamp(timestamp, now)
    /\ <<nonce, timestamp>> \in Known(time)
    /\ SecondReading(time)
    /\ UNCHANGED <<seen, lastCleanup, accepts>>

\* accept(nonce, timestamp) returns FALSE because the timestamp is stale: the
\* guard is not touched.
Stale(timestamp) ==
    /\ ~isFreshTimestamp(timestamp, now)
    /\ UNCHANGED guardVars

\* The times the second reading of the clock may give.
Later == now .. MaxTime

accept(nonce, timestamp) ==
    \/ \E time \in Later : Accepted(nonce, timestamp, time)
    \/ \E time \in Later : Replayed(nonce, timestamp, time)
    \/ Stale(timestamp)

GuardTick ==
    /\ now < MaxTime
    /\ now' = now + 1
    /\ UNCHANGED <<seen, lastCleanup, accepts, slow>>

GuardNext ==
    \/ \E n \in Nonces, t \in Timestamps : accept(n, t)
    \/ GuardTick

GuardSpec == GuardInit /\ [][GuardNext]_guardVars

-----------------------------------------------------------------------------

\* A token is accepted at most twice, however the cleanups fall (crypto.cpp:45):
\* one may forget it while it is fresh, but two are further apart than a
\* timestamp stays fresh.  A third acceptance needs a request that lies still for
\* two seconds or more between its two readings of the clock, fresh at the first
\* and after the second cleanup at the other; there is never a fourth.
AcceptsBounded == \A k \in Tokens : accepts[k] <= 3 /\ (accepts[k] = 3 => slow)

\* Inductive: what the last cleanup tells of a token that was accepted before.
\* A token is remembered until a cleanup after the first second it was fresh in;
\* one accepted twice is forgotten only after the last, and the cleanup of a
\* third acceptance is after it too.
TokenInv(k) ==
    LET t == k[2] IN
    /\ accepts[k] <= 3
    /\ accepts[k] = 0 => k \notin seen
    /\ k \in seen => t - Fresh <= lastCleanup + Cleanup
    /\ accepts[k] = 1 /\ k \notin seen => t - Fresh < lastCleanup
    /\ accepts[k] = 2 => t - Fresh < lastCleanup
    /\ accepts[k] = 2 /\ k \notin seen => t + Fresh < lastCleanup
    /\ accepts[k] = 3 => t + Fresh < lastCleanup
    /\ accepts[k] = 3 => slow

GuardInv ==
    /\ GuardTypeOK
    /\ lastCleanup <= now
    /\ \A k \in Tokens : TokenInv(k)

=============================================================================
