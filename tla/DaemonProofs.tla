---------------------------- MODULE DaemonProofs ----------------------------
(***************************************************************************)
(* Proofs about the daemon, for every set of connections, keys and nonces  *)
(* and every pair of timeouts that the assumptions allow.                  *)
(***************************************************************************)
EXTENDS Daemon, TLAPS

-----------------------------------------------------------------------------
(* Type correctness *)

\* Appending one approval to none gives exactly that approval.
LEMMA AppendOne ==
    ASSUME NEW S, NEW x \in S
    PROVE  /\ Append(<<>>, x) \in Seq(S)
           /\ Append(<<>>, x) # <<>>
           /\ Len(Append(<<>>, x)) = 1
           /\ Append(<<>>, x)[1] = x
OBVIOUS

\* Nothing has been read, drawn or approved when the daemon starts.
LEMMA TypeInit == Init => TypeOK
<1> SUFFICES ASSUME Init PROVE TypeOK
  OBVIOUS
<1>1. StoreTypeOK
  BY DEF Init, StoreInit, StoreTypeOK
<1>2. NoAuth \in AuthLocals
  BY DEF NoAuth, AuthLocals, Ids
<1>3. QED
  BY <1>1, <1>2 DEF Init, TypeOK, Phases, Replies

\* A verify request whose signature is good leaves its handler at the lock.
Verified(c, v) ==
    /\ v.key \in vault
    /\ is_fresh(v.timestamp, v.at)
    /\ check' = [check EXCEPT ![c] = v]
    /\ pc' = [pc EXCEPT ![c] = "apply"]
    /\ reply' = [reply EXCEPT ![c] = "none"]

\* A verify request either passes, with a key of the keyring and a timestamp
\* that is fresh, or is answered at once.
LEMMA VerifyOutcome ==
    ASSUME TypeOK, NEW c \in Conns, ReadVerify(c)
    PROVE  \/ \E v \in Check : Verified(c, v)
           \/ Respond(c, "other") /\ UNCHANGED check
<1>1. PICK i \in Ids, n \in offered, t \in 0 .. now + MaxSkew, k \in Keys \cup {NoKey},
           readable \in Readable :
        \/ /\ SignatureAccepted(k, t, readable)
           /\ check' = [check EXCEPT ![c] =
                          [id |-> i, nonce |-> n, timestamp |-> t, key |-> k, at |-> now]]
           /\ pc' = [pc EXCEPT ![c] = "apply"]
           /\ reply' = [reply EXCEPT ![c] = "none"]
        \/ /\ Respond(c, "other")
           /\ UNCHANGED check
  BY DEF ReadVerify
<1> DEFINE v == [id |-> i, nonce |-> n, timestamp |-> t, key |-> k, at |-> now]
<1>2. ASSUME SignatureAccepted(k, t, readable)
      PROVE  v \in Check /\ v.key \in vault /\ is_fresh(v.timestamp, v.at)
  BY <1>2, DaemonAssumption
  DEF TypeOK, StoreTypeOK, SignatureAccepted, load_public_keys, Check
<1>3. QED
  BY <1>1, <1>2 DEF Verified

\* Every operation keeps every variable within its type.
LEMMA TypeStep == TypeOK /\ PhaseLocals /\ [Next]_vars => TypeOK'
<1> SUFFICES ASSUME TypeOK, PhaseLocals, [Next]_vars PROVE TypeOK'
  OBVIOUS
<1> USE DaemonAssumption
<1>1. ASSUME NEW c \in Conns, Accept(c) PROVE TypeOK'
  BY <1>1 DEF TypeOK, StoreTypeOK, Accept, storeVars, Phases, Replies, NoAuth, AuthLocals, Ids
<1>2. ASSUME NEW c \in Conns, HangUp(c) PROVE TypeOK'
  BY <1>2 DEF TypeOK, StoreTypeOK, HangUp, storeVars, Phases
<1>3. ASSUME NEW c \in Conns, ReadInvalid(c) PROVE TypeOK'
  BY <1>3 DEF TypeOK, StoreTypeOK, ReadInvalid, Respond, AfterReply, storeVars, Phases, Replies
<1>4. ASSUME NEW c \in Conns, ReadAuthorize(c) PROVE TypeOK'
  BY <1>4 DEF TypeOK, StoreTypeOK, ReadAuthorize, storeVars, Phases, Replies, AuthLocals, Ids
<1>5. ASSUME NEW c \in Conns, Insert(c) PROVE TypeOK'
  BY <1>5 DEF TypeOK, StoreTypeOK, Insert, storeVars, Phases, AuthLocals, PendingAuth, Ids,
               PhaseLocals, HasLocals, Authorizing
<1>6. ASSUME NEW c \in Conns, Listen(c) PROVE TypeOK'
  <2>1. now + AuthTimeout \in Nat
    BY DEF TypeOK
  <2>2. [auth[c] EXCEPT !.deadline = now + AuthTimeout] \in AuthLocals
    BY <2>1 DEF TypeOK, AuthLocals
  <2>3. auth' \in [Conns -> AuthLocals]
    BY <1>6, <2>2 DEF TypeOK, Listen
  <2>4. QED
    BY <1>6, <2>3 DEF TypeOK, StoreTypeOK, Listen, storeVars, Phases
<1>7. ASSUME NEW c \in Conns, Look(c) PROVE TypeOK'
  <2> DEFINE yes == pending[auth[c].id] # NoEntry /\ pending[auth[c].id].authorized
  <2>1. yes \in BOOLEAN
    OBVIOUS
  <2>2. /\ pc' = [pc EXCEPT ![c] = IF yes THEN "removing" ELSE "waiting"]
        /\ auth' = [auth EXCEPT ![c].authorized = yes]
        /\ UNCHANGED <<storeVars, now, pending, check, reply, peer, used, offered, approvals>>
    BY <1>7 DEF Look
  <2> HIDE DEF yes
  <2>3. [auth[c] EXCEPT !.authorized = yes] \in AuthLocals
    BY <2>1 DEF TypeOK, AuthLocals
  <2>4. auth' \in [Conns -> AuthLocals]
    BY <2>2, <2>3 DEF TypeOK
  <2>5. QED
    BY <2>2, <2>4 DEF TypeOK, StoreTypeOK, storeVars, Phases
<1>8. ASSUME NEW c \in Conns, Expire(c) PROVE TypeOK'
  BY <1>8 DEF TypeOK, StoreTypeOK, Expire, storeVars, Phases, AuthLocals
<1>9. ASSUME NEW c \in Conns, Remove(c) PROVE TypeOK'
  BY <1>9 DEF TypeOK, StoreTypeOK, Remove, Respond, AfterReply, storeVars, Phases, Replies,
      AuthLocals
<1>10. ASSUME NEW c \in Conns, ReadChallenge(c) PROVE TypeOK'
  BY <1>10, SentinelAssumption
  DEF TypeOK, StoreTypeOK, ReadChallenge, Respond, AfterReply, storeVars, Phases, Replies,
      PendingAuth
<1>11. ASSUME NEW c \in Conns, ReadVerify(c) PROVE TypeOK'
  <2>1. \/ \E v \in Check : Verified(c, v)
        \/ Respond(c, "other") /\ UNCHANGED check
    BY <1>11, VerifyOutcome
  <2>2. /\ check' \in [Conns -> Check \cup {NoCheck}]
        /\ pc' \in [Conns -> Phases]
        /\ reply' \in [Conns -> Replies]
    <3>1. CASE Respond(c, "other") /\ UNCHANGED check
      BY <3>1 DEF TypeOK, Respond, AfterReply, Phases, Replies
    <3>2. ASSUME NEW v \in Check, Verified(c, v)
          PROVE  /\ check' \in [Conns -> Check \cup {NoCheck}]
                 /\ pc' \in [Conns -> Phases]
                 /\ reply' \in [Conns -> Replies]
      BY <3>2 DEF TypeOK, Verified, Phases, Replies
    <3>3. QED
      BY <2>1, <3>1, <3>2
  <2>3. UNCHANGED <<storeVars, now, pending, auth, peer, used, offered, approvals>>
    BY <1>11 DEF ReadVerify
  <2>4. QED
    BY <2>2, <2>3 DEF TypeOK, StoreTypeOK, storeVars
<1>12. ASSUME NEW c \in Conns, Apply(c) PROVE TypeOK'
  <2> DEFINE v == check[c]
             entry == pending[v.id]
  <2>1. check' = [check EXCEPT ![c] = NoCheck]
    BY <1>12 DEF Apply
  <2>2. UNCHANGED <<storeVars, now, auth, peer, used, offered>>
    BY <1>12 DEF Apply
  <2>3. /\ pc' \in [Conns -> Phases] /\ reply' \in [Conns -> Replies]
        /\ pending' \in [Ids -> PendingAuth \cup {NoEntry}]
        /\ approvals' \in [Nonces -> Seq(Approval)]
    <3>1. CASE Matches(entry, v) /\ v \in Check
      <4>1. entry \in PendingAuth /\ [entry EXCEPT !.authorized = TRUE] \in PendingAuth
        BY <3>1 DEF TypeOK, Matches, PendingAuth, Check
      <4>2. [key |-> v.key, timestamp |-> v.timestamp, at |-> v.at] \in Approval
        BY <3>1 DEF Check, Approval
      <4>3. /\ pending' = [pending EXCEPT ![v.id] = [entry EXCEPT !.authorized = TRUE]]
            /\ pc' = [d \in Conns |->
                        IF d = c THEN AfterReply(c)
                        ELSE IF d = entry.notify /\ NotifyWaiters(d) THEN "woken"
                        ELSE pc[d]]
            /\ reply' = [reply EXCEPT ![c] = "other"]
            /\ approvals' = [approvals EXCEPT ![v.nonce] =
                  Append(@, [key |-> v.key, timestamp |-> v.timestamp, at |-> v.at])]
        BY <1>12, <3>1 DEF Apply
      <4>4. pc' \in [Conns -> Phases] /\ reply' \in [Conns -> Replies]
        BY <4>3 DEF TypeOK, AfterReply, Phases, Replies
      <4>5. approvals' \in [Nonces -> Seq(Approval)]
        BY <4>2, <4>3, <3>1 DEF TypeOK, Check
      <4>6. pending' \in [Ids -> PendingAuth \cup {NoEntry}]
        BY <4>1, <4>3 DEF TypeOK
      <4>7. QED
        BY <4>4, <4>5, <4>6
    <3>2. CASE ~Matches(entry, v)
      BY <1>12, <3>2 DEF Apply, TypeOK, Respond, AfterReply, Phases, Replies
    <3>3. v \in Check
      BY <1>12 DEF TypeOK, PhaseLocals, HasLocals, Apply
    <3>4. QED
      BY <3>1, <3>2, <3>3
  <2>4. QED
    BY <2>1, <2>2, <2>3 DEF TypeOK, StoreTypeOK, storeVars
<1>13. ASSUME NEW c \in Conns, ReadPair(c) PROVE TypeOK'
  BY <1>13 DEF TypeOK, StoreTypeOK, ReadPair, AddLoad, load_public_keys, Misread, Phases, Replies
<1>14. ASSUME NEW c \in Conns, StoreKey(c) PROVE TypeOK'
  BY <1>14 DEF TypeOK, StoreTypeOK, StoreKey, AddSet, AddFail, Overtaken, Respond, AfterReply,
      Phases, Replies
<1>15. CASE Crash
  BY <1>15 DEF TypeOK, StoreTypeOK, Crash, StoreCrash, Phases
<1>16. CASE Tick
  BY <1>16 DEF TypeOK, StoreTypeOK, Tick, storeVars
<1>17. CASE UNCHANGED vars
  BY <1>17 DEF TypeOK, StoreTypeOK, vars, daemonVars, storeVars
<1>18. QED
  BY <1>1, <1>2, <1>3, <1>4, <1>5, <1>6, <1>7, <1>8, <1>9, <1>10, <1>11, <1>12, <1>13, <1>14,
     <1>15, <1>16, <1>17 DEF Next, HandlerStep, ClientStep

\* Waiting, looking and timing out leave the identity of a request alone.
LEMMA IdentityKept ==
    ASSUME TypeOK, NEW c \in Conns, Listen(c) \/ Look(c) \/ Expire(c), NEW d \in Conns
    PROVE  /\ auth'[d].id = auth[d].id
           /\ auth'[d].nonce = auth[d].nonce
           /\ auth'[d].timestamp = auth[d].timestamp
<1>1. CASE Listen(c)
  BY <1>1 DEF TypeOK, Listen, AuthLocals
<1>2. CASE Look(c)
  <2> DEFINE yes == pending[auth[c].id] # NoEntry /\ pending[auth[c].id].authorized
  <2>1. auth' = [auth EXCEPT ![c].authorized = yes]
    BY <1>2 DEF Look
  <2> HIDE DEF yes
  <2>2. QED
    BY <2>1 DEF TypeOK, AuthLocals
<1>3. CASE Expire(c)
  BY <1>3 DEF TypeOK, Expire, AuthLocals
<1>4. QED
  BY <1>1, <1>2, <1>3

\* Every operation leaves a handler with the locals of its new phase.
LEMMA LocalsStep == TypeOK /\ PhaseLocals /\ [Next]_vars => PhaseLocals'
<1> SUFFICES ASSUME TypeOK, PhaseLocals, [Next]_vars, NEW d \in Conns
             PROVE  HasLocals(d)'
  BY DEF PhaseLocals
<1> USE DEF TypeOK, PhaseLocals, HasLocals, Authorizing, Registered
<1>1. ASSUME NEW c \in Conns, Accept(c) PROVE HasLocals(d)'
  BY <1>1 DEF Accept
<1>2. ASSUME NEW c \in Conns, ReadAuthorize(c) PROVE HasLocals(d)'
  BY <1>2 DEF ReadAuthorize
<1>3. ASSUME NEW c \in Conns, HangUp(c) PROVE HasLocals(d)'
  BY <1>3 DEF HangUp
<1>4. ASSUME NEW c \in Conns, ReadInvalid(c) \/ ReadChallenge(c) PROVE HasLocals(d)'
  BY <1>4 DEF ReadInvalid, ReadChallenge, Respond, AfterReply
<1>12. ASSUME NEW c \in Conns, ReadVerify(c) PROVE HasLocals(d)'
  <2>1. \/ \E v \in Check : Verified(c, v)
        \/ Respond(c, "other") /\ UNCHANGED check
    BY <1>12, VerifyOutcome
  <2>2. QED
    BY <1>12, <2>1, SentinelAssumption DEF ReadVerify, Verified, Respond, AfterReply
<1>5. ASSUME NEW c \in Conns, ReadPair(c) \/ StoreKey(c) PROVE HasLocals(d)'
  BY <1>5 DEF ReadPair, StoreKey, Respond, AfterReply
<1>6. ASSUME NEW c \in Conns, Insert(c) PROVE HasLocals(d)'
  BY <1>6 DEF Insert
<1>7. ASSUME NEW c \in Conns, Listen(c) \/ Look(c) \/ Expire(c) PROVE HasLocals(d)'
  <2>1. auth[d].nonce' = auth[d].nonce
    BY <1>7, IdentityKept
  <2>2. /\ reply' = reply /\ check' = check
        /\ (pc[d] \in Authorizing)' => pc[d] \in Authorizing
        /\ pc'[d] = "apply" => pc[d] = "apply"
    BY <1>7 DEF Listen, Look, Expire
  <2>3. QED
    BY <2>1, <2>2
<1>8. ASSUME NEW c \in Conns, Remove(c) PROVE HasLocals(d)'
  BY <1>8 DEF Remove, Respond, AfterReply
<1>9. ASSUME NEW c \in Conns, Apply(c) PROVE HasLocals(d)'
  BY <1>9 DEF Apply, NotifyWaiters, Respond, AfterReply
<1>10. CASE Crash \/ Tick \/ UNCHANGED vars
  BY <1>10 DEF Crash, Tick, vars, daemonVars
<1>11. QED
  BY <1>1, <1>2, <1>3, <1>4, <1>5, <1>6, <1>7, <1>8, <1>9, <1>10, <1>12
  DEF Next, HandlerStep, ClientStep

\* Every variable of the daemon keeps its type in every behaviour.
THEOREM TypeCorrect == Spec => []TypeOK
<1>1. Init => TypeOK /\ PhaseLocals
  BY TypeInit DEF Init, PhaseLocals, HasLocals, Authorizing, Registered
<1>2. TypeOK /\ PhaseLocals /\ [Next]_vars => (TypeOK /\ PhaseLocals)'
  BY TypeStep, LocalsStep
<1>3. QED
  BY <1>1, <1>2, PTL DEF Spec

-----------------------------------------------------------------------------
(* The inductive invariant *)

\* A step that is of no concern to login requests.
Quiet ==
    /\ UNCHANGED <<pending, auth, approvals, used>>
    /\ \A d \in Conns : pc[d] \in Authorizing \/ pc'[d] \in Authorizing => pc'[d] = pc[d]
    /\ \A d \in Conns : reply'[d] = "granted" => reply[d] = "granted"

QuietStep(c) ==
    \/ HangUp(c)
    \/ ReadInvalid(c)
    \/ ReadChallenge(c)
    \/ ReadVerify(c)
    \/ ReadPair(c)
    \/ StoreKey(c)

\* Pairing, being shown a challenge, checking a signature and hanging up do not
\* touch a login request.
LEMMA QuietSteps ==
    ASSUME TypeOK, NEW c \in Conns, QuietStep(c)
    PROVE  Quiet
<1> USE DEF TypeOK, Quiet, Authorizing, Registered
<1>1. CASE HangUp(c)
  BY <1>1 DEF HangUp
<1>2. CASE ReadInvalid(c)
  BY <1>2 DEF ReadInvalid, Respond, AfterReply
<1>3. CASE ReadChallenge(c)
  BY <1>3 DEF ReadChallenge, Respond, AfterReply
<1>4. CASE ReadVerify(c)
  <2>1. CASE Respond(c, "other") /\ UNCHANGED check
    BY <1>4, <2>1 DEF ReadVerify, Respond, AfterReply
  <2>2. ASSUME NEW v \in Check, Verified(c, v) PROVE Quiet
    BY <1>4, <2>2 DEF ReadVerify, Verified
  <2>3. QED
    BY <1>4, <2>1, <2>2, VerifyOutcome
<1>5. CASE ReadPair(c)
  BY <1>5 DEF ReadPair
<1>6. CASE StoreKey(c)
  BY <1>6 DEF StoreKey, Respond, AfterReply
<1>7. QED
  BY <1>1, <1>2, <1>3, <1>4, <1>5, <1>6 DEF QuietStep

\* Every step is one of these.
LEMMA StepKinds ==
    ASSUME TypeOK, [Next]_vars
    PROVE  \/ Quiet
           \/ Crash
           \/ \E c \in Conns :
                \/ Accept(c)
                \/ ReadAuthorize(c)
                \/ Insert(c)
                \/ Listen(c) \/ Look(c) \/ Expire(c)
                \/ Remove(c)
                \/ Apply(c)
<1>1. CASE Tick
  BY <1>1 DEF Tick, Quiet
<1>2. CASE UNCHANGED vars
  BY <1>2 DEF vars, daemonVars, Quiet
<1>3. ASSUME NEW c \in Conns, QuietStep(c) PROVE Quiet
  BY <1>3, QuietSteps
<1>4. QED
  BY <1>1, <1>2, <1>3 DEF Next, HandlerStep, ClientStep, QuietStep

\* The verify request of c approves the entry it names.
Approves(c) ==
    LET v == check[c]
        entry == pending[v.id]
    IN  /\ Matches(entry, v)
        /\ pending' = [pending EXCEPT ![v.id] = [entry EXCEPT !.authorized = TRUE]]
        /\ pc' = [d \in Conns |->
                    IF d = c THEN AfterReply(c)
                    ELSE IF d = entry.notify /\ NotifyWaiters(d) THEN "woken"
                    ELSE pc[d]]
        /\ reply' = [reply EXCEPT ![c] = "other"]
        /\ approvals' = [approvals EXCEPT ![v.nonce] =
              Append(@, [key |-> v.key, timestamp |-> v.timestamp, at |-> v.at])]
        /\ UNCHANGED <<auth, used>>

\* Applying a checked signature approves an entry or is of no concern to login
\* requests.
LEMMA ApplyOutcome ==
    ASSUME TypeOK, PhaseLocals, NEW c \in Conns, Apply(c)
    PROVE  /\ check[c] \in Check
           /\ Approves(c) \/ Quiet
<1>1. check[c] \in Check
  BY DEF TypeOK, PhaseLocals, HasLocals, Apply
<1>2. CASE Matches(pending[check[c].id], check[c])
  BY <1>1, <1>2 DEF Apply, Approves
<1>3. CASE ~Matches(pending[check[c].id], check[c])
  BY <1>1, <1>3 DEF Apply, Quiet, Respond, AfterReply, TypeOK, Authorizing, Registered
<1>4. QED
  BY <1>1, <1>2, <1>3

\* No step leaves an orphan in the map.
LEMMA EntryOwnedStep == Inv /\ [Next]_vars => EntryOwned'
<1> SUFFICES ASSUME Inv, [Next]_vars, NEW i \in Ids, pending'[i] # NoEntry
             PROVE  Owned(i)'
  BY DEF EntryOwned
<1>a. TypeOK /\ PhaseLocals
  BY DEF Inv
<1>b. TypeOK'
  BY <1>a, TypeStep
<1>c. pending'[i] \in PendingAuth
  BY <1>b DEF TypeOK
<1>d. ASSUME pending[i] # NoEntry
      PROVE  pending[i] \in PendingAuth /\ Owned(i)
  BY <1>a, <1>d DEF TypeOK, Inv, EntryOwned
<1>1. CASE Quiet
  BY <1>1, <1>d DEF Quiet, Owned, Authorizing, PendingAuth
<1>2. ASSUME NEW c \in Conns, Accept(c) PROVE Owned(i)'
  BY <1>2, <1>a, <1>d DEF Accept, Owned, Registered, TypeOK, PendingAuth
<1>3. ASSUME NEW c \in Conns, ReadAuthorize(c) PROVE Owned(i)'
  BY <1>3, <1>a, <1>d DEF ReadAuthorize, Owned, Registered, TypeOK, PendingAuth
<1>4. ASSUME NEW c \in Conns, Insert(c) PROVE Owned(i)'
  <2>1. CASE i = auth[c].id
    BY <1>4, <2>1, <1>a DEF Insert, Owned, Registered, TypeOK
  <2>2. CASE i # auth[c].id
    BY <1>4, <2>2, <1>a, <1>d DEF Insert, Owned, Registered, TypeOK, PendingAuth
  <2>3. QED
    BY <2>1, <2>2
<1>5. ASSUME NEW c \in Conns, Listen(c) \/ Look(c) \/ Expire(c) PROVE Owned(i)'
  <2>1. pending' = pending
    BY <1>5 DEF Listen, Look, Expire
  <2>2. \A d \in Conns : pc[d] \in Registered => pc'[d] \in Registered
    BY <1>5, <1>a DEF Listen, Look, Expire, Registered, TypeOK
  <2>3. QED
    BY <2>1, <2>2, <1>5, <1>a, <1>d, IdentityKept DEF Owned, PendingAuth
<1>6. ASSUME NEW c \in Conns, Remove(c) PROVE Owned(i)'
  BY <1>6, <1>a, <1>d DEF Remove, Respond, Owned, TypeOK, PendingAuth
<1>7. ASSUME NEW c \in Conns, Apply(c), Approves(c) PROVE Owned(i)'
  <2>1. check[c] \in Check /\ pc[c] = "apply"
    BY <1>7, <1>a, ApplyOutcome DEF Apply
  <2>2. pending[i] # NoEntry
    BY <1>7, <2>1, <1>a DEF Approves, Matches, TypeOK, Check
  <2>3. /\ pending'[i].notify = pending[i].notify
        /\ pending'[i].nonce = pending[i].nonce
        /\ pending'[i].timestamp = pending[i].timestamp
    BY <1>7, <2>1, <2>2, <1>a, <1>d DEF Approves, TypeOK, PendingAuth, Check
  <2>4. \A d \in Conns : pc[d] \in Registered => pc'[d] \in Registered
    BY <1>7, <2>1 DEF Approves, Registered
  <2>5. auth' = auth
    BY <1>7 DEF Approves
  <2>6. QED
    BY <2>2, <2>3, <2>4, <2>5, <1>d DEF Owned, PendingAuth
<1>8. CASE Crash
  BY <1>8 DEF Crash
<1>9. QED
  BY <1>a, <1>1, <1>2, <1>3, <1>4, <1>5, <1>6, <1>7, <1>8, StepKinds, ApplyOutcome

\* What an approval changes: it is the first of its nonce, and that nonce is the
\* one of the handler that registered the entry.
LEMMA ApprovalFacts ==
    ASSUME Inv, NEW c \in Conns, Apply(c), Approves(c)
    PROVE  LET v == check[c]
               o == pending[v.id].notify
           IN  /\ v \in Check
               /\ pending[v.id] \in PendingAuth /\ pending[v.id].nonce = v.nonce
               /\ o \in Conns /\ o # c /\ pc[o] \in Registered
               /\ auth[o].id = v.id /\ auth[o].nonce = v.nonce
               /\ auth[o].timestamp = v.timestamp
               /\ v.nonce \in Nonces /\ v.nonce \in used
               /\ approvals[v.nonce] = <<>>
               /\ approvals'[v.nonce] # <<>>
               /\ Len(approvals'[v.nonce]) = 1
               /\ approvals'[v.nonce][1] =
                    [key |-> v.key, timestamp |-> v.timestamp, at |-> v.at]
               /\ \A n \in Nonces : n # v.nonce => approvals'[n] = approvals[n]
<1> DEFINE v == check[c]
           o == pending[v.id].notify
<1>a. TypeOK /\ PhaseLocals /\ EntryOwned /\ NoncesOwned /\ FlagIsApproval
  BY DEF Inv
<1>1. v \in Check /\ pc[c] = "apply"
  BY <1>a, ApplyOutcome DEF Apply
<1>2. /\ pending[v.id] # NoEntry /\ pending[v.id].nonce = v.nonce
      /\ pending[v.id].timestamp = v.timestamp /\ ~pending[v.id].authorized
  BY DEF Approves, Matches
<1>3. v.id \in Ids /\ v.nonce \in Nonces /\ pending[v.id] \in PendingAuth
  BY <1>a, <1>1, <1>2 DEF TypeOK, Check
<1>4. /\ o \in Conns /\ pc[o] \in Registered /\ auth[o].id = v.id
      /\ auth[o].nonce = v.nonce /\ auth[o].timestamp = v.timestamp
  BY <1>a, <1>2, <1>3 DEF EntryOwned, Owned, PendingAuth
<1>5. o # c
  BY <1>1, <1>4 DEF Registered
<1>6. v.nonce \in used
  BY <1>a, <1>3, <1>4, DaemonAssumption DEF NoncesOwned
<1>7. approvals[v.nonce] = <<>>
  BY <1>a, <1>2, <1>3 DEF FlagIsApproval
<1> DEFINE rec == [key |-> v.key, timestamp |-> v.timestamp, at |-> v.at]
<1>8. rec \in Approval
  BY <1>1 DEF Check, Approval
<1>9. approvals' = [approvals EXCEPT ![v.nonce] = Append(@, rec)]
  BY DEF Approves
<1> HIDE DEF rec
<1>10. /\ approvals'[v.nonce] = Append(<<>>, rec)
       /\ \A n \in Nonces : n # v.nonce => approvals'[n] = approvals[n]
  BY <1>a, <1>3, <1>7, <1>9 DEF TypeOK
<1>11. approvals'[v.nonce] # <<>> /\ Len(approvals'[v.nonce]) = 1 /\ approvals'[v.nonce][1] = rec
  BY <1>8, <1>10, AppendOne
<1>12. QED
  BY <1>1, <1>2, <1>3, <1>4, <1>5, <1>6, <1>7, <1>10, <1>11 DEF rec

\* No step gives a nonce to two handlers.
LEMMA NoncesOwnedStep == Inv /\ [Next]_vars => NoncesOwned'
<1> SUFFICES ASSUME Inv, [Next]_vars PROVE NoncesOwned'
  OBVIOUS
<1>a. TypeOK /\ PhaseLocals /\ NoncesOwned
  BY DEF Inv
<1>1. CASE Quiet
  BY <1>1, <1>a DEF Quiet, NoncesOwned
<1>2. ASSUME NEW c \in Conns, Accept(c) PROVE NoncesOwned'
  BY <1>2, <1>a DEF Accept, NoncesOwned, TypeOK, NoAuth
<1>3. ASSUME NEW c \in Conns, ReadAuthorize(c) PROVE NoncesOwned'
  BY <1>3, <1>a, DaemonAssumption DEF ReadAuthorize, NoncesOwned, TypeOK
<1>4. ASSUME NEW c \in Conns, Insert(c) \/ Remove(c) PROVE NoncesOwned'
  BY <1>4, <1>a DEF Insert, Remove, NoncesOwned
<1>5. ASSUME NEW c \in Conns, Listen(c) \/ Look(c) \/ Expire(c) PROVE NoncesOwned'
  <2>1. \A d \in Conns : auth'[d].nonce = auth[d].nonce
    BY <1>5, <1>a, IdentityKept
  <2>2. used' = used /\ approvals' = approvals
    BY <1>5 DEF Listen, Look, Expire
  <2>3. QED
    BY <2>1, <2>2, <1>a DEF NoncesOwned
<1>6. ASSUME NEW c \in Conns, Apply(c), Approves(c) PROVE NoncesOwned'
  <2>1. auth' = auth /\ used' = used
    BY <1>6 DEF Approves
  <2>2. \A n \in Nonces : n \notin used => approvals'[n] = approvals[n]
    BY <1>6, ApprovalFacts
  <2>3. QED
    BY <2>1, <2>2, <1>a DEF NoncesOwned
<1>7. CASE Crash
  BY <1>7, <1>a DEF Crash, NoncesOwned
<1>8. QED
  BY <1>a, <1>1, <1>2, <1>3, <1>4, <1>5, <1>6, <1>7, StepKinds, ApplyOutcome

\* No step separates an entry's flag from the approvals of its nonce.
LEMMA FlagStep == Inv /\ [Next]_vars => FlagIsApproval'
<1> SUFFICES ASSUME Inv, [Next]_vars, NEW i \in Ids, pending'[i] # NoEntry
             PROVE  pending'[i].authorized <=> approvals'[pending'[i].nonce] # <<>>
  BY DEF FlagIsApproval
<1>a. TypeOK /\ PhaseLocals /\ NoncesOwned /\ EntryOwned
  BY DEF Inv
<1>b. pending[i] # NoEntry =>
        /\ pending[i] \in PendingAuth
        /\ pending[i].authorized <=> approvals[pending[i].nonce] # <<>>
  BY <1>a DEF Inv, FlagIsApproval, TypeOK
<1>1. CASE UNCHANGED <<pending, approvals>>
  BY <1>1, <1>b
<1>2. ASSUME NEW c \in Conns, Insert(c)
      PROVE  pending'[i].authorized <=> approvals'[pending'[i].nonce] # <<>>
  <2>1. approvals' = approvals /\ approvals[auth[c].nonce] = <<>>
    BY <1>2 DEF Insert, Inv, PhaseApproval, ApprovalOf
  <2>2. CASE i = auth[c].id
    BY <1>2, <1>a, <2>1, <2>2 DEF Insert, TypeOK
  <2>3. CASE i # auth[c].id
    BY <1>2, <1>a, <1>b, <2>1, <2>3 DEF Insert, TypeOK
  <2>4. QED
    BY <2>2, <2>3
<1>3. ASSUME NEW c \in Conns, Remove(c)
      PROVE  pending'[i].authorized <=> approvals'[pending'[i].nonce] # <<>>
  BY <1>3, <1>a, <1>b DEF Remove, TypeOK
<1>4. ASSUME NEW c \in Conns, Apply(c), Approves(c)
      PROVE  pending'[i].authorized <=> approvals'[pending'[i].nonce] # <<>>
  <2> DEFINE v == check[c]
             o == pending[v.id].notify
  <2>1. /\ v \in Check /\ pending[v.id] \in PendingAuth /\ pending[v.id].nonce = v.nonce
        /\ o \in Conns /\ auth[o].id = v.id /\ auth[o].nonce = v.nonce
        /\ v.nonce \in Nonces /\ approvals'[v.nonce] # <<>>
        /\ \A n \in Nonces : n # v.nonce => approvals'[n] = approvals[n]
    BY <1>4, ApprovalFacts
  <2>2. pending' = [pending EXCEPT ![v.id] = [pending[v.id] EXCEPT !.authorized = TRUE]]
    BY <1>4 DEF Approves
  <2>3. CASE i = v.id
    BY <1>a, <2>1, <2>2, <2>3 DEF TypeOK, PendingAuth
  <2>4. CASE i # v.id
    <3>1. pending'[i] = pending[i] /\ pending[i] \in PendingAuth /\ Owned(i)
      BY <1>a, <1>b, <2>2, <2>4 DEF TypeOK, EntryOwned
    <3>2. pending[i].nonce # v.nonce
      BY <1>a, <2>1, <2>4, <3>1, DaemonAssumption DEF Owned, NoncesOwned, PendingAuth
    <3>3. QED
      BY <1>b, <2>1, <3>1, <3>2 DEF PendingAuth
  <2>5. QED
    BY <2>3, <2>4
<1>5. CASE Crash
  BY <1>5 DEF Crash
<1>6. ASSUME NEW c \in Conns,
             Accept(c) \/ ReadAuthorize(c) \/ Listen(c) \/ Look(c) \/ Expire(c)
      PROVE  UNCHANGED <<pending, approvals>>
  BY <1>6 DEF Accept, ReadAuthorize, Listen, Look, Expire
<1>7. Quiet => UNCHANGED <<pending, approvals>>
  BY DEF Quiet
<1>8. QED
  BY <1>a, <1>1, <1>2, <1>3, <1>4, <1>5, <1>6, <1>7, StepKinds, ApplyOutcome

\* No handler is woken or grants without an approval, or has one before its
\* entry is in the map.
LEMMA PhaseApprovalStep == Inv /\ [Next]_vars => PhaseApproval'
<1> SUFFICES ASSUME Inv, [Next]_vars, NEW d \in Conns PROVE ApprovalOf(d)'
  BY DEF PhaseApproval
<1>a. TypeOK /\ PhaseLocals /\ NoncesOwned /\ BusyUnanswered
  BY DEF Inv
<1>b. ApprovalOf(d)
  BY DEF Inv, PhaseApproval
<1>1. CASE Quiet
  BY <1>1, <1>b DEF Quiet, ApprovalOf, Authorizing, Registered
<1>2. ASSUME NEW c \in Conns, Accept(c) PROVE ApprovalOf(d)'
  BY <1>2, <1>a, <1>b DEF Accept, ApprovalOf, TypeOK
<1>3. ASSUME NEW c \in Conns, ReadAuthorize(c) PROVE ApprovalOf(d)'
  BY <1>3, <1>a, <1>b DEF ReadAuthorize, ApprovalOf, TypeOK, NoncesOwned
<1>4. ASSUME NEW c \in Conns, Insert(c) PROVE ApprovalOf(d)'
  BY <1>4, <1>a, <1>b DEF Insert, ApprovalOf, TypeOK, BusyUnanswered
<1>5. ASSUME NEW c \in Conns, Listen(c) PROVE ApprovalOf(d)'
  <2>1. auth'[d].nonce = auth[d].nonce
    BY <1>5, <1>a, IdentityKept
  <2>2. CASE d = c
    BY <1>5, <1>a, <2>1, <2>2 DEF Listen, ApprovalOf, TypeOK, BusyUnanswered
  <2>3. CASE d # c
    BY <1>5, <1>a, <1>b, <2>3 DEF Listen, ApprovalOf, TypeOK
  <2>4. QED
    BY <2>2, <2>3
<1>6. ASSUME NEW c \in Conns, Look(c) PROVE ApprovalOf(d)'
  <2>1. auth'[d].nonce = auth[d].nonce
    BY <1>6, <1>a, IdentityKept
  <2>2. CASE d = c
    BY <1>6, <1>a, <1>b, <2>1, <2>2 DEF Look, ApprovalOf, TypeOK
  <2>3. CASE d # c
    BY <1>6, <1>a, <1>b, <2>3 DEF Look, ApprovalOf, TypeOK
  <2>4. QED
    BY <2>2, <2>3
<1>7. ASSUME NEW c \in Conns, Expire(c) PROVE ApprovalOf(d)'
  <2>1. auth'[d].nonce = auth[d].nonce
    BY <1>7, <1>a, IdentityKept
  <2>2. CASE d = c
    BY <1>7, <1>a, <2>1, <2>2 DEF Expire, ApprovalOf, TypeOK, AuthLocals, BusyUnanswered
  <2>3. CASE d # c
    BY <1>7, <1>a, <1>b, <2>3 DEF Expire, ApprovalOf, TypeOK
  <2>4. QED
    BY <2>2, <2>3
<1>8. ASSUME NEW c \in Conns, Remove(c) PROVE ApprovalOf(d)'
  BY <1>8, <1>a, <1>b DEF Remove, Respond, AfterReply, ApprovalOf, TypeOK
<1>9. ASSUME NEW c \in Conns, Apply(c), Approves(c) PROVE ApprovalOf(d)'
  <2> DEFINE v == check[c]
             o == pending[v.id].notify
  <2>1. /\ o \in Conns /\ o # c /\ pc[o] \in Registered /\ auth[o].nonce = v.nonce
        /\ v.nonce \in Nonces /\ approvals'[v.nonce] # <<>>
        /\ \A n \in Nonces : n # v.nonce => approvals'[n] = approvals[n]
    BY <1>9, ApprovalFacts
  <2>2. /\ auth' = auth
        /\ d = c => pc'[d] \in {"reading", "closed"} /\ reply'[d] = "other"
        /\ d # c => reply'[d] = reply[d] /\ (pc'[d] = pc[d] \/ (d = o /\ pc'[d] = "woken"))
    BY <1>9, <1>a DEF Approves, AfterReply, TypeOK
  <2>3. CASE auth[d].nonce = v.nonce
    <3>1. d = o
      BY <1>a, <2>1, <2>3, DaemonAssumption DEF NoncesOwned
    <3>2. pc'[d] # "insert"
      BY <2>1, <2>2, <3>1 DEF Registered
    <3>3. QED
      BY <2>1, <2>2, <2>3, <3>2 DEF ApprovalOf
  <2>4. CASE auth[d].nonce # v.nonce
    <3>1. d # o
      BY <2>1, <2>4
    <3>2. CASE d = c
      BY <2>2, <3>2 DEF ApprovalOf
    <3>3. CASE d # c
      <4>1. pc'[d] = pc[d] /\ reply'[d] = reply[d] /\ auth'[d] = auth[d]
        BY <2>2, <3>1, <3>3
      <4>2. CASE auth[d].nonce \in Nonces
        BY <1>b, <2>1, <2>4, <4>1, <4>2 DEF ApprovalOf
      <4>3. CASE auth[d].nonce \notin Nonces
        BY <1>a, <4>1, <4>3
        DEF ApprovalOf, PhaseLocals, HasLocals, Authorizing, Registered
      <4>4. QED
        BY <4>2, <4>3
    <3>4. QED
      BY <3>2, <3>3
  <2>5. QED
    BY <2>3, <2>4
<1>10. CASE Crash
  BY <1>10, <1>b DEF Crash, ApprovalOf
<1>11. QED
  BY <1>a, <1>1, <1>2, <1>3, <1>4, <1>5, <1>6, <1>7, <1>8, <1>9, <1>10, StepKinds, ApplyOutcome

\* The answer to a line is forgotten when the next line is taken up.
LEMMA BusyStep == Inv /\ [Next]_vars => BusyUnanswered'
<1> SUFFICES ASSUME Inv, [Next]_vars, NEW d \in Conns,
                    pc'[d] \notin {"closed", "reading"}
             PROVE  reply'[d] = "none"
  BY DEF BusyUnanswered
<1>a. TypeOK /\ BusyUnanswered
  BY DEF Inv
<1> USE DEF BusyUnanswered, TypeOK
<1>1. ASSUME NEW c \in Conns, Accept(c) \/ HangUp(c) PROVE reply'[d] = "none"
  BY <1>1, <1>a DEF Accept, HangUp
<1>2. ASSUME NEW c \in Conns, ReadInvalid(c) \/ ReadChallenge(c) PROVE reply'[d] = "none"
  BY <1>2, <1>a DEF ReadInvalid, ReadChallenge, Respond, AfterReply
<1>3. ASSUME NEW c \in Conns, ReadAuthorize(c) \/ ReadPair(c) PROVE reply'[d] = "none"
  BY <1>3, <1>a DEF ReadAuthorize, ReadPair
<1>4. ASSUME NEW c \in Conns, ReadVerify(c) PROVE reply'[d] = "none"
  <2>1. CASE Respond(c, "other")
    BY <2>1, <1>a DEF Respond, AfterReply
  <2>2. ASSUME NEW v \in Check, Verified(c, v) PROVE reply'[d] = "none"
    BY <2>2, <1>a DEF Verified
  <2>3. QED
    BY <1>4, <1>a, <2>1, <2>2, VerifyOutcome
<1>5. ASSUME NEW c \in Conns, Insert(c) \/ Listen(c) \/ Look(c) \/ Expire(c)
      PROVE  reply'[d] = "none"
  BY <1>5, <1>a DEF Insert, Listen, Look, Expire
<1>6. ASSUME NEW c \in Conns, Remove(c) \/ StoreKey(c) PROVE reply'[d] = "none"
  BY <1>6, <1>a DEF Remove, StoreKey, Respond, AfterReply
<1>7. ASSUME NEW c \in Conns, Apply(c) PROVE reply'[d] = "none"
  BY <1>7, <1>a DEF Apply, Respond, AfterReply, NotifyWaiters
<1>8. CASE Crash \/ Tick \/ UNCHANGED vars
  BY <1>8, <1>a DEF Crash, Tick, vars, daemonVars
<1>9. QED
  BY <1>1, <1>2, <1>3, <1>4, <1>5, <1>6, <1>7, <1>8 DEF Next, HandlerStep, ClientStep

\* Keys are only ever added to the history of stored keys, and the keyring holds
\* nothing else.
LEMMA StoredGrows ==
    ASSUME TypeOK, vault \subseteq stored, [Next]_vars
    PROVE  stored \subseteq stored' /\ vault' \subseteq stored'
<1>1. ASSUME NEW c \in Conns, ReadPair(c) \/ StoreKey(c)
      PROVE  stored \subseteq stored' /\ vault' \subseteq stored'
  BY <1>1 DEF ReadPair, StoreKey, AddLoad, AddSet, AddFail
<1>2. CASE Crash
  BY <1>2 DEF Crash, StoreCrash
<1>3. CASE UNCHANGED storeVars
  BY <1>3 DEF storeVars
<1>4. Tick \/ UNCHANGED vars => UNCHANGED storeVars
  BY DEF Tick, vars
<1>5. ASSUME NEW c \in Conns, HandlerStep(c), ~StoreKey(c) PROVE UNCHANGED storeVars
  BY <1>5 DEF HandlerStep, Insert, Listen, Look, Expire, Remove, Apply
<1>6. ASSUME NEW c \in Conns, ClientStep(c), ~ReadPair(c) PROVE UNCHANGED storeVars
  BY <1>6 DEF ClientStep, Accept, HangUp, ReadInvalid, ReadAuthorize, ReadChallenge, ReadVerify
<1>7. QED
  BY <1>1, <1>2, <1>3, <1>4, <1>5, <1>6 DEF Next

\* A handler gets to the lock only with a good signature.
LEMMA CheckSoundStep ==
    ASSUME Inv, [Next]_vars, NEW d \in Conns
    PROVE  CheckSound(d)'
<1>a. TypeOK /\ CheckSound(d) /\ vault \subseteq stored
  BY DEF Inv, SignaturesSound
<1>b. stored \subseteq stored'
  BY <1>a, StoredGrows
<1>1. CASE pc'[d] = "apply" => pc[d] = "apply" /\ check'[d] = check[d]
  BY <1>1, <1>a, <1>b DEF CheckSound, is_fresh
<1>2. ASSUME NEW c \in Conns, ReadVerify(c) PROVE CheckSound(d)'
  <2>1. CASE Respond(c, "other") /\ UNCHANGED check
    BY <2>1, <1>1, <1>a DEF Respond, AfterReply, TypeOK
  <2>2. ASSUME NEW v \in Check, Verified(c, v) PROVE CheckSound(d)'
    <3>1. CASE d = c
      BY <2>2, <3>1, <1>a, <1>b DEF Verified, CheckSound, TypeOK, is_fresh
    <3>2. CASE d # c
      BY <2>2, <3>2, <1>1, <1>a DEF Verified, TypeOK
    <3>3. QED
      BY <3>1, <3>2
  <2>3. QED
    BY <1>2, <1>a, <2>1, <2>2, VerifyOutcome
<1> USE DEF TypeOK
<1>3. ASSUME NEW c \in Conns, Apply(c) PROVE CheckSound(d)'
  BY <1>3, <1>1, <1>a DEF Apply, Respond, AfterReply
<1>4. ASSUME NEW c \in Conns, HandlerStep(c), ~Apply(c) PROVE CheckSound(d)'
  BY <1>4, <1>1, <1>a
  DEF HandlerStep, Insert, Listen, Look, Expire, Remove, StoreKey, Respond, AfterReply
<1>5. ASSUME NEW c \in Conns, ClientStep(c), ~ReadVerify(c) PROVE CheckSound(d)'
  BY <1>5, <1>1, <1>a
  DEF ClientStep, Accept, HangUp, ReadInvalid, ReadAuthorize, ReadChallenge, ReadPair,
      Respond, AfterReply
<1>6. CASE Crash \/ Tick \/ UNCHANGED vars
  BY <1>6, <1>1, <1>a DEF Crash, Tick, vars, daemonVars
<1>7. QED
  BY <1>2, <1>3, <1>4, <1>5, <1>6 DEF Next

\* An approval is made from a good signature, of the request it approves.
LEMMA SignaturesStep == Inv /\ [Next]_vars => SignaturesSound'
<1> SUFFICES ASSUME Inv, [Next]_vars PROVE SignaturesSound'
  OBVIOUS
<1>a. TypeOK /\ PhaseLocals /\ NoncesOwned /\ SignaturesSound
  BY DEF Inv
<1>b. stored \subseteq stored' /\ vault' \subseteq stored'
  BY <1>a, StoredGrows DEF SignaturesSound
<1>1. ASSUME NEW c \in Conns PROVE CheckSound(c)'
  BY <1>1, CheckSoundStep
<1>2. ASSUME approvals' = approvals, NEW n \in Nonces PROVE ApprovalSound(n)'
  BY <1>2, <1>a, <1>b DEF SignaturesSound, ApprovalSound, is_fresh
<1>3. ASSUME NEW c \in Conns, Apply(c), Approves(c), NEW n \in Nonces
      PROVE  ApprovalSound(n)'
  <2> DEFINE v == check[c]
  <2>1. /\ v \in Check /\ v.nonce \in Nonces
        /\ Len(approvals'[v.nonce]) = 1
        /\ approvals'[v.nonce][1] = [key |-> v.key, timestamp |-> v.timestamp, at |-> v.at]
        /\ n # v.nonce => approvals'[n] = approvals[n]
    BY <1>3, ApprovalFacts
  <2>2. v.key \in stored /\ is_fresh(v.timestamp, v.at)
    BY <1>3, <1>a DEF SignaturesSound, CheckSound, Apply
  <2>3. QED
    BY <2>1, <2>2, <1>a, <1>b DEF SignaturesSound, ApprovalSound, is_fresh
<1>4. ASSUME NEW c \in Conns, Apply(c), Approves(c), NEW d \in Conns
      PROVE  TimestampSound(d)'
  <2> DEFINE v == check[c]
             o == pending[v.id].notify
  <2>1. /\ o \in Conns /\ auth[o].nonce = v.nonce /\ auth[o].timestamp = v.timestamp
        /\ v.nonce \in Nonces
        /\ approvals'[v.nonce][1] = [key |-> v.key, timestamp |-> v.timestamp, at |-> v.at]
        /\ \A n \in Nonces : n # v.nonce => approvals'[n] = approvals[n]
    BY <1>4, ApprovalFacts
  <2>2. auth' = auth
    BY <1>4 DEF Approves
  <2>3. CASE auth[d].nonce = v.nonce
    <3>1. d = o
      BY <1>a, <2>1, <2>3, DaemonAssumption DEF NoncesOwned
    <3>2. QED
      BY <2>1, <2>2, <3>1 DEF TimestampSound
  <2>4. CASE auth[d].nonce # v.nonce
    BY <1>a, <2>1, <2>2, <2>4 DEF TimestampSound, SignaturesSound
  <2>5. QED
    BY <2>3, <2>4
<1>5. ASSUME NEW c \in Conns, Accept(c) \/ ReadAuthorize(c), NEW d \in Conns
      PROVE  approvals' = approvals /\ TimestampSound(d)'
  <2>1. approvals' = approvals
    BY <1>5 DEF Accept, ReadAuthorize
  <2>2. CASE d # c
    BY <1>5, <1>a, <2>1, <2>2 DEF Accept, ReadAuthorize, TypeOK, TimestampSound, SignaturesSound
  <2>3. CASE d = c /\ Accept(c)
    BY <1>a, <2>3, DaemonAssumption DEF Accept, TypeOK, TimestampSound, NoAuth
  <2>4. CASE d = c /\ ReadAuthorize(c)
    BY <1>a, <2>1, <2>4 DEF ReadAuthorize, TypeOK, TimestampSound, NoncesOwned
  <2>5. QED
    BY <1>5, <2>1, <2>2, <2>3, <2>4
<1>6. ASSUME NEW c \in Conns, Listen(c) \/ Look(c) \/ Expire(c), NEW d \in Conns
      PROVE  approvals' = approvals /\ TimestampSound(d)'
  <2>1. approvals' = approvals
    BY <1>6 DEF Listen, Look, Expire
  <2>2. auth'[d].nonce = auth[d].nonce /\ auth'[d].timestamp = auth[d].timestamp
    BY <1>6, <1>a, IdentityKept
  <2>3. QED
    BY <1>a, <2>1, <2>2 DEF TimestampSound, SignaturesSound
<1>7. ASSUME UNCHANGED <<approvals, auth>>, NEW d \in Conns PROVE TimestampSound(d)'
  BY <1>7, <1>a DEF TimestampSound, SignaturesSound
<1>8. ASSUME NEW c \in Conns, Insert(c) \/ Remove(c) PROVE UNCHANGED <<approvals, auth>>
  BY <1>8 DEF Insert, Remove
<1>9. Quiet \/ Crash => UNCHANGED <<approvals, auth>>
  BY DEF Quiet, Crash
<1>10. (\A n \in Nonces : ApprovalSound(n)') /\ (\A d \in Conns : TimestampSound(d)')
  BY <1>a, <1>2, <1>3, <1>4, <1>5, <1>6, <1>7, <1>8, <1>9, StepKinds, ApplyOutcome
<1>11. QED
  BY <1>b, <1>1, <1>10 DEF SignaturesSound

-----------------------------------------------------------------------------
(* What the invariant gives *)

\* The invariant holds initially.
LEMMA InvInit == Init => Inv
<1> SUFFICES ASSUME Init PROVE Inv
  OBVIOUS
<1>1. TypeOK
  BY TypeInit
<1>2. QED
  BY <1>1, DaemonAssumption
  DEF Init, StoreInit, Inv, PhaseLocals, HasLocals, Authorizing, Registered, EntryOwned,
      NoncesOwned, FlagIsApproval, PhaseApproval, ApprovalOf, SignaturesSound, CheckSound,
      ApprovalSound, TimestampSound, BusyUnanswered, NoAuth

\* Every step keeps the invariant.
LEMMA InvStep == Inv /\ [Next]_vars => Inv'
<1> SUFFICES ASSUME Inv, [Next]_vars PROVE Inv'
  OBVIOUS
<1>1. TypeOK' /\ PhaseLocals'
  BY TypeStep, LocalsStep DEF Inv
<1>2. QED
  BY <1>1, EntryOwnedStep, NoncesOwnedStep, FlagStep, PhaseApprovalStep, SignaturesStep,
     BusyStep
  DEF Inv

\* A nonce, its entry in the map, its handler and its approvals stay in step
\* through every interleaving of handlers, clients, crashes and the clock.
THEOREM Invariance == Spec => []Inv
BY InvInit, InvStep, PTL DEF Spec

\* No entry of the map outlives its handler.
THEOREM NoOrphans == Spec => []EntryOwned
BY Invariance, PTL DEF Inv

\* No challenge is ever approved twice.
THEOREM SingleUse == Spec => []ApprovalSingleUse
<1>1. Inv => ApprovalSingleUse
  <2> SUFFICES ASSUME Inv, NEW n \in Nonces PROVE Len(approvals[n]) <= 1
    BY DEF ApprovalSingleUse
  <2>1. CASE approvals[n] = <<>>
    BY <2>1
  <2>2. CASE approvals[n] # <<>>
    <3>1. ApprovalSound(n)
      BY DEF Inv, SignaturesSound
    <3>2. Len(approvals[n]) = 1
      BY <2>2, <3>1 DEF ApprovalSound
    <3>3. QED
      BY <3>2
  <2>3. QED
    BY <2>1, <2>2
<1>2. QED
  BY <1>1, Invariance, PTL

\* The invariant implies that grants are approved.
LEMMA InvGrants == Inv => GrantNeedsApproval
<1> SUFFICES ASSUME Inv, NEW c \in Conns, reply[c] = "granted" PROVE Approved(c)
  BY DEF GrantNeedsApproval
<1>1. auth[c].nonce \in Nonces
  BY DEF Inv, PhaseLocals, HasLocals
<1>2. approvals[auth[c].nonce] # <<>>
  BY DEF Inv, PhaseApproval, ApprovalOf
<1>3. ApprovalSound(auth[c].nonce) /\ TimestampSound(c)
  BY <1>1 DEF Inv, SignaturesSound
<1>4. QED
  BY <1>1, <1>2, <1>3 DEF ApprovalSound, TimestampSound, Approved

\* A login is granted only on an approval of this very request, by a stored key
\* and while it was fresh.
THEOREM GrantsAreApproved == Spec => []GrantNeedsApproval
BY InvGrants, Invariance, PTL

-----------------------------------------------------------------------------
(* Patience *)

\* The timer starts no earlier than the timestamp and the clock does not go back.
LEMMA PatienceStep ==
    ASSUME TypeOK, TypeOK', [Next]_vars, NEW d \in Conns, Patience(d)
    PROVE  Patience(d)'
<1> USE DaemonAssumption, TimeoutCoversWindow DEF TypeOK, AuthLocals, Patience
<1>1. ASSUME NEW c \in Conns, Accept(c) PROVE Patience(d)'
  BY <1>1 DEF Accept
<1>2. ASSUME NEW c \in Conns, ReadAuthorize(c) PROVE Patience(d)'
  BY <1>2 DEF ReadAuthorize
<1>3. ASSUME NEW c \in Conns, HangUp(c) \/ ReadInvalid(c) \/ ReadChallenge(c) \/ ReadPair(c)
                              \/ StoreKey(c)
      PROVE  Patience(d)'
  BY <1>3 DEF HangUp, ReadInvalid, ReadChallenge, ReadPair, StoreKey, Respond, AfterReply
<1>4. ASSUME NEW c \in Conns, ReadVerify(c) PROVE Patience(d)'
  <2>1. CASE Respond(c, "other") /\ UNCHANGED check
    BY <1>4, <2>1 DEF ReadVerify, Respond, AfterReply
  <2>2. ASSUME NEW v \in Check, Verified(c, v) PROVE Patience(d)'
    BY <1>4, <2>2 DEF ReadVerify, Verified
  <2>3. QED
    BY <1>4, <2>1, <2>2, VerifyOutcome
<1>5. ASSUME NEW c \in Conns, Insert(c) PROVE Patience(d)'
  BY <1>5 DEF Insert
<1>6. ASSUME NEW c \in Conns, Listen(c) PROVE Patience(d)'
  BY <1>6 DEF Listen
<1>7. ASSUME NEW c \in Conns, Look(c) PROVE Patience(d)'
  <2> DEFINE yes == pending[auth[c].id] # NoEntry /\ pending[auth[c].id].authorized
  <2>1. /\ pc[c] = "woken"
        /\ pc' = [pc EXCEPT ![c] = IF yes THEN "removing" ELSE "waiting"]
        /\ auth' = [auth EXCEPT ![c].authorized = yes]
        /\ UNCHANGED <<now, reply>>
    BY <1>7 DEF Look
  <2> HIDE DEF yes
  <2>2. QED
    BY <2>1
<1>8. ASSUME NEW c \in Conns, Expire(c) PROVE Patience(d)'
  BY <1>8 DEF Expire
<1>9. ASSUME NEW c \in Conns, Remove(c) PROVE Patience(d)'
  BY <1>9 DEF Remove, Respond, AfterReply
<1>10. ASSUME NEW c \in Conns, Apply(c) PROVE Patience(d)'
  BY <1>10 DEF Apply, NotifyWaiters, Respond, AfterReply
<1>11. CASE Crash \/ Tick \/ UNCHANGED vars
  BY <1>11 DEF Crash, Tick, vars, daemonVars
<1>12. QED
  BY <1>1, <1>2, <1>3, <1>4, <1>5, <1>6, <1>7, <1>8, <1>9, <1>10, <1>11
  DEF Next, HandlerStep, ClientStep

\* No login is given up before the last second in which its challenge is fresh.
THEOREM LoginsArePatient == Spec => []PatientLogin
<1> DEFINE AllPatient == \A c \in Conns : Patience(c)
<1>1. Init => AllPatient
  BY DEF Init, Patience
<1>2. TypeOK /\ TypeOK' /\ AllPatient /\ [Next]_vars => AllPatient'
  BY PatienceStep
<1>3. TypeOK /\ AllPatient => PatientLogin
  BY DaemonAssumption DEF TypeOK, AuthLocals, Patience, PatientLogin, is_fresh
<1> HIDE DEF AllPatient
<1>4. QED
  BY <1>1, <1>2, <1>3, TypeCorrect, PTL DEF Spec

-----------------------------------------------------------------------------
(* Refinement *)

\* A step in which at most the status of c changes.
LEMMA OneStatus ==
    ASSUME NEW c \in Conns, \A d \in Conns : d # c => StatusOf(d)' = StatusOf(d)
    PROVE  /\ loginStatus' = [loginStatus EXCEPT ![c] = StatusOf(c)']
           /\ StatusOf(c)' = StatusOf(c) => loginStatus' = loginStatus
BY DEF loginStatus

\* The initial states map to the initial state.
LEMMA RefineInit == Init => Login!Init
BY DEF Init, Login!Init, loginStatus, StatusOf, Authorizing, Registered

\* Taking up a line that is no login request ends the login before it.
LEMMA ForgetStep ==
    ASSUME NEW c \in Conns, pc[c] \notin Authorizing, StatusOf(c)' = "idle",
           \A d \in Conns : d # c => StatusOf(d)' = StatusOf(d)
    PROVE  [Login!Next]_loginStatus
<1>1. StatusOf(c) \in {"granted", "refused", "idle"}
  BY DEF StatusOf
<1>2. CASE StatusOf(c) = "idle"
  BY <1>2, OneStatus
<1>3. CASE StatusOf(c) # "idle"
  <2>1. Login!Forget(c)
    BY <1>1, <1>3, OneStatus DEF Login!Forget, loginStatus
  <2>2. QED
    BY <2>1 DEF Login!Next
<1>4. QED
  BY <1>2, <1>3

\* Every step of the daemon is a step of LoginApproval or changes no status.
LEMMA RefineStep == Inv /\ [Next]_vars => [Login!Next]_loginStatus
<1> SUFFICES ASSUME Inv, [Next]_vars PROVE [Login!Next]_loginStatus
  OBVIOUS
<1>a. TypeOK /\ PhaseLocals /\ NoncesOwned /\ BusyUnanswered /\ PhaseApproval
  BY DEF Inv
<1>b. ASSUME \A d \in Conns : StatusOf(d)' = StatusOf(d) PROVE [Login!Next]_loginStatus
  BY <1>b DEF loginStatus
<1> USE DEF StatusOf, Authorizing, Registered
<1>1. ASSUME NEW c \in Conns, Accept(c) PROVE [Login!Next]_loginStatus
  <2>1. /\ pc[c] \notin Authorizing /\ StatusOf(c)' = "idle"
        /\ \A d \in Conns : d # c => StatusOf(d)' = StatusOf(d)
    BY <1>1, <1>a DEF Accept, TypeOK
  <2>2. QED
    BY <2>1, ForgetStep
<1>2. ASSUME NEW c \in Conns, ReadInvalid(c) \/ ReadChallenge(c) PROVE [Login!Next]_loginStatus
  <2>1. /\ pc[c] \notin Authorizing /\ StatusOf(c)' = "idle"
        /\ \A d \in Conns : d # c => StatusOf(d)' = StatusOf(d)
    BY <1>2, <1>a DEF ReadInvalid, ReadChallenge, Respond, AfterReply, TypeOK
  <2>2. QED
    BY <2>1, ForgetStep
<1>3. ASSUME NEW c \in Conns, ReadVerify(c) PROVE [Login!Next]_loginStatus
  <2>1. UNCHANGED <<auth, approvals>> /\ pc[c] \notin Authorizing
    BY <1>3 DEF ReadVerify
  <2>2. CASE Respond(c, "other") /\ UNCHANGED check
    <3>1. /\ StatusOf(c)' = "idle"
          /\ \A d \in Conns : d # c => StatusOf(d)' = StatusOf(d)
      BY <2>1, <2>2, <1>a DEF Respond, AfterReply, TypeOK
    <3>2. QED
      BY <2>1, <3>1, ForgetStep
  <2>3. ASSUME NEW v \in Check, Verified(c, v) PROVE [Login!Next]_loginStatus
    <3>1. /\ StatusOf(c)' = "idle"
          /\ \A d \in Conns : d # c => StatusOf(d)' = StatusOf(d)
      BY <2>1, <2>3, <1>a DEF Verified, TypeOK
    <3>2. QED
      BY <2>1, <3>1, ForgetStep
  <2>4. QED
    BY <1>3, <1>a, <2>2, <2>3, VerifyOutcome
<1>4. ASSUME NEW c \in Conns, ReadPair(c) \/ StoreKey(c) PROVE [Login!Next]_loginStatus
  <2>1. /\ pc[c] \notin Authorizing /\ StatusOf(c)' = "idle"
        /\ \A d \in Conns : d # c => StatusOf(d)' = StatusOf(d)
    BY <1>4, <1>a DEF ReadPair, StoreKey, Respond, AfterReply, TypeOK
  <2>2. QED
    BY <2>1, ForgetStep
<1>5. ASSUME NEW c \in Conns, HangUp(c) PROVE [Login!Next]_loginStatus
  <2>1. \A d \in Conns : StatusOf(d)' = StatusOf(d)
    BY <1>5, <1>a DEF HangUp, TypeOK
  <2>2. QED
    BY <2>1, <1>b
<1>6. ASSUME NEW c \in Conns, ReadAuthorize(c) PROVE [Login!Next]_loginStatus
  <2>1. /\ pc[c] \notin Authorizing /\ StatusOf(c)' = "open"
        /\ \A d \in Conns : d # c => StatusOf(d)' = StatusOf(d)
    BY <1>6, <1>a DEF ReadAuthorize, TypeOK, NoncesOwned
  <2>2. Login!Request(c)
    BY <2>1, OneStatus DEF Login!Request, Login!Unanswered, loginStatus
  <2>3. QED
    BY <2>2 DEF Login!Next
<1>7. ASSUME NEW c \in Conns, Insert(c) PROVE [Login!Next]_loginStatus
  <2>1. \A d \in Conns : StatusOf(d)' = StatusOf(d)
    BY <1>7, <1>a DEF Insert, TypeOK
  <2>2. QED
    BY <2>1, <1>b
<1>8. ASSUME NEW c \in Conns, Listen(c) \/ Look(c) \/ Expire(c) PROVE [Login!Next]_loginStatus
  <2>1. \A d \in Conns : auth'[d].nonce = auth[d].nonce
    BY <1>8, <1>a, IdentityKept
  <2>2. UNCHANGED <<approvals, reply>>
    BY <1>8 DEF Listen, Look, Expire
  <2>3. \A d \in Conns : pc'[d] \in Authorizing <=> pc[d] \in Authorizing
    BY <1>8, <1>a DEF Listen, Look, Expire, TypeOK
  <2>4. \A d \in Conns : StatusOf(d)' = StatusOf(d)
    BY <2>1, <2>2, <2>3
  <2>5. QED
    BY <2>4, <1>b
<1>9. ASSUME NEW c \in Conns, Remove(c) PROVE [Login!Next]_loginStatus
  <2>1. \A d \in Conns : d # c => StatusOf(d)' = StatusOf(d)
    BY <1>9, <1>a DEF Remove, Respond, TypeOK
  <2>2. CASE auth[c].authorized
    <3>1. StatusOf(c) = "approved" /\ StatusOf(c)' = "granted"
      BY <1>9, <1>a, <2>2 DEF Remove, Respond, AfterReply, TypeOK, PhaseApproval, ApprovalOf
    <3>2. Login!Grant(c)
      BY <2>1, <3>1, OneStatus DEF Login!Grant, loginStatus
    <3>3. QED
      BY <3>2 DEF Login!Next
  <2>3. CASE ~auth[c].authorized
    <3>1. StatusOf(c) \in {"open", "approved"} /\ StatusOf(c)' = "refused"
      BY <1>9, <1>a, <2>3 DEF Remove, Respond, AfterReply, TypeOK
    <3>2. Login!Refuse(c)
      BY <2>1, <3>1, OneStatus DEF Login!Refuse, Login!Unanswered, loginStatus
    <3>3. QED
      BY <3>2 DEF Login!Next
  <2>4. QED
    BY <2>2, <2>3
<1>10. ASSUME NEW c \in Conns, Apply(c), Approves(c) PROVE [Login!Next]_loginStatus
  <2>1. PICK o \in Conns, n \in Nonces :
          /\ o = pending[check[c].id].notify
          /\ o # c /\ pc[o] \in Registered /\ auth[o].nonce = n
          /\ approvals[n] = <<>> /\ approvals'[n] # <<>>
          /\ \A m \in Nonces : m # n => approvals'[m] = approvals[m]
    <3> DEFINE w == pending[check[c].id].notify
               k == check[c].nonce
    <3>1. /\ w \in Conns /\ w # c /\ pc[w] \in Registered /\ auth[w].nonce = k
          /\ k \in Nonces /\ approvals[k] = <<>> /\ approvals'[k] # <<>>
          /\ \A m \in Nonces : m # k => approvals'[m] = approvals[m]
      BY <1>10, ApprovalFacts
    <3>2. w = pending[check[c].id].notify
      OBVIOUS
    <3> HIDE DEF w, k
    <3>3. QED
      BY <3>1, <3>2
  <2>2. /\ auth' = auth /\ pc[c] = "apply"
        /\ pc'[c] \in {"reading", "closed"} /\ reply'[c] = "other" /\ reply[c] = "none"
        /\ \A d \in Conns : d # c => reply'[d] = reply[d]
        /\ \A d \in Conns : d # c =>
             pc'[d] = pc[d] \/ (d = o /\ pc'[d] = "woken")
    BY <1>10, <1>a, <2>1 DEF Apply, Approves, AfterReply, TypeOK, BusyUnanswered
  <2>3. StatusOf(o) = "open" /\ StatusOf(o)' = "approved"
    <3>1. pc'[o] \in Authorizing
      BY <2>1, <2>2
    <3>2. approvals[auth[o].nonce] = <<>> /\ approvals'[auth'[o].nonce] # <<>>
      BY <2>1, <2>2
    <3>3. QED
      BY <2>1, <3>1, <3>2
  <2>4. ASSUME NEW d \in Conns, d # o PROVE StatusOf(d)' = StatusOf(d)
    <3>1. CASE d = c
      BY <2>2, <3>1
    <3>2. CASE d # c
      <4>1. pc'[d] = pc[d] /\ reply'[d] = reply[d]
        BY <2>2, <2>4, <3>2
      <4>2. CASE pc[d] \in Authorizing
        <5>1. auth[d].nonce \in Nonces /\ auth[d].nonce # n
          BY <1>a, <2>1, <2>4, <4>2, DaemonAssumption DEF PhaseLocals, HasLocals, NoncesOwned
        <5>2. approvals'[auth'[d].nonce] = approvals[auth[d].nonce]
          BY <2>1, <2>2, <5>1
        <5>3. QED
          BY <4>1, <4>2, <5>2
      <4>3. CASE pc[d] \notin Authorizing
        BY <4>1, <4>3
      <4>4. QED
        BY <4>2, <4>3
    <3>3. QED
      BY <3>1, <3>2
  <2>5. Login!Approve(o)
    BY <2>3, <2>4, OneStatus DEF Login!Approve, loginStatus
  <2>6. QED
    BY <2>5 DEF Login!Next
<1>11. ASSUME NEW c \in Conns, Apply(c), ~Approves(c) PROVE [Login!Next]_loginStatus
  <2>1. ~Matches(pending[check[c].id], check[c])
    BY <1>11 DEF Apply, Approves
  <2>2. \A d \in Conns : StatusOf(d)' = StatusOf(d)
    BY <1>11, <2>1, <1>a DEF Apply, Respond, AfterReply, TypeOK, BusyUnanswered
  <2>3. QED
    BY <2>2, <1>b
<1>12. CASE Crash
  <2>1. \A d \in Conns :
          StatusOf(d)' = IF StatusOf(d) \in {"open", "approved"} THEN "idle" ELSE StatusOf(d)
    BY <1>12, <1>a DEF Crash, TypeOK, BusyUnanswered
  <2>2. Login!Restart
    BY <2>1 DEF Login!Restart, Login!Unanswered, loginStatus
  <2>3. QED
    BY <2>2 DEF Login!Next
<1>13. CASE Tick \/ UNCHANGED vars
  <2>1. \A d \in Conns : StatusOf(d)' = StatusOf(d)
    BY <1>13 DEF Tick, vars, daemonVars
  <2>2. QED
    BY <2>1, <1>b
<1>14. QED
  BY <1>1, <1>2, <1>3, <1>4, <1>5, <1>6, <1>7, <1>8, <1>9, <1>10, <1>11, <1>12, <1>13
  DEF Next, HandlerStep, ClientStep

\* The daemon implements the life of a login request: granted only from
\* approved, approved only once, and nothing survives a restart unanswered.
THEOREM Refinement == Spec => ImplementsLogin
<1>1. Init => Login!Init
  BY RefineInit
<1>2. Inv /\ [Next]_vars => [Login!Next]_loginStatus
  BY RefineStep
<1>3. QED
  BY <1>1, <1>2, Invariance, PTL DEF Spec, ImplementsLogin, Login!Spec

-----------------------------------------------------------------------------
(* The key store.  Pairings of any number of handlers interleave; a key that *)
(* has been accepted is lost only to a handler whose copy lacks it.          *)

\* The keyring is empty of copies and holds every stored key at the start.
LEMMA StoreStart == StoreInit => StoreTypeOK /\ StoreInv
BY DEF StoreInit, StoreTypeOK, StoreInv, AcceptedKeysStored

\* A handler that can read takes every key into its copy; one that cannot exposes
\* the keys that are there.
LEMMA LoadStep ==
    ASSUME StoreTypeOK, StoreInv, NEW c \in Conns, NEW key \in Keys, AddLoad(c, key)
    PROVE  (StoreTypeOK /\ StoreInv)'
<1>1. PICK readable \in BOOLEAN :
        /\ keys' = [keys EXCEPT ![c] = load_public_keys(readable) \cup {key}]
        /\ exposed' = exposed \cup Misread(readable)
        /\ UNCHANGED <<vault, stored>>
  BY ReadableAssumption DEF AddLoad
<1>2. StoreTypeOK'
  BY <1>1 DEF StoreTypeOK, load_public_keys, Misread
<1>3. vault \ keys'[c] \subseteq exposed'
  BY <1>1 DEF StoreTypeOK, load_public_keys, Misread
<1>4. StoreInv'
  BY <1>1, <1>3 DEF StoreInv, AcceptedKeysStored, StoreTypeOK
<1>5. QED
  BY <1>2, <1>4

\* A copy replaces the entry: what it lacks was exposed, and what others lack of
\* it now is.
LEMMA SetStep ==
    ASSUME StoreTypeOK, StoreInv, NEW c \in Conns, AddSet(c)
    PROVE  (StoreTypeOK /\ StoreInv)'
<1>1. StoreTypeOK'
  BY DEF AddSet, StoreTypeOK, Overtaken
<1>2. AcceptedKeysStored'
  BY DEF AddSet, StoreInv, AcceptedKeysStored
<1>3. ASSUME NEW d \in Conns, keys'[d] # {} PROVE vault' \ keys'[d] \subseteq exposed'
  BY <1>3 DEF AddSet, Overtaken, StoreTypeOK
<1>4. QED
  BY <1>1, <1>2, <1>3 DEF StoreInv

\* Every step of the store keeps its invariant.
LEMMA StoreStep == StoreTypeOK /\ StoreInv /\ [StoreNext]_storeVars => (StoreTypeOK /\ StoreInv)'
<1> SUFFICES ASSUME StoreTypeOK, StoreInv, [StoreNext]_storeVars
             PROVE  (StoreTypeOK /\ StoreInv)'
  OBVIOUS
<1>1. ASSUME NEW c \in Conns, NEW key \in Keys, AddLoad(c, key)
      PROVE  (StoreTypeOK /\ StoreInv)'
  BY <1>1, LoadStep
<1>2. ASSUME NEW c \in Conns, AddSet(c) PROVE (StoreTypeOK /\ StoreInv)'
  BY <1>2, SetStep
<1> USE DEF StoreTypeOK, StoreInv, AcceptedKeysStored
<1>3. ASSUME NEW c \in Conns, AddFail(c) PROVE (StoreTypeOK /\ StoreInv)'
  BY <1>3 DEF AddFail
<1>4. CASE StoreCrash
  BY <1>4 DEF StoreCrash
<1>5. CASE UNCHANGED storeVars
  BY <1>5 DEF storeVars
<1>6. QED
  BY <1>1, <1>2, <1>3, <1>4, <1>5 DEF StoreNext

\* Every accepted key stays in the keyring, through any number of pairings by
\* any number of handlers, failed writes and restarts, unless a handler writes
\* that had read the entry before the key was in it, or could not read it.
THEOREM StoreKeeps == StoreSpec => []AcceptedKeysStored
<1>1. StoreInv => AcceptedKeysStored
  BY DEF StoreInv
<1>2. QED
  BY <1>1, StoreStart, StoreStep, PTL DEF StoreSpec

\* Whatever the daemon does, its store makes a step of its own or none.
LEMMA DaemonStoreStep == [Next]_vars => [StoreNext]_storeVars
<1> SUFFICES ASSUME [Next]_vars PROVE [StoreNext]_storeVars
  OBVIOUS
<1>1. ASSUME NEW c \in Conns, ReadPair(c) PROVE StoreNext
  BY <1>1 DEF ReadPair, StoreNext
<1>2. ASSUME NEW c \in Conns, StoreKey(c) PROVE StoreNext
  BY <1>2 DEF StoreKey, StoreNext
<1>3. CASE Crash
  BY <1>3 DEF Crash, StoreNext
<1>4. Tick \/ UNCHANGED vars => UNCHANGED storeVars
  BY DEF Tick, vars
<1>5. ASSUME NEW c \in Conns, HandlerStep(c), ~StoreKey(c) PROVE UNCHANGED storeVars
  BY <1>5 DEF HandlerStep, Insert, Listen, Look, Expire, Remove, Apply
<1>6. ASSUME NEW c \in Conns, ClientStep(c), ~ReadPair(c) PROVE UNCHANGED storeVars
  BY <1>6 DEF ClientStep, Accept, HangUp, ReadInvalid, ReadAuthorize, ReadChallenge, ReadVerify
<1>7. QED
  BY <1>1, <1>2, <1>3, <1>4, <1>5, <1>6 DEF Next

\* In the daemon as a whole, with logins, timeouts and crashes between the read
\* and the write of a pairing, accepted keys are just as safe.
THEOREM AcceptedKeysKept == Spec => []AcceptedKeysStored
<1>1. Init => StoreInit
  BY DEF Init
<1>2. QED
  BY <1>1, DaemonStoreStep, StoreKeeps, PTL DEF Spec, StoreSpec

=============================================================================
