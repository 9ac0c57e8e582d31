----------------------------- MODULE PamProofs -----------------------------
(***************************************************************************)
(* PAM_SUCCESS needs an approval, for every number of calls, connections,  *)
(* phones, signals and seconds.  The daemon's invariant holds in the       *)
(* composition because PAM only ever takes steps of a client, and because  *)
(* it does not look at the clock; what is added is that the answer which   *)
(* PAM has read stays the answer to that call.  The second part is about   *)
(* time: a daemon that does not dawdle gives up before PAM does.           *)
(***************************************************************************)
EXTENDS PamLogin, DaemonProofs

\* The clock moves and nothing else does.
TimePasses ==
    /\ now' = now + 1
    /\ UNCHANGED <<storeVars, pending, pc, auth, check, reply, peer, used, offered, approvals>>

\* What the composition does to the daemon is what clients, the daemon itself
\* and the clock do to it.
LEMMA ComposedStep ==
    ASSUME [PamNext]_composedVars
    PROVE  [Next]_vars \/ TimePasses
<1> USE DEF Next, ClientStep
<1>1. ASSUME NEW c \in PamConns, PamStep(c) PROVE [Next]_vars
  BY <1>1, PamAssumption
  DEF PamStep, PamWrite, PamWriteFailed, PamSigpipe, PamRead, PamEof, PamPollTimeout, PamReturn
<1>2. ASSUME NEW c \in PamConns,
             PamConnect(c) \/ PamConnectFailed(c) \/ PamSignal(c) \/ DaemonReads(c)
      PROVE  [Next]_vars
  BY <1>2, PamAssumption DEF PamConnect, PamConnectFailed, PamSignal, DaemonReads
<1>3. ASSUME NEW c \in Conns, DaemonStep(c) \/ PhoneStep(c) PROVE [Next]_vars
  BY <1>3 DEF DaemonStep, PhoneStep
<1>4. CASE DaemonCrash
  BY <1>4 DEF DaemonCrash
<1>5. CASE ComposedTick
  BY <1>5 DEF ComposedTick, TimePasses
<1>6. CASE UNCHANGED composedVars
  BY <1>6 DEF composedVars
<1>7. QED
  BY <1>1, <1>2, <1>3, <1>4, <1>5, <1>6 DEF PamNext

\* The daemon's invariant does not look at the clock.
LEMMA TimeKeepsInv == Inv /\ TimePasses => Inv'
<1> SUFFICES ASSUME Inv, TimePasses PROVE Inv'
  OBVIOUS
<1> USE DEF TimePasses, storeVars
<1>1. TypeOK'
  BY DEF Inv, TypeOK, StoreTypeOK
<1>2. PhaseLocals' /\ BusyUnanswered'
  BY DEF Inv, PhaseLocals, HasLocals, BusyUnanswered
<1>3. EntryOwned' /\ NoncesOwned' /\ FlagIsApproval'
  BY DEF Inv, EntryOwned, Owned, NoncesOwned, FlagIsApproval
<1>4. PhaseApproval'
  BY DEF Inv, PhaseApproval, ApprovalOf
<1>5. SignaturesSound'
  BY DEF Inv, SignaturesSound, CheckSound, TimestampSound, ApprovalSound, is_fresh
<1>6. QED
  BY <1>1, <1>2, <1>3, <1>4, <1>5 DEF Inv

\* The answer that made a call succeed is still the latest on its connection.
AnswerKept == \A c \in PamConns : pam[c] = "success" => reply[c] = "granted"

PamInv == Inv /\ pam \in [PamConns -> PamStates] /\ AnswerKept

\* A handler that is busy has no answer out, so none of its own steps can take
\* back a grant.
LEMMA GrantStays ==
    ASSUME Inv, NEW c \in Conns, HandlerStep(c), NEW d \in Conns, reply[d] = "granted"
    PROVE  reply'[d] = "granted"
<1>1. c # d
  BY DEF Inv, BusyUnanswered, HandlerStep, Insert, Listen, Look, Expire, Remove, Apply,
         StoreKey
<1>2. reply \in [Conns -> Replies]
  BY DEF Inv, TypeOK
<1>3. QED
  BY <1>1, <1>2
  DEF HandlerStep, Insert, Listen, Look, Expire, Remove, Apply, StoreKey, Respond

\* Nor can the client of another connection.
LEMMA OthersKeepReply ==
    ASSUME Inv, NEW c \in Conns, NEW d \in Conns, c # d, ClientStep(c)
    PROVE  reply'[d] = reply[d]
<1>1. reply \in [Conns -> Replies]
  BY DEF Inv, TypeOK
<1>2. CASE ReadVerify(c)
  BY <1>1, <1>2 DEF ReadVerify, Respond
<1>3. QED
  BY <1>1, <1>2
  DEF ClientStep, Accept, HangUp, ReadInvalid, ReadAuthorize, ReadChallenge, ReadPair, Respond

\* Every step of the composition keeps the invariant.
LEMMA PamInvStep == PamInv /\ [PamNext]_composedVars => PamInv'
<1> SUFFICES ASSUME PamInv, [PamNext]_composedVars PROVE PamInv'
  OBVIOUS
<1>1. Inv'
  BY ComposedStep, TimeKeepsInv, InvStep DEF PamInv
<1>2. pam' \in [PamConns -> PamStates]
  BY DEF PamInv, PamStates, PamNext, PamStep, PamWrite, PamWriteFailed, PamSigpipe, PamRead, PamEof,
         PamPollTimeout, PamReturn, PamConnect, PamConnectFailed, PamSignal, DaemonReads,
         DaemonStep, PhoneStep, DaemonCrash, ComposedTick, pamVars, composedVars
<1>3. AnswerKept'
  <2> SUFFICES ASSUME NEW d \in PamConns, pam'[d] = "success" PROVE reply'[d] = "granted"
    BY DEF AnswerKept
  <2>a. Inv /\ pam \in [PamConns -> PamStates] /\ d \in Conns
    BY PamAssumption DEF PamInv
  <2>b. pam[d] = "success" => reply[d] = "granted"
    BY DEF PamInv, AnswerKept
  <2>1. ASSUME NEW c \in PamConns, PamStep(c) PROVE reply'[d] = "granted"
    <3>1. UNCHANGED reply
      BY <2>1
      DEF PamStep, PamWrite, PamWriteFailed, PamSigpipe, PamRead, PamEof, PamPollTimeout, PamReturn,
          HangUp, vars, daemonVars
    <3>2. CASE d # c
      BY <2>1, <2>a, <2>b, <3>1, <3>2
      DEF PamStep, PamWrite, PamWriteFailed, PamSigpipe, PamRead, PamEof, PamPollTimeout, PamReturn
    <3>3. CASE d = c
      BY <2>1, <2>a, <3>1, <3>3
      DEF PamStep, PamWrite, PamWriteFailed, PamSigpipe, PamRead, PamEof, PamPollTimeout, PamReturn,
          response_is_authorized
    <3>4. QED
      BY <3>2, <3>3
  <2>2. ASSUME NEW c \in PamConns, PamConnect(c) PROVE reply'[d] = "granted"
    <3>1. c # d
      BY <2>2, <2>a DEF PamConnect
    <3>2. ClientStep(c) /\ c \in Conns
      BY <2>2, PamAssumption DEF PamConnect, ClientStep
    <3>3. QED
      BY <2>2, <2>a, <2>b, <3>1, <3>2, OthersKeepReply DEF PamConnect
  <2>3. ASSUME NEW c \in PamConns, PamConnectFailed(c) \/ PamSignal(c)
        PROVE  reply'[d] = "granted"
    BY <2>3, <2>a, <2>b DEF PamConnectFailed, PamSignal, vars, daemonVars
  <2>4. ASSUME NEW c \in PamConns, DaemonReads(c) PROVE reply'[d] = "granted"
    <3>1. c # d /\ pam'[d] = pam[d]
      BY <2>4, <2>a DEF DaemonReads, Unread, pamVars
    <3>2. ClientStep(c) /\ c \in Conns
      BY <2>4, PamAssumption DEF DaemonReads, ClientStep
    <3>3. QED
      BY <2>a, <2>b, <3>1, <3>2, OthersKeepReply
  <2>5. ASSUME NEW c \in Conns, DaemonStep(c) PROVE reply'[d] = "granted"
    BY <2>5, <2>a, <2>b, GrantStays DEF DaemonStep, pamVars
  <2>6. ASSUME NEW c \in Conns \ PamConns, PhoneStep(c) PROVE reply'[d] = "granted"
    BY <2>6, <2>a, <2>b, OthersKeepReply DEF PhoneStep, pamVars
  <2>7. CASE DaemonCrash
    BY <2>7, <2>b DEF DaemonCrash, Crash, pamVars
  <2>8. CASE ComposedTick
    BY <2>8, <2>b DEF ComposedTick
  <2>9. CASE UNCHANGED composedVars
    BY <2>9, <2>b DEF composedVars, pamVars, vars, daemonVars
  <2>10. QED
    BY <2>1, <2>2, <2>3, <2>4, <2>5, <2>6, <2>7, <2>8, <2>9 DEF PamNext
<1>4. QED
  BY <1>1, <1>2, <1>3 DEF PamInv

\* Whatever the daemon, the phones, the clock and PAM itself do, a call returns
\* PAM_SUCCESS only on an approval of its own request.
THEOREM PamSuccessIsApproved == PamSpec => []PamSuccessApproved
<1>1. PamInit => PamInv
  BY InvInit DEF PamInit, PamInv, AnswerKept, PamStates
<1>2. PamInv => PamSuccessApproved
  BY InvGrants, PamAssumption DEF PamInv, AnswerKept, GrantNeedsApproval, PamSuccessApproved
<1>3. QED
  BY <1>1, <1>2, PamInvStep, PTL DEF PamSpec

-----------------------------------------------------------------------------
(* The daemon gives up before PAM does *)

\* What PAM reads and writes of connection d, and what Timely(d) looks at.
Same(d) ==
    /\ now' = now
    /\ pc'[d] = pc[d] /\ peer'[d] = peer[d] /\ reply'[d] = reply[d] /\ auth'[d] = auth[d]
    /\ pam'[d] = pam[d] /\ pollEnd'[d] = pollEnd[d]

LEMMA SameTimely ==
    ASSUME NEW d \in PamConns, Timely(d), Same(d)
    PROVE  Timely(d)'
BY DEF Timely, Same, Unread

TimelyInv == PamInv /\ pollEnd \in [PamConns -> Nat] /\ AllTimely

\* A step of the PAM call itself: only a poll that times out could leave the
\* handler behind, and it has not timed out yet.
LEMMA CallTimely ==
    ASSUME TimelyInv, ~late, NEW c \in PamConns, NEW d \in PamConns,
           PamConnect(c) \/ PamConnectFailed(c) \/ PamStep(c) \/ PamSignal(c)
    PROVE  Timely(d)'
<1>a. /\ Timely(c) /\ Timely(d) /\ c \in Conns /\ d \in Conns
      /\ TypeOK /\ BusyUnanswered
      /\ pam \in [PamConns -> PamStates] /\ pollEnd \in [PamConns -> Nat]
  BY PamAssumption DEF TimelyInv, AllTimely, PamInv, Inv
<1>b. /\ now \in Nat /\ pc \in [Conns -> Phases] /\ reply \in [Conns -> Replies]
      /\ peer \in [Conns -> BOOLEAN] /\ auth \in [Conns -> AuthLocals]
      /\ AuthTimeout \in Nat /\ PollTimeout \in Nat /\ AuthTimeout < PollTimeout
  BY <1>a, DaemonAssumption, PamAssumption, PollCoversTimeout DEF TypeOK
<1>c. auth[c].deadline \in Nat /\ pollEnd[c] \in Nat
  <2>1. auth[c] \in AuthLocals
    BY <1>a, <1>b
  <2>2. QED
    BY <2>1, <1>a DEF AuthLocals
<1>1. CASE c # d
  <2>1. Same(d)
    BY <1>1, <1>a, <1>b
    DEF Same, PamConnect, Accept, PamConnectFailed, PamStep, PamWrite, PamWriteFailed,
        PamSigpipe, PamRead,
        PamEof, PamPollTimeout, PamReturn, HangUp, PamSignal, vars, daemonVars
  <2>2. QED
    BY <2>1, <1>a, SameTimely
<1>2. CASE c = d
  <2>1. CASE PamConnect(c)
    BY <1>2, <2>1, <1>a, <1>b DEF Timely, Unread, PamConnect, Accept, Authorizing, Registered
  <2>2. CASE PamConnectFailed(c)
    <3>1. pam[c] # "reading"
      BY <2>2 DEF PamConnectFailed, Returned
    <3>2. QED
      BY <1>2, <2>2, <1>a, <1>b, <3>1
      DEF Timely, Unread, PamConnectFailed, vars, daemonVars
  <2>3. CASE PamWrite(c)
    BY <1>2, <2>3, <1>a, <1>b
    DEF Timely, Unread, PamWrite, vars, daemonVars, Authorizing, Registered
  <2>4. CASE PamSignal(c)
    BY <1>2, <2>4, <1>a, <1>b, <1>c
    DEF Timely, Unread, PamSignal, vars, daemonVars, Authorizing, Registered
  <2>5. CASE \/ PamWriteFailed(c) \/ PamSigpipe(c)
             \/ PamRead(c) \/ PamEof(c) \/ PamPollTimeout(c)
    <3>1. pc[c] \notin Authorizing
      <4>1. CASE PamWriteFailed(c) \/ PamSigpipe(c)
        BY <4>1, <1>a DEF Timely, PamWriteFailed, PamSigpipe
      <4>2. CASE PamRead(c)
        BY <4>2, <1>a DEF BusyUnanswered, PamRead, Authorizing, Registered
      <4>3. CASE PamEof(c)
        BY <4>3, <1>a DEF Timely, PamEof
      <4>4. CASE PamPollTimeout(c)
        BY <4>4, <1>a, <1>b, <1>c
        DEF Timely, PamPollTimeout, Authorizing, Registered
      <4>5. QED
        BY <2>5, <4>1, <4>2, <4>3, <4>4
    <3>2. \E result \in {"success", "auth_err", "sigpipe"} :
            PamReturn(c, result) /\ (result = "auth_err" => reply[c] # "granted")
      BY <2>5, <1>a
      DEF Timely, PamWriteFailed, PamSigpipe, PamRead, PamEof, PamPollTimeout,
          response_is_authorized
    <3>3. UNCHANGED <<now, reply, auth>> /\ pc'[c] \notin Authorizing
          /\ (pc'[c] = "reading" => peer'[c])
      BY <3>1, <3>2, <1>a, <1>b
      DEF Timely, PamReturn, HangUp, vars, daemonVars, Authorizing, Registered
    <3>4. QED
      BY <1>2, <3>1, <3>2, <3>3, <1>a, <1>b
      DEF Timely, Unread, PamReturn, Authorizing, Registered
  <2>6. QED
    BY <2>1, <2>2, <2>3, <2>4, <2>5 DEF PamStep
<1>3. QED
  BY <1>1, <1>2

\* A step of the daemon or of a phone: each one leads on to a point with a
\* bound no larger than the one before.
LEMMA DaemonTimely ==
    ASSUME TimelyInv, ~late, NEW d \in PamConns,
           \/ \E c \in PamConns : DaemonReads(c)
           \/ \E c \in Conns : DaemonStep(c)
           \/ \E c \in Conns \ PamConns : PhoneStep(c)
           \/ DaemonCrash
    PROVE  Timely(d)'
<1>a. Timely(d) /\ d \in Conns /\ TypeOK /\ Inv
  BY PamAssumption DEF TimelyInv, AllTimely, PamInv, Inv
<1>b. /\ now \in Nat /\ pc \in [Conns -> Phases] /\ reply \in [Conns -> Replies]
      /\ peer \in [Conns -> BOOLEAN] /\ auth \in [Conns -> AuthLocals]
      /\ AuthTimeout \in Nat /\ PollTimeout \in Nat /\ AuthTimeout < PollTimeout
      /\ pollEnd[d] \in Nat /\ auth[d].deadline \in Nat
  <2>1. auth[d] \in AuthLocals
    BY <1>a DEF TypeOK
  <2>2. QED
    BY <2>1, <1>a, DaemonAssumption, PamAssumption, PollCoversTimeout
    DEF TypeOK, TimelyInv, AuthLocals
<1>1. ASSUME NEW c \in PamConns, DaemonReads(c) PROVE Timely(d)'
  <2>1. CASE c # d
    <3>1. Same(d)
      BY <1>1, <2>1, <1>a, <1>b, PamAssumption
      DEF Same, DaemonReads, ReadAuthorize, ReadInvalid, Respond, pamVars
    <3>2. QED
      BY <3>1, <1>a, SameTimely
  <2>2. CASE c = d /\ ReadAuthorize(c)
    BY <1>1, <2>2, <1>a, <1>b
    DEF Timely, Unread, DaemonReads, ReadAuthorize, pamVars, Authorizing, Registered
  <2>3. CASE c = d /\ ReadInvalid(c)
    BY <1>1, <2>3, <1>a, <1>b
    DEF Timely, Unread, DaemonReads, ReadInvalid, Respond, AfterReply, pamVars, Authorizing,
        Registered
  <2>4. QED
    BY <1>1, <2>1, <2>2, <2>3 DEF DaemonReads
<1>2. ASSUME NEW c \in Conns, DaemonStep(c) PROVE Timely(d)'
  <2>a. now' = now /\ peer' = peer /\ pam' = pam /\ pollEnd' = pollEnd
    BY <1>2
    DEF DaemonStep, HandlerStep, Insert, Listen, Look, Expire, Remove, Apply, StoreKey, pamVars
  <2>1. CASE c # d /\ ~Apply(c)
    <3>1. Same(d)
      BY <1>2, <2>1, <2>a, <1>a, <1>b
      DEF Same, DaemonStep, HandlerStep, Insert, Listen, Look, Expire, Remove, StoreKey, Respond
    <3>2. QED
      BY <3>1, <1>a, SameTimely
  <2>2. CASE c # d /\ Apply(c)
    <3>1. auth' = auth /\ reply'[d] = reply[d]
      BY <2>2, <1>a, <1>b DEF Apply, Respond
    <3>2. pc'[d] = pc[d] \/ (pc[d] = "waiting" /\ pc'[d] = "woken")
      BY <2>2, <1>a, <1>b DEF Apply, Respond, NotifyWaiters
    <3>3. QED
      BY <3>1, <3>2, <2>a, <1>a, <1>b DEF Timely, Unread, Authorizing, Registered
  <2>3. CASE c = d /\ (Apply(c) \/ StoreKey(c))
    <3>1. auth' = auth /\ reply'[d] = "other" /\ pc'[d] = AfterReply(d)
      BY <2>3, <1>a, <1>b DEF Apply, StoreKey, Respond
    <3>2. QED
      BY <3>1, <2>a, <1>a, <1>b DEF Timely, Unread, AfterReply, Authorizing, Registered
  <2>4. CASE c = d /\ Insert(c)
    BY <2>4, <2>a, <1>a, <1>b DEF Timely, Unread, Insert, Authorizing, Registered
  <2>5. CASE c = d /\ Listen(c)
    <3>1. auth'[d].deadline = now + AuthTimeout /\ pc'[d] = "waiting" /\ reply' = reply
      BY <2>5, <1>a, <1>b DEF Listen, AuthLocals
    <3>2. now + PollTimeout <= pollEnd[d] /\ pam[d] = "reading" /\ peer[d]
      BY <2>5, <1>a DEF Timely, Listen, Authorizing, Registered
    <3>3. QED
      BY <3>1, <3>2, <2>a, <1>b DEF Timely, Unread, Authorizing, Registered
  <2>6. CASE c = d /\ (Look(c) \/ Expire(c))
    <3>1. auth'[d].deadline = auth[d].deadline /\ pc'[d] \in {"waiting", "removing"}
          /\ reply' = reply /\ pc[d] \in {"waiting", "woken"}
      BY <2>6, <1>a, <1>b DEF Look, Expire, AuthLocals
    <3>2. pam[d] = "reading" /\ peer[d]
      BY <3>1, <1>a DEF Timely, Authorizing, Registered
    <3>3. QED
      BY <3>1, <3>2, <2>a, <1>a, <1>b DEF Timely, Unread, Authorizing, Registered
  <2>7. CASE c = d /\ Remove(c)
    <3>1. pam[d] = "reading" /\ peer[d]
      BY <2>7, <1>a DEF Timely, Remove, Authorizing, Registered
    <3>2. pc'[d] = "reading" /\ reply'[d] \in {"granted", "refused"}
      BY <2>7, <3>1, <1>a, <1>b DEF Remove, Respond, AfterReply
    <3>3. QED
      BY <3>1, <3>2, <2>a DEF Timely, Unread, Authorizing, Registered
  <2>8. QED
    BY <1>2, <2>1, <2>2, <2>3, <2>4, <2>5, <2>6, <2>7 DEF DaemonStep, HandlerStep
<1>3. ASSUME NEW c \in Conns \ PamConns, PhoneStep(c) PROVE Timely(d)'
  <2>1. c # d
    OBVIOUS
  <2>2. UNCHANGED pamVars /\ ClientStep(c)
    BY <1>3 DEF PhoneStep
  <2>3. pc'[d] = pc[d] /\ peer'[d] = peer[d] /\ auth'[d] = auth[d] /\ now' = now
    <3>1. CASE ReadVerify(c)
      BY <3>1, <2>1, <1>a, <1>b DEF ReadVerify, Respond
    <3>2. QED
      BY <3>1, <2>1, <2>2, <1>a, <1>b
      DEF ClientStep, Accept, HangUp, ReadInvalid, ReadAuthorize, ReadChallenge, ReadPair,
          Respond
  <2>4. reply'[d] = reply[d]
    BY <2>1, <2>2, <1>a, OthersKeepReply
  <2>5. QED
    BY <2>2, <2>3, <2>4, <1>a, SameTimely DEF Same, pamVars
<1>4. CASE DaemonCrash
  BY <1>4, <1>a, <1>b DEF Timely, Unread, DaemonCrash, Crash, pamVars, Authorizing, Registered
<1>5. QED
  BY <1>1, <1>2, <1>3, <1>4

\* The clock moves in time only when no handler could move: the only one that
\* waits then is still before its deadline.
LEMMA TickTimely ==
    ASSUME TimelyInv, ~late', ComposedTick, NEW d \in PamConns
    PROVE  Timely(d)'
<1>1. ~late /\ ~Ready(d) /\ d \in Conns
  BY PamAssumption DEF ComposedTick
<1>2. Timely(d)
  BY <1>1 DEF TimelyInv, AllTimely
<1>3. auth[d] \in AuthLocals /\ now \in Nat /\ pollEnd[d] \in Nat
  BY <1>1 DEF TimelyInv, PamInv, Inv, TypeOK
<1>4. auth[d].deadline \in Nat /\ AuthTimeout \in Nat
  BY <1>3, DaemonAssumption DEF AuthLocals
<1>5. pc[d] \notin {"insert", "arming", "woken", "removing"} /\ ~Unread(d)
      /\ (pc[d] = "waiting" => now < auth[d].deadline)
  BY <1>1, <1>3, <1>4 DEF Ready
<1>6. QED
  BY <1>2, <1>3, <1>4, <1>5
  DEF Timely, ComposedTick, Unread, Authorizing, Registered

LEMMA TimelyStep == TimelyInv /\ [PamNext]_composedVars => TimelyInv'
<1> SUFFICES ASSUME TimelyInv, [PamNext]_composedVars PROVE TimelyInv'
  OBVIOUS
<1>1. PamInv'
  BY PamInvStep DEF TimelyInv
<1>2. pollEnd' \in [PamConns -> Nat]
  <2>1. now \in Nat /\ PollTimeout \in Nat /\ pollEnd \in [PamConns -> Nat]
    BY PamAssumption DEF TimelyInv, PamInv, Inv, TypeOK
  <2>2. QED
    BY <2>1
    DEF PamNext, PamStep, PamWrite, PamWriteFailed, PamSigpipe, PamRead, PamEof, PamPollTimeout,
        PamReturn,
        PamConnect, PamConnectFailed, PamSignal, DaemonReads, DaemonStep, PhoneStep,
        DaemonCrash, ComposedTick, pamVars, composedVars
<1>3. AllTimely'
  <2> SUFFICES ASSUME ~late', NEW d \in PamConns PROVE Timely(d)'
    BY DEF AllTimely
  <2>1. CASE ComposedTick
    BY <2>1, TickTimely
  <2>2. CASE ~ComposedTick
    <3>1. ~late
      BY <2>2
      DEF PamNext, PamStep, PamWrite, PamWriteFailed, PamSigpipe, PamRead, PamEof, PamPollTimeout,
          PamReturn, PamConnect, PamConnectFailed, PamSignal, DaemonReads, DaemonStep,
          PhoneStep, DaemonCrash, pamVars, composedVars
    <3>2. CASE UNCHANGED composedVars
      <4>1. Same(d) /\ Timely(d)
        BY <3>1, <3>2 DEF Same, composedVars, pamVars, vars, daemonVars, TimelyInv, AllTimely
      <4>2. QED
        BY <4>1, SameTimely
    <3>3. QED
      BY <2>2, <3>1, <3>2, CallTimely, DaemonTimely DEF PamNext
  <2>3. QED
    BY <2>1, <2>2
<1>4. QED
  BY <1>1, <1>2, <1>3 DEF TimelyInv

\* As long as the daemon takes each step it can within the second, PAM never
\* gives up on a login that is then granted: with the 30 seconds of the daemon
\* below the 35 of the poll, for every number of calls, signals and phones.
THEOREM GrantsReachPam == PamSpec => []GrantReachesPam
<1>1. PamInit => TimelyInv
  <2> SUFFICES ASSUME PamInit PROVE TimelyInv
    OBVIOUS
  <2>1. PamInv
    BY InvInit DEF PamInit, PamInv, AnswerKept, PamStates
  <2>2. AllTimely
    BY PamAssumption
    DEF PamInit, Init, AllTimely, Timely, Unread, Authorizing, Registered
  <2>3. QED
    BY <2>1, <2>2 DEF TimelyInv, PamInit
<1>2. TimelyInv => GrantReachesPam
  BY DEF TimelyInv, AllTimely, Timely, GrantReachesPam
<1>3. QED
  BY <1>1, <1>2, TimelyStep, PTL DEF PamSpec

-----------------------------------------------------------------------------
(* Refinement: the daemon's view and the login program's *)

\* Time alone changes no status.
LEMMA TimeKeepsStatus == TimePasses => UNCHANGED loginStatus
BY DEF TimePasses, loginStatus, StatusOf

\* The daemon still implements the life of a login request when PAM and a clock
\* that runs on for PAM's timers are around it.
THEOREM ComposedRefinement == PamSpec => ImplementsLogin
<1>1. PamInit => PamInv
  BY InvInit DEF PamInit, PamInv, AnswerKept, PamStates
<1>2. PamInit => Login!Init
  BY RefineInit DEF PamInit
<1>3. PamInv /\ [PamNext]_composedVars => [Login!Next]_loginStatus
  BY ComposedStep, RefineStep, TimeKeepsStatus DEF PamInv
<1>4. QED
  BY <1>1, <1>2, <1>3, PamInvStep, PTL DEF PamSpec, ImplementsLogin, Login!Spec

\* No key is lost in the composition either.
THEOREM ComposedKeysKept == PamSpec => []AcceptedKeysStored
<1>1. PamInit => StoreInit
  BY DEF PamInit, Init
<1>2. [PamNext]_composedVars => [StoreNext]_storeVars
  BY ComposedStep, DaemonStoreStep DEF TimePasses
<1>3. QED
  BY <1>1, <1>2, StoreKeeps, PTL DEF PamSpec, StoreSpec

\* What the daemon's own steps make of the approval of the request on d: it comes
\* with the one Apply that names d's entry and goes with no step.
LEMMA SignedSteps ==
    ASSUME Inv, NEW c \in Conns, HandlerStep(c)
    PROVE  \/ \A d \in Conns : Signed(d)' = Signed(d)
           \/ \E o \in Conns : /\ ~Signed(o) /\ Signed(o)'
                               /\ \A d \in Conns : d # o => Signed(d)' = Signed(d)
<1>a. TypeOK /\ PhaseLocals /\ NoncesOwned
  BY DEF Inv
<1>1. CASE UNCHANGED <<auth, approvals>>
  BY <1>1 DEF Signed
<1>2. CASE Listen(c) \/ Look(c) \/ Expire(c)
  <2>1. approvals' = approvals
    BY <1>2 DEF Listen, Look, Expire
  <2>2. \A d \in Conns : auth'[d].nonce = auth[d].nonce
    BY <1>2, <1>a, IdentityKept
  <2>3. QED
    BY <2>1, <2>2 DEF Signed
<1>3. CASE Insert(c) \/ Remove(c) \/ StoreKey(c)
  BY <1>1, <1>3 DEF Insert, Remove, StoreKey
<1>4. CASE Apply(c)
  <2>1. CASE Quiet
    BY <2>1, <1>1 DEF Quiet
  <2>2. CASE Approves(c)
    <3>1. PICK o \in Conns, n \in Nonces :
            /\ auth[o].nonce = n
            /\ approvals[n] = <<>> /\ approvals'[n] # <<>>
            /\ \A m \in Nonces : m # n => approvals'[m] = approvals[m]
      <4> DEFINE w == pending[check[c].id].notify
                 k == check[c].nonce
      <4>1. /\ w \in Conns /\ k \in Nonces /\ auth[w].nonce = k
            /\ approvals[k] = <<>> /\ approvals'[k] # <<>>
            /\ \A m \in Nonces : m # k => approvals'[m] = approvals[m]
        BY <1>4, <2>2, ApprovalFacts
      <4> HIDE DEF w, k
      <4>2. QED
        BY <4>1
    <3>2. auth' = auth
      BY <2>2 DEF Approves
    <3>3. ~Signed(o) /\ Signed(o)'
      BY <3>1, <3>2 DEF Signed
    <3>4. ASSUME NEW d \in Conns, d # o PROVE Signed(d)' = Signed(d)
      <4>1. auth[d].nonce # n
        BY <3>1, <3>4, <1>a, DaemonAssumption DEF NoncesOwned
      <4>2. QED
        BY <3>1, <3>2, <4>1 DEF Signed
    <3>5. QED
      BY <3>1, <3>3, <3>4
  <2>3. QED
    BY <1>4, <1>a, <2>1, <2>2, ApplyOutcome
<1>5. QED
  BY <1>2, <1>3, <1>4 DEF HandlerStep

\* A client does nothing to the request of another connection, and a request that
\* is read anew has not been approved.
LEMMA SignedByClient ==
    ASSUME Inv, NEW c \in Conns, ClientStep(c)
    PROVE  /\ \A d \in Conns : d # c => Signed(d)' = Signed(d)
           /\ Accept(c) \/ ReadAuthorize(c) => ~Signed(c)'
           /\ ~(Accept(c) \/ ReadAuthorize(c)) => Signed(c)' = Signed(c)
<1>a. TypeOK /\ NoncesOwned
  BY DEF Inv
<1>1. CASE Accept(c)
  <2>1. /\ approvals' = approvals /\ auth'[c].nonce = NoNonce
        /\ \A d \in Conns : d # c => auth'[d] = auth[d]
    BY <1>1, <1>a DEF Accept, TypeOK, NoAuth
  <2>2. QED
    BY <1>1, <2>1, DaemonAssumption DEF Signed
<1>2. CASE ReadAuthorize(c)
  <2>1. PICK n \in Nonces \ used :
          /\ approvals' = approvals /\ auth'[c].nonce = n
          /\ \A d \in Conns : d # c => auth'[d] = auth[d]
    BY <1>2, <1>a DEF ReadAuthorize, TypeOK
  <2>2. approvals[n] = <<>>
    BY <2>1, <1>a DEF NoncesOwned
  <2>3. QED
    BY <1>2, <2>1, <2>2 DEF Signed
<1>3. CASE ~Accept(c) /\ ~ReadAuthorize(c)
  <2>1. QuietStep(c)
    BY <1>3 DEF ClientStep, QuietStep
  <2>2. UNCHANGED <<auth, approvals>>
    BY <2>1, <1>a, QuietSteps DEF Quiet
  <2>3. QED
    BY <1>3, <2>2 DEF Signed
<1>4. QED
  BY <1>1, <1>2, <1>3

\* A step in which at most the call on c changes its status.
LEMMA OneCall ==
    ASSUME NEW c \in PamConns, \A d \in PamConns : d # c => CallStatus(d)' = CallStatus(d)
    PROVE  /\ callStatus' = [callStatus EXCEPT ![c] = CallStatus(c)']
           /\ CallStatus(c)' = CallStatus(c) => callStatus' = callStatus
BY DEF callStatus

\* A call keeps its status when neither PAM nor the approval of its request moves.
LEMMA SameCall ==
    ASSUME NEW d \in PamConns, pam'[d] = pam[d], Signed(d)' = Signed(d)
    PROVE  CallStatus(d)' = CallStatus(d)
BY DEF CallStatus

\* The daemon's own steps approve one open call or change none.
LEMMA DaemonCallStep ==
    ASSUME PamInv, NEW c \in Conns, HandlerStep(c), UNCHANGED pamVars
    PROVE  [PamView!Next]_callStatus
<1>a. Inv /\ pam \in [PamConns -> PamStates] /\ pam' = pam /\ PamConns \subseteq Conns
  BY PamAssumption DEF PamInv, pamVars
<1>1. CASE \A d \in Conns : Signed(d)' = Signed(d)
  BY <1>1, <1>a, SameCall DEF callStatus
<1>2. ASSUME NEW o \in Conns, ~Signed(o), Signed(o)',
             \A d \in Conns : d # o => Signed(d)' = Signed(d)
      PROVE  [PamView!Next]_callStatus
  <2>1. \A d \in PamConns : d # o => CallStatus(d)' = CallStatus(d)
    BY <1>2, <1>a, SameCall
  <2>2. CASE o \notin PamConns
    BY <2>1, <2>2 DEF callStatus
  <2>3. CASE o \in PamConns /\ pam[o] \in {"writing", "reading"}
    <3>1. CallStatus(o) = "open" /\ CallStatus(o)' = "approved"
      BY <1>2, <1>a, <2>3 DEF CallStatus
    <3>2. PamView!Approve(o)
      BY <2>1, <2>3, <3>1, OneCall DEF PamView!Approve, callStatus
    <3>3. QED
      BY <2>3, <3>2 DEF PamView!Next
  <2>4. CASE o \in PamConns /\ pam[o] \notin {"writing", "reading"}
    <3>1. CallStatus(o)' = CallStatus(o)
      BY <1>a, <2>4 DEF CallStatus, PamStates
    <3>2. QED
      BY <2>1, <2>4, <3>1, OneCall
  <2>5. QED
    BY <2>2, <2>3, <2>4
<1>3. QED
  BY <1>1, <1>2, <1>a, SignedSteps

\* A call of PAM requests, ends or forgets its own login.
LEMMA OwnCallStep ==
    ASSUME PamInv, NEW c \in PamConns, PamConnect(c) \/ PamConnectFailed(c) \/ PamStep(c)
    PROVE  [PamView!Next]_callStatus
<1>a. Inv /\ pam \in [PamConns -> PamStates] /\ c \in Conns /\ PamConns \subseteq Conns
  BY PamAssumption DEF PamInv
<1>b. \A d \in PamConns : d # c => pam'[d] = pam[d]
  BY <1>a
  DEF PamConnect, PamConnectFailed, PamStep, PamWrite, PamWriteFailed, PamSigpipe, PamRead, PamEof,
      PamPollTimeout, PamReturn
<1>1. CASE PamConnect(c)
  <2>1. ClientStep(c) /\ Accept(c)
    BY <1>1 DEF PamConnect, ClientStep
  <2>2. /\ \A d \in PamConns : d # c => CallStatus(d)' = CallStatus(d)
        /\ ~Signed(c)'
    BY <2>1, <1>a, <1>b, SignedByClient, SameCall
  <2>3. CallStatus(c) \notin {"open", "approved"} /\ CallStatus(c)' = "open"
    BY <1>1, <1>a, <2>2 DEF PamConnect, Returned, PamStates, CallStatus
  <2>4. PamView!Request(c)
    BY <2>2, <2>3, OneCall DEF PamView!Request, PamView!Unanswered, callStatus
  <2>5. QED
    BY <2>4 DEF PamView!Next
<1>2. CASE PamConnectFailed(c)
  <2>1. UNCHANGED <<auth, approvals>>
    BY <1>2 DEF PamConnectFailed, vars, daemonVars
  <2>2. \A d \in PamConns : d # c => CallStatus(d)' = CallStatus(d)
    BY <2>1, <1>b, SameCall DEF Signed
  <2>3. CallStatus(c) \in {"granted", "refused", "idle"} /\ CallStatus(c)' = "idle"
    BY <1>2, <1>a DEF PamConnectFailed, Returned, PamStates, CallStatus
  <2>4. CASE CallStatus(c) = "idle"
    BY <2>2, <2>3, <2>4, OneCall
  <2>5. CASE CallStatus(c) # "idle"
    <3>1. PamView!Forget(c)
      BY <2>2, <2>3, <2>5, OneCall DEF PamView!Forget, callStatus
    <3>2. QED
      BY <3>1 DEF PamView!Next
  <2>6. QED
    BY <2>4, <2>5
<1>3. CASE PamStep(c)
  <2>1. UNCHANGED <<auth, approvals, reply>>
    BY <1>3
    DEF PamStep, PamWrite, PamWriteFailed, PamSigpipe, PamRead, PamEof, PamPollTimeout,
        PamReturn, HangUp,
        vars, daemonVars
  <2>2. \A d \in PamConns : d # c => CallStatus(d)' = CallStatus(d)
    BY <2>1, <1>b, SameCall DEF Signed
  <2>3. Signed(c)' = Signed(c)
    BY <2>1 DEF Signed
  <2>4. CASE PamWrite(c)
    <3>1. CallStatus(c)' = CallStatus(c)
      BY <2>3, <2>4, <1>a DEF PamWrite, CallStatus
    <3>2. QED
      BY <2>2, <3>1, OneCall
  <2>5. ASSUME pam[c] \in {"writing", "reading"}, pam'[c] \in {"auth_err", "sigpipe"}
        PROVE  [PamView!Next]_callStatus
    <3>1. CallStatus(c) \in {"open", "approved"} /\ CallStatus(c)' = "refused"
      BY <2>5 DEF CallStatus
    <3>2. PamView!Refuse(c)
      BY <2>2, <3>1, OneCall DEF PamView!Refuse, PamView!Unanswered, callStatus
    <3>3. QED
      BY <3>2 DEF PamView!Next
  <2>6. CASE PamRead(c) /\ reply[c] = "granted"
    <3>1. Signed(c)
      BY <2>6, <1>a DEF Inv, PhaseApproval, ApprovalOf, PhaseLocals, HasLocals, Signed
    <3>2. CallStatus(c) = "approved" /\ CallStatus(c)' = "granted"
      BY <2>6, <1>a, <3>1 DEF PamRead, PamReturn, response_is_authorized, CallStatus
    <3>3. PamView!Grant(c)
      BY <2>2, <3>2, OneCall DEF PamView!Grant, callStatus
    <3>4. QED
      BY <3>3 DEF PamView!Next
  <2>7. CASE PamRead(c) /\ reply[c] # "granted"
    BY <2>5, <2>7, <1>a DEF PamRead, PamReturn, response_is_authorized
  <2>8. CASE PamWriteFailed(c) \/ PamSigpipe(c) \/ PamEof(c) \/ PamPollTimeout(c)
    BY <2>5, <2>8, <1>a DEF PamWriteFailed, PamSigpipe, PamEof, PamPollTimeout, PamReturn
  <2>9. QED
    BY <1>3, <2>4, <2>6, <2>7, <2>8 DEF PamStep
<1>4. QED
  BY <1>1, <1>2, <1>3

\* Every step of the composition is a step of LoginApproval as the login program
\* sees it, or changes the status of no call.
LEMMA CallStep == PamInv /\ [PamNext]_composedVars => [PamView!Next]_callStatus
<1> SUFFICES ASSUME PamInv, [PamNext]_composedVars PROVE [PamView!Next]_callStatus
  OBVIOUS
<1>a. Inv /\ PamConns \subseteq Conns
  BY PamAssumption DEF PamInv
<1>b. ASSUME pam' = pam, \A d \in PamConns : Signed(d)' = Signed(d)
      PROVE  UNCHANGED callStatus
  BY <1>b, SameCall DEF callStatus
<1>1. ASSUME NEW c \in PamConns, PamConnect(c) \/ PamConnectFailed(c) \/ PamStep(c)
      PROVE  [PamView!Next]_callStatus
  BY <1>1, OwnCallStep
<1>2. ASSUME NEW c \in PamConns, PamSignal(c) PROVE UNCHANGED callStatus
  BY <1>2, <1>b DEF PamSignal, Signed, vars, daemonVars
<1>3. ASSUME NEW c \in PamConns, DaemonReads(c) PROVE UNCHANGED callStatus
  <2>1. ClientStep(c) /\ c \in Conns /\ ~Accept(c) /\ pam' = pam /\ auth[c] = NoAuth
    BY <1>3, <1>a DEF DaemonReads, ClientStep, Unread, Accept, pamVars
  <2>2. ~Signed(c)
    BY <2>1, DaemonAssumption DEF Signed, NoAuth
  <2>3. Signed(c)' = FALSE
    BY <2>1, <2>2, <1>a, SignedByClient
  <2>4. \A d \in PamConns : Signed(d)' = Signed(d)
    <3>1. \A d \in PamConns : d # c => Signed(d)' = Signed(d)
      BY <2>1, <1>a, SignedByClient
    <3>2. Signed(c)' = Signed(c)
      BY <2>2, <2>3 DEF Signed
    <3>3. QED
      BY <3>1, <3>2
  <2>5. QED
    BY <2>1, <2>4, <1>b
<1>4. ASSUME NEW c \in Conns, DaemonStep(c) PROVE [PamView!Next]_callStatus
  BY <1>4, DaemonCallStep DEF DaemonStep
<1>5. ASSUME NEW c \in Conns \ PamConns, PhoneStep(c) PROVE UNCHANGED callStatus
  BY <1>5, <1>a, <1>b, SignedByClient DEF PhoneStep, pamVars
<1>6. CASE DaemonCrash \/ ComposedTick \/ UNCHANGED composedVars
  BY <1>6, <1>b
  DEF DaemonCrash, Crash, ComposedTick, composedVars, pamVars, vars, daemonVars, Signed
<1>7. QED
  BY <1>1, <1>2, <1>3, <1>4, <1>5, <1>6 DEF PamNext

\* End to end: to the login program, PAM and the daemon with its phones, timers,
\* crashes and lost connections are the life of a login request.
THEOREM EndToEnd == PamSpec => PamImplementsLogin
<1>1. PamInit => PamInv
  BY InvInit DEF PamInit, PamInv, AnswerKept, PamStates
<1>2. PamInit => PamView!Init
  BY DEF PamInit, PamView!Init, callStatus, CallStatus
<1>3. QED
  BY <1>1, <1>2, CallStep, PamInvStep, PTL DEF PamSpec, PamImplementsLogin, PamView!Spec

=============================================================================
