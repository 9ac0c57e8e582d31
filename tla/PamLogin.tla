------------------------------ MODULE PamLogin ------------------------------
(***************************************************************************)
(* The PAM module (linux-pam/pam_openbiounlock.c) against the daemon: each *)
(* call of pam_sm_authenticate connects to the daemon's Unix socket, sends *)
(* one authorize request, and polls for the answer with a timeout of its   *)
(* own, which a signal restarts.  Both ends run on their own; the daemon   *)
(* is the one of module Daemon, whose other connections are the phones.    *)
(***************************************************************************)
EXTENDS Daemon

CONSTANTS
    PamConns,      \* the connections of PAM; each is used for one call at a time
    PollTimeout,   \* 35 seconds, pam_openbiounlock.c:18
    MaxCalls,      \* bound on the calls that connect
    MaxSignals     \* bound on the signals that interrupt poll

ASSUME PamAssumption ==
    /\ PamConns \subseteq Conns
    /\ PollTimeout \in Nat /\ MaxCalls \in Nat /\ MaxSignals \in Nat

\* The daemon gives up on a login before PAM does.
ASSUME PollCoversTimeout == AuthTimeout < PollTimeout

VARIABLES
    pam,       \* pam[c]: where the call is, or what it has returned
    pollEnd,   \* pollEnd[c]: when its poll for the answer times out
    calls,     \* how many calls have connected
    signals,   \* how many signals have come in
    late       \* history: a second has passed while the daemon could take a step

pamVars == <<pam, pollEnd, calls, signals, late>>
composedVars == <<vars, pamVars>>

\* "writing": connected, in write_all.  "reading": the request is sent, in
\* read_line.  In the others the call is over: "no_daemon" and "auth_err" both stand
\* for PAM_AUTH_ERR, without and with a connection, and "sigpipe" for a login
\* program that was killed inside the call.
PamStates == {"idle", "writing", "reading", "success", "auth_err", "no_daemon", "sigpipe"}
Returned == PamStates \ {"writing", "reading"}

PamTypeOK ==
    /\ TypeOK
    /\ pam \in [PamConns -> PamStates]
    /\ pollEnd \in [PamConns -> Nat]
    /\ calls \in 0 .. MaxCalls
    /\ signals \in 0 .. MaxSignals
    /\ late \in BOOLEAN

PamInit ==
    /\ Init
    /\ pam = [c \in PamConns |-> "idle"]
    /\ pollEnd = [c \in PamConns |-> 0]
    /\ calls = 0
    /\ signals = 0
    /\ late = FALSE

-----------------------------------------------------------------------------
(* pam_sm_authenticate *)

\* connect succeeds.
PamConnect(c) ==
    /\ pam[c] \in Returned
    /\ calls < MaxCalls
    /\ calls' = calls + 1
    /\ Accept(c)
    /\ pam' = [pam EXCEPT ![c] = "writing"]
    /\ UNCHANGED <<pollEnd, signals, late>>

\* No user, no socket, or no daemon to connect to.
PamConnectFailed(c) ==
    /\ pam[c] \in Returned
    /\ pam' = [pam EXCEPT ![c] = "no_daemon"]
    /\ UNCHANGED <<vars, pollEnd, calls, signals, late>>

\* Mutant: poll waits a second less than the daemon.
PamWriteImpatient(c) ==
    /\ pam[c] = "writing"
    /\ peer[c]
    /\ pam' = [pam EXCEPT ![c] = "reading"]
    /\ pollEnd' = [pollEnd EXCEPT ![c] = now + AuthTimeout - 1]
    /\ UNCHANGED <<vars, calls, signals, late>>

\* write_all has sent the request; read_line starts to poll.
PamWrite(c) ==
    /\ pam[c] = "writing"
    /\ peer[c]
    /\ pam' = [pam EXCEPT ![c] = "reading"]
    /\ pollEnd' = [pollEnd EXCEPT ![c] = now + PollTimeout]
    /\ UNCHANGED <<vars, calls, signals, late>>

\* close(fd), seen by the daemon unless it is gone itself, and the result.
PamReturn(c, result) ==
    /\ pam' = [pam EXCEPT ![c] = result]
    /\ IF peer[c] THEN HangUp(c) ELSE UNCHANGED vars
    /\ UNCHANGED <<pollEnd, calls, signals, late>>

\* The request does not fit the buffer, or the write fails, as it does on a closed
\* socket when the login program ignores SIGPIPE.
PamWriteFailed(c) ==
    /\ pam[c] = "writing"
    /\ PamReturn(c, "auth_err")

\* write on a socket that the daemon has closed raises SIGPIPE, which ends a login
\* program that does not handle it.
PamSigpipe(c) ==
    /\ pam[c] = "writing"
    /\ ~peer[c]
    /\ PamReturn(c, "sigpipe")

\* Mutant: an answer is taken for a yes whatever its flag says.
response_is_answered(c) == reply[c] \in {"granted", "refused"}

\* The answer has the type `authorized` and the flag `true`.
response_is_authorized(c) == reply[c] = "granted"

\* read_line returns the line the daemon has written; a daemon that ended since
\* has left it in the socket.
PamRead(c) ==
    /\ pam[c] = "reading"
    /\ reply[c] # "none"
    /\ PamReturn(c, IF response_is_authorized(c) THEN "success" ELSE "auth_err")

\* The daemon is gone without an answer: read returns 0, or an error.
PamEof(c) ==
    /\ pam[c] = "reading"
    /\ reply[c] = "none"
    /\ ~peer[c]
    /\ PamReturn(c, "auth_err")

\* Mutant: poll without a timeout, which only returns when the daemon is gone.
PamPollForever(c) ==
    /\ pam[c] = "reading"
    /\ reply[c] = "none"
    /\ ~peer[c]
    /\ PamReturn(c, "auth_err")

\* poll returns 0: no answer in time.
PamPollTimeout(c) ==
    /\ pam[c] = "reading"
    /\ reply[c] = "none"
    /\ now >= pollEnd[c]
    /\ PamReturn(c, "auth_err")

\* A signal interrupts poll, which starts over with the full timeout.
PamSignal(c) ==
    /\ pam[c] = "reading"
    /\ signals < MaxSignals
    /\ signals' = signals + 1
    /\ pollEnd' = [pollEnd EXCEPT ![c] = now + PollTimeout]
    /\ UNCHANGED <<vars, pam, calls, late>>

-----------------------------------------------------------------------------
(* The daemon *)

\* The request of PAM is in the socket and has not been read.
Unread(c) == pam[c] = "reading" /\ pc[c] = "reading" /\ auth[c] = NoAuth /\ reply[c] = "none"

\* The daemon reads it; an error answer means that it could not parse the line
\* or had no random number.
DaemonReads(c) ==
    /\ Unread(c)
    /\ ReadAuthorize(c) \/ ReadInvalid(c)
    /\ UNCHANGED pamVars

DaemonStep(c) == HandlerStep(c) /\ UNCHANGED pamVars

PhoneStep(c) == ClientStep(c) /\ UNCHANGED pamVars

DaemonCrash == Crash /\ UNCHANGED pamVars

\* A timer of either side is running.
TimerRunning ==
    \/ \E c \in Conns : pc[c] \in {"waiting", "woken"} /\ now < auth[c].deadline
    \/ \E c \in PamConns : pam[c] = "reading" /\ now < pollEnd[c]

\* A handler that is not waiting for a line, for a notification or for the
\* time to pass.
Ready(c) ==
    \/ pc[c] \in {"insert", "arming", "woken", "removing", "apply", "pairing"}
    \/ pc[c] = "waiting" /\ now >= auth[c].deadline
    \/ c \in PamConns /\ Unread(c)

ComposedTick ==
    /\ now < MaxTime \/ TimerRunning
    /\ now' = now + 1
    /\ late' = (late \/ \E c \in Conns : Ready(c))
    /\ UNCHANGED <<storeVars, pending, pc, auth, check, reply, peer, used, offered,
                   approvals, pam, pollEnd, calls, signals>>

-----------------------------------------------------------------------------

\* The steps by which a call of PAM goes on.
PamStep(c) ==
    \/ PamWrite(c)
    \/ PamWriteFailed(c)
    \/ PamSigpipe(c)
    \/ PamRead(c)
    \/ PamEof(c)
    \/ PamPollTimeout(c)

PamNext ==
    \/ \E c \in PamConns : PamConnect(c)
    \/ \E c \in PamConns : PamConnectFailed(c)
    \/ \E c \in PamConns : PamStep(c)
    \/ \E c \in PamConns : PamSignal(c)
    \/ \E c \in PamConns : DaemonReads(c)
    \/ \E c \in Conns : DaemonStep(c)
    \/ \E c \in Conns \ PamConns : PhoneStep(c)
    \/ DaemonCrash
    \/ ComposedTick

PamSpec == PamInit /\ [][PamNext]_composedVars

\* The login program runs and time passes.  Nothing is assumed of the daemon.
PamFairSpec ==
    /\ PamSpec
    /\ \A c \in PamConns : WF_composedVars(PamStep(c))
    /\ WF_composedVars(ComposedTick)

-----------------------------------------------------------------------------
(* Properties *)

\* PAM_SUCCESS is returned (pam_openbiounlock.c:70) only when a paired phone
\* has approved the very request this call has sent.
PamSuccessApproved == \A c \in PamConns : pam[c] = "success" => Approved(c)

\* PAM does not give up on a login that the daemon then grants: its poll
\* (pam_openbiounlock.c:18) outlasts the daemon's wait (server.rs:112), whatever
\* signals, refusals and restarts come in between, as long as the daemon takes
\* each step it can take within the second.
GrantReachesPam ==
    ~late => \A c \in PamConns : ~(pam[c] = "auth_err" /\ reply[c] = "granted")

\* GrantReachesPam, strengthened: a handler that is busy with a login has PAM
\* waiting for it, and at every point of the way to the answer the poll has
\* more time left than the daemon still needs.
Timely(c) ==
    /\ pc[c] = "reading" => peer[c]
    /\ pc[c] \in Authorizing => pam[c] = "reading" /\ peer[c]
    /\ pam[c] \in {"writing", "auth_err"} => reply[c] # "granted"
    /\ Unread(c) \/ pc[c] \in {"insert", "arming"} => now + PollTimeout <= pollEnd[c]
    /\ pc[c] \in {"waiting", "woken"} =>
         /\ now <= auth[c].deadline
         /\ auth[c].deadline <= now + AuthTimeout
         /\ auth[c].deadline < pollEnd[c]
    /\ pc[c] = "removing" => now < pollEnd[c]

AllTimely == ~late => \A c \in PamConns : Timely(c)

\* Every call returns or dies with its program, even if the daemon stalls, crashes
\* or never answers: a login screen does not hang.
PamReturns == \A c \in PamConns : pam[c] = "writing" ~> pam[c] \in Returned

\* A phone has approved the request that was read on connection c.
Signed(c) == \E n \in Nonces : n = auth[c].nonce /\ approvals[n] # <<>>

\* The call on c as the login program sees it: a call that finds no daemon is no
\* login request, one that has connected is open until it returns or dies.
CallStatus(c) ==
    CASE pam[c] = "success" -> "granted"
      [] pam[c] \in {"auth_err", "sigpipe"} -> "refused"
      [] pam[c] \in {"idle", "no_daemon"} -> "idle"
      [] OTHER -> IF Signed(c) THEN "approved" ELSE "open"

callStatus == [c \in PamConns |-> CallStatus(c)]

PamView == INSTANCE LoginApproval WITH Conns <- PamConns, status <- callStatus

\* Seen from the login program, PAM and the daemon together implement the life
\* of a login request, from pam_sm_authenticate's connect to its return
\* (pam_openbiounlock.c:51-72): each call returns PAM_SUCCESS only after one
\* approval made while it was under way, and once.
PamImplementsLogin == PamView!Spec

=============================================================================
