--------------------------- MODULE LoginApproval ---------------------------
(***************************************************************************)
(* What the daemon promises to a login program (PAM, the Windows           *)
(* credential provider): the life of the login request of a connection,    *)
(* with no map, no lock, no clock and no phone in sight.  A request is     *)
(* open until it is approved once or given up; it is granted only from     *)
(* approved; an approval may still lose against the timeout; a restart of  *)
(* the daemon drops every request that has no answer yet.                  *)
(***************************************************************************)

CONSTANT Conns

VARIABLE status

Unanswered == {"open", "approved"}

Init == status = [c \in Conns |-> "idle"]

\* A new request, over a new connection or after an earlier answer.
Request(c) ==
    /\ status[c] \notin Unanswered
    /\ status' = [status EXCEPT ![c] = "open"]

Approve(c) ==
    /\ status[c] = "open"
    /\ status' = [status EXCEPT ![c] = "approved"]

Grant(c) ==
    /\ status[c] = "approved"
    /\ status' = [status EXCEPT ![c] = "granted"]

Refuse(c) ==
    /\ status[c] \in Unanswered
    /\ status' = [status EXCEPT ![c] = "refused"]

\* The connection goes on to something else than a login.
Forget(c) ==
    /\ status[c] \in {"granted", "refused"}
    /\ status' = [status EXCEPT ![c] = "idle"]

\* The daemon restarts.  Answers that were given stay given.
Restart ==
    status' = [c \in Conns |-> IF status[c] \in Unanswered THEN "idle" ELSE status[c]]

Next ==
    \/ \E c \in Conns : Request(c)
    \/ \E c \in Conns : Approve(c)
    \/ \E c \in Conns : Grant(c)
    \/ \E c \in Conns : Refuse(c)
    \/ \E c \in Conns : Forget(c)
    \/ Restart

Spec == Init /\ [][Next]_status

=============================================================================
