----------------------------- MODULE MCPamLogin -----------------------------
(***************************************************************************)
(* PAM and the daemon for TLC.                                             *)
(***************************************************************************)
EXTENDS PamLogin

CONSTANT Phones   \* connections of phones that approve logins

MCConns == PamConns \cup Phones

MCSends ==
    [c \in MCConns |-> IF c \in PamConns THEN {"authorize", "invalid", "hangup"}
                       ELSE {"challenge", "verify"}]

=============================================================================
