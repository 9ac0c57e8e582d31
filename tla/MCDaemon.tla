------------------------------ MODULE MCDaemon ------------------------------
(***************************************************************************)
(* The daemon for TLC: a connection is a login program, a phone, or a      *)
(* client that only pairs.                                                 *)
(***************************************************************************)
EXTENDS Daemon, TLC

CONSTANTS
    Logins,     \* connections of PAM or the credential provider
    Phones,     \* connections of phones that approve logins
    Pairers     \* connections of phones that pair, or send nonsense

MCConns == Logins \cup Phones \cup Pairers

MCSends ==
    [c \in MCConns |->
        (IF c \in Logins THEN {"authorize", "hangup"} ELSE {})
          \cup (IF c \in Phones THEN {"challenge", "verify"} ELSE {})
          \cup (IF c \in Pairers THEN {"pair", "invalid", "hangup"} ELSE {})]

\* Nothing tells two nonces, two logins or two keys apart.
MCSymmetry == Permutations(Nonces) \cup Permutations(Logins) \cup Permutations(Keys)

=============================================================================
