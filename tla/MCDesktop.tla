----------------------------- MODULE MCDesktop -----------------------------
(***************************************************************************)
(* The desktop controller for TLC.                                         *)
(***************************************************************************)
EXTENDS Desktop, TLC

\* Nothing tells two phones, two device ids or two codes apart.
MCSymmetry == Permutations(Phones) \cup Permutations(Devices) \cup Permutations(Codes)

=============================================================================
