------------------------------ MODULE MCMobile ------------------------------
(***************************************************************************)
(* The phone app for TLC.                                                  *)
(***************************************************************************)
EXTENDS Mobile, TLC

\* Nothing tells two tasks, two workstations or two key pairs apart.
MCSymmetry == Permutations(Tasks) \cup Permutations(Workstations) \cup Permutations(Keys)

=============================================================================
