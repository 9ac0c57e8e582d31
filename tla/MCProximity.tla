---------------------------- MODULE MCProximity ----------------------------
(***************************************************************************)
(* The proximity scan for TLC: a level near, one between and one far.      *)
(***************************************************************************)
EXTENDS Proximity, TLC

MCLevels == -3 .. -1

MCNear == -1

MCFar == -2

\* Nothing tells two tasks apart.
MCSymmetry == Permutations(Tasks)

=============================================================================
