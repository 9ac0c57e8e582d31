---------------------------- MODULE MCDashboard ----------------------------
(***************************************************************************)
(* The desktop controller with its window for TLC: three beacons, two of   *)
(* which the platform cannot tell apart, and a device id that is also the  *)
(* text of the third one's UUID.                                           *)
(***************************************************************************)
EXTENDS Dashboard, TLC

CONSTANTS b1, b2, b3, u1, u2

MCdeviceUuid == (b1 :> u1) @@ (b2 :> u2) @@ (b3 :> u2)

MCLevels == -3 .. -1

MCNear == -2

MCFar == -3

\* Nothing tells two codes apart.
MCSymmetry == Permutations(Codes)

=============================================================================
