----------------------------- MODULE MCStateFile -----------------------------
(* Instances of StateFile for TLC.                                         *)
EXTENDS StateFile, TLC

CONSTANTS c1, c2, d1, d2

\* One command pairs d2, another revokes d1.
JobPR == c1 :> "pair" @@ c2 :> "revoke"
DevicePR == c1 :> d2 @@ c2 :> d1

\* One command pairs d2.
JobP == c1 :> "pair"
DeviceP == c1 :> d2
=============================================================================
