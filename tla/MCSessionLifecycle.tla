------------------------- MODULE MCSessionLifecycle -------------------------
(* Instances of SessionLifecycle for TLC.                                  *)
EXTENDS SessionLifecycle, TLC

CONSTANTS s1, s2, s3, d1, d2

\* A shell of one device, an attached terminal of another.
KindDD == s1 :> "shell" @@ s2 :> "attach"
OwnerDD == s1 :> d1 @@ s2 :> d2
TargetDD == s1 :> s1 @@ s2 :> s1

\* A native shell and a session that names it as its attach target.
KindSR == s1 :> "shell" @@ s2 :> "rejoin"
OwnerSR == s1 :> d1 @@ s2 :> d1
TargetSR == s1 :> s1 @@ s2 :> s1

\* Two native shells and an attached terminal of one device.
KindSSA == s1 :> "shell" @@ s2 :> "shell" @@ s3 :> "attach"
OwnerSSA == s1 :> d1 @@ s2 :> d1 @@ s3 :> d1
TargetSSA == s1 :> s1 @@ s2 :> s2 @@ s3 :> s1

\* At most one terminal channel is open or being closed.
OneChannel ==
    Cardinality({s \in Sessions : chans[s] # {}}) + Cardinality(closing) <= 1
=============================================================================
