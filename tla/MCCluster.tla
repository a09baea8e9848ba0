----------------------------- MODULE MCCluster -----------------------------
(* Two Connects for one name and one for another, and a user of the first.  *)
EXTENDS Cluster, TLC

CONSTANTS k1, k2, k3, u1, n1, n2

AllConnectors == {k1, k2, k3}
OneUser       == {u1}
BothNames     == {n1, n2}
TwoOnFirst    == k1 :> n1 @@ k2 :> n1 @@ k3 :> n2 @@ u1 :> n1
=============================================================================
