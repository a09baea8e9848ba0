---------------------------- MODULE MCRpcServer ----------------------------
(* Three connections that draw from two session numbers, so that the number *)
(* of a live one can come again, and a request on the first.                *)
EXTENDS RpcServer, TLC

CONSTANTS c1, c2, c3, r1, s1, s2

ThreeConns  == {c1, c2, c3}
OneRequest  == {r1}
OnFirst     == r1 :> c1
TwoServices == {s1, s2}
=============================================================================
