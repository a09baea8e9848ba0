---------------------------- MODULE MCRpcClient ----------------------------
(* RpcClient on small sets of callers.                                     *)
EXTENDS RpcClient

CONSTANTS c1, c2, c3

TwoCallers   == {c1, c2}
ThreeCallers == {c1, c2, c3}
OneSends     == {c3}
OneEmpty     == {c2}
Nobody       == {}
=============================================================================
