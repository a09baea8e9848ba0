---------------------------- MODULE MCTcpClient ----------------------------
(* TcpClient on small sets of heartbeats, requests and closers.            *)
EXTENDS TcpClient

CONSTANTS c1, a1

NoCaller     == {}
OneCaller    == {c1}
NoApp        == {}
OneApp       == {a1}
BeatsOfTwo   == {1, 2}
TwoAndCaller == {1, 2, c1}
=============================================================================
