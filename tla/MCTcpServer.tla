---------------------------- MODULE MCTcpServer ----------------------------
(* TcpServer on small sets of frames and writers.                          *)
EXTENDS TcpServer

CONSTANTS p1

HeadsOfTwo     == 1 .. 2
OnePusher      == {p1}
TwoAndPusher   == HeadsOfTwo \cup OnePusher
NoPusher       == {}
=============================================================================
