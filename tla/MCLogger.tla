----------------------------- MODULE MCLogger ------------------------------
(* An event of Debugf, one of Error and two users of the SwapLogger.         *)
EXTENDS Logger, TLC

CONSTANTS e1, e2, d1, d2

TwoEvents == {e1, e2}
OneVEvent == {e1}
TwoDirect == {d1, d2}
Nobody    == {}
DirectSymmetry == Permutations(TwoDirect)
DebugAndError == e1 :> 0 @@ e2 :> 3
=============================================================================
