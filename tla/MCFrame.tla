------------------------------ MODULE MCFrame ------------------------------
(* A byte has two values, so a length says at most 3: bodies at 0, in one   *)
(* byte of the length, in both, at the limit and beyond it.                 *)
EXTENDS Frame

BodiesAround == {<<>>, <<1>>, <<0, 1>>, <<1, 0, 1>>, <<1, 1, 0, 1>>, <<0, 1, 1, 0, 1>>}
=============================================================================
