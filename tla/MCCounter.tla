----------------------------- MODULE MCCounter -----------------------------
(* Three goroutines and a counter that wraps after three numbers.           *)
EXTENDS Counter

CONSTANTS t1, t2, t3

ThreeThreads == {t1, t2, t3}
=============================================================================
