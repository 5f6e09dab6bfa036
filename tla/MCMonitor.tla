----------------------------- MODULE MCMonitor -----------------------------
(* Small instances of Monitor for TLC.                                     *)
EXTENDS Monitor

CONSTANTS w1, w2, w3, w4, s1, s2

TwoRuns == {w1, w2}
FourRuns == {w1, w2, w3, w4}
OneSwap == {s1}
TwoSwaps == {s1, s2}
=============================================================================
