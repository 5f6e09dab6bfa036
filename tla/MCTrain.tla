------------------------------ MODULE MCTrain ------------------------------
(* Small instances of Train for TLC.                                       *)
EXTENDS Train

CONSTANTS l1, c1, c2, d1, d2, d3

OneDaemon == {l1}
TwoCmds == {c1, c2}
ThreePods == {d1, d2, d3}
StartTrain == {"start", "train"}
=============================================================================
