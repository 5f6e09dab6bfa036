-------------------------- MODULE MCServeLifecycle --------------------------
(* Small instances of ServeLifecycle for TLC.                              *)
EXTENDS ServeLifecycle

CONSTANTS l1, l2, c1, c2, c3, d1, d2, d3, d4, d5

OneDaemon == {l1}
TwoDaemons == {l1, l2}
TwoCmds == {c1, c2}
ThreeCmds == {c1, c2, c3}
ThreePods == {d1, d2, d3}
FourPods == {d1, d2, d3, d4}
FivePods == {d1, d2, d3, d4, d5}

AllKinds == {"start", "stop", "remove", "refresh"}
StartStop == {"start", "stop"}
StartRemove == {"start", "remove"}
ForegroundStop == {"foreground", "start", "stop"}
=============================================================================
