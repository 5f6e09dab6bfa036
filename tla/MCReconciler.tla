---------------------------- MODULE MCReconciler ----------------------------
(* Small instances of Reconciler for TLC.                                  *)
EXTENDS Reconciler

CONSTANTS l1, s1, d1, d2, d3, d4

OneLoop == {l1}
NoOneShot == {}
OneOneShot == {s1}

FourPods == {d1, d2, d3, d4}
=============================================================================
