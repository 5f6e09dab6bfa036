---------------------------- MODULE MCWorkerPool ----------------------------
(* Small instances of WorkerPool for TLC.                                  *)
EXTENDS WorkerPool

CONSTANTS p1, b1

OneProxy == {p1}
OneDashboard == {b1}
=============================================================================
