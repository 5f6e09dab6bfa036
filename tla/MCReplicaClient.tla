-------------------------- MODULE MCReplicaClient ---------------------------
(* Small instances of ReplicaClient for TLC.                               *)
EXTENDS ReplicaClient, TLC

CONSTANTS ui, d1, t1, t2, m1, m2, e1, e2, e3, e4, e5

OneProc == {ui}
OnePod == {d1}
TwoThreads == {t1, t2}
TwoMaterials == {m1, m2}
FiveDirs == {e1, e2, e3, e4, e5}

(* sshd at 1, the worker at 2, and ephemeral ports from 4 on, one of them  *)
(* the user's in a file that leaves the monitor's to the process; at 3 the *)
(* monitor's port in a file that gives it.                                 *)
Plain(ports, port) ==
  [secure |-> FALSE, worker |-> 2, ports |-> ports, port |-> port, mtls |-> None]
Secured(m) ==
  [secure |-> TRUE, worker |-> 2, ports |-> {2}, port |-> None, mtls |-> m]

Files == {Plain({2, 5}, None), Plain({2}, 3)} \cup {Secured(m) : m \in Materials}

Symmetry == Permutations(Threads) \cup Permutations(Materials)
=============================================================================
