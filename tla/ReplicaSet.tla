----------------------------- MODULE ReplicaSet -----------------------------
(***************************************************************************)
(* What reconciling promises the owner of the account: each process fills  *)
(* a slot only when it has a free one among its NumNodes.  Pods may leave  *)
(* at any time, and one may come into view behind the process's back,      *)
(* which grants a slot more (slack), for the process cannot tell.          *)
(***************************************************************************)
EXTENDS Naturals, FiniteSets

CONSTANTS Pods, Procs, NumNodes

VARIABLES slots,   \* the live pods each process made
          slack    \* pods that came into view behind the process's back

rsVars == <<slots, slack>>

RSInit == slots = [p \in Procs |-> {}] /\ slack = [p \in Procs |-> 0]

Fill(p, d) ==
  /\ Cardinality(slots[p]) < NumNodes + slack[p]
  /\ \A q \in Procs : d \notin slots[q]
  /\ slots' = [slots EXCEPT ![p] = @ \cup {d}]
  /\ UNCHANGED slack

Vacate(p, d) ==
  /\ slots' = [slots EXCEPT ![p] = @ \ {d}]
  /\ UNCHANGED slack

Surface(p, d) ==
  /\ \A q \in Procs : d \notin slots[q]
  /\ slots' = [slots EXCEPT ![p] = @ \cup {d}]
  /\ slack' = [slack EXCEPT ![p] = @ + 1]

RSNext == \E p \in Procs, d \in Pods : Fill(p, d) \/ Vacate(p, d) \/ Surface(p, d)

RSSpec == RSInit /\ [][RSNext]_rsVars
=============================================================================
