----------------------------- MODULE Reconciler -----------------------------
(***************************************************************************)
(* reconciler.py and the RunPod calls it makes (runpod_client.py):         *)
(* processes that each compare the number of live pods of one cluster with *)
(* NumNodes and launch what is missing.  A loop (run_loop_until, the       *)
(* thread of a serve process) passes again and again; a one-shot           *)
(* (start_serve_daemon, `reconcile --once', train) passes once.            *)
(*                                                                         *)
(* The processes share nothing but RunPod's account and the store, so the  *)
(* calls of two passes interleave; one step here is one call.  RunPod is   *)
(* external: it may answer a listing with nothing although pods exist, run *)
(* out of capacity, refuse, or do the work and lose the answer.            *)
(***************************************************************************)
EXTENDS Naturals, FiniteSets, ClusterStore

CONSTANTS Loops,         \* serve processes, each with a reconcile thread
          OneShots,      \* processes that run reconcile_once a single time
          NumNodes,      \* spec.num_nodes
          NumZones,      \* spec.resources.zones, tried in order before AUTO
          EmptyRetries,  \* list_managed_pods(empty_retries=...)
          MaxGlitch,     \* empty answers RunPod gives in a row, at most
          MaxFaults,     \* bound: failures of RunPod and of pods
          MaxBack        \* bound: pods of one process that come back

Procs == Loops \cup OneShots

ASSUME ReconcilerAssumption ==
  /\ NumNodes \in Nat \ {0}
  /\ NumZones \in Nat
  /\ EmptyRetries \in Nat
  /\ MaxGlitch \in Nat
  /\ MaxFaults \in Nat
  /\ MaxBack \in Nat
  /\ IsFiniteSet(Pods)
  /\ Loops \cap OneShots = {}
  /\ None \notin Procs

(* What runpod_client.py relies on when it re-fetches an empty list: the   *)
(* false negatives are transient.                                          *)
ASSUME GlitchAssumption == MaxGlitch <= EmptyRetries

VARIABLES
  pod,      \* RunPod's view of each pod id
  owner,    \* the process whose deploy call made the pod
  back,     \* times a pod of a process became visible behind its back
  faults,   \* failures so far (see MaxFaults)
  db,       \* the store's rows
  pc,       \* where each process is
  stop,     \* stop_rc is set: uvicorn has returned, the process is leaving
  attempt,  \* loop variable of list_managed_pods
  blind,    \* consecutive false empty answers of this listing
  left,     \* iterations left of `for _ in range(shortage)'
  zone,     \* index into spec.resources.zones; NumZones is AUTO
  last      \* the pod just launched, to be recorded

world == <<pod, owner, back>>
local == <<attempt, blind, left, zone, last>>
vars  == <<pod, owner, back, faults, db, pc, stop, attempt, blind, left, zone, last>>

(* pending: the deploy call was cut off, RunPod may or may not carry it out*)
(* off:     listed but not counted (_DEAD_STATUSES or an unknown status)   *)
(* gone:    terminated, no longer listed                                   *)
PodStatus == {"none", "pending", "alive", "off", "gone"}
PC == {"idle", "resolve", "touch", "list", "deploy", "record", "wait", "done", "failed"}

Alive  == {d \in Pods : pod[d] = "alive"}           \* count_alive_nodes' view
Listed == {d \in Pods : pod[d] \in {"alive", "off"}}
Fresh  == {d \in Pods : pod[d] = "none"}
(* The id RunPod gives the next pod: any fresh one, which one is immaterial*)
NewId(d) == Fresh # {} /\ d = CHOOSE x \in Fresh : TRUE
OwnAlive(p) == {d \in Alive : owner[d] = p}

TypeOK ==
  /\ pod \in [Pods -> PodStatus]
  /\ owner \in [Pods -> Procs \cup {None}]
  /\ back \in [Procs -> Nat]
  /\ faults \in Nat
  /\ db \in StoreType
  /\ pc \in [Procs -> PC]
  /\ stop \in [Procs -> BOOLEAN]
  /\ attempt \in [Procs -> 0 .. EmptyRetries]
  /\ blind \in [Procs -> 0 .. MaxGlitch]
  /\ left \in [Procs -> 0 .. NumNodes]
  /\ zone \in [Procs -> 0 .. NumZones]
  /\ last \in [Procs -> Pods \cup {None}]

Init ==
  /\ pod = [d \in Pods |-> "none"]
  /\ owner = [d \in Pods |-> None]
  /\ back = [p \in Procs |-> 0]
  /\ faults = 0
  /\ db = EmptyStore
  /\ pc = [p \in Procs |-> "idle"]
  /\ stop = [p \in Procs |-> FALSE]
  /\ attempt = [p \in Procs |-> 0]
  /\ blind = [p \in Procs |-> 0]
  /\ left = [p \in Procs |-> 0]
  /\ zone = [p \in Procs |-> 0]
  /\ last = [p \in Procs |-> None]

-----------------------------------------------------------------------------
(* One more failure, up to the bound.                                      *)
Fault == faults < MaxFaults /\ faults' = faults + 1

(* Leave the pass normally, or because an exception left reconcile_once:   *)
(* the loop logs it and waits, a one-shot's caller gets it.                *)
AfterPass(p) == IF p \in Loops THEN "wait" ELSE "done"
MutAfterError(p) == "failed"
AfterError(p) == IF p \in Loops THEN "wait" ELSE "failed"

Start(p) ==
  /\ pc[p] = "idle"
  /\ pc' = [pc EXCEPT ![p] = "resolve"]
  /\ UNCHANGED <<world, faults, db, stop, local>>

(* resolve_gpu_type_id_for_spec runs once, outside the loop's try.         *)
ResolveGpu(p) ==
  /\ pc[p] = "resolve"
  /\ pc' = [pc EXCEPT ![p] = IF stop[p] THEN "done" ELSE "touch"]
  /\ UNCHANGED <<world, faults, db, stop, local>>

ResolveGpuFails(p) ==
  /\ pc[p] = "resolve"
  /\ Fault
  /\ pc' = [pc EXCEPT ![p] = "failed"]
  /\ UNCHANGED <<world, db, stop, local>>

(* The pass goes on whether or not the store could be written.             *)
Touch(p) ==
  /\ pc[p] = "touch"
  /\ \/ db' = UpsertClusterTouch(db) /\ UNCHANGED faults
     \/ Fault /\ UNCHANGED db
  /\ pc' = [pc EXCEPT ![p] = "list"]
  /\ attempt' = [attempt EXCEPT ![p] = 0]
  /\ blind' = [blind EXCEPT ![p] = 0]
  /\ UNCHANGED <<world, stop, left, zone, last>>

MutDecide(p, alive) ==
  /\ pc' = [pc EXCEPT ![p] = "deploy"]
  /\ left' = [left EXCEPT ![p] = NumNodes - alive]
  /\ zone' = [zone EXCEPT ![p] = 0]
(* shortage = num_nodes - alive; nothing to do when it is not positive.    *)
Decide(p, alive) ==
  IF alive >= NumNodes
  THEN /\ pc' = [pc EXCEPT ![p] = AfterPass(p)]
       /\ UNCHANGED <<left, zone>>
  ELSE /\ pc' = [pc EXCEPT ![p] = "deploy"]
       /\ left' = [left EXCEPT ![p] = NumNodes - alive]
       /\ zone' = [zone EXCEPT ![p] = 0]

MutRefetch(p, seen) == seen = {} /\ attempt[p] + 1 < EmptyRetries
(* An empty list is fetched again while attempts remain.                   *)
Refetch(p, seen) == seen = {} /\ attempt[p] < EmptyRetries

(* What one get_pods call may return: the truth, or nothing by a glitch.   *)
Answers(p) == {Listed} \cup (IF blind[p] < MaxGlitch THEN {{}} ELSE {})
Glimpse(p, seen) ==
  blind' = [blind EXCEPT ![p] = IF seen = Listed THEN 0 ELSE @ + 1]

ListPods(p) ==
  /\ pc[p] = "list"
  /\ \E seen \in Answers(p) :
       /\ Glimpse(p, seen)
       /\ IF Refetch(p, seen)
          THEN /\ attempt' = [attempt EXCEPT ![p] = @ + 1]
               /\ UNCHANGED <<pc, left, zone>>
          ELSE /\ Decide(p, Cardinality(seen \cap Alive))
               /\ UNCHANGED attempt
  /\ UNCHANGED <<world, faults, db, stop, last>>

ListFails(p) ==
  /\ pc[p] = "list"
  /\ Fault
  /\ pc' = [pc EXCEPT ![p] = AfterError(p)]
  /\ UNCHANGED <<world, db, stop, local>>

MutLaunchOk(p, d) ==
  /\ pc[p] = "deploy"
  /\ NewId(d)
  /\ pod' = [pod EXCEPT ![d] = "alive"]
  /\ owner' = [owner EXCEPT ![d] = p]
  /\ pc' = [pc EXCEPT ![p] = "record"]
  /\ last' = [last EXCEPT ![p] = d]
  /\ UNCHANGED <<back, faults, db, stop, attempt, blind, left, zone>>
(* One deploy call of launch_one_node and its outcomes.                    *)
LaunchOk(p, d) ==
  /\ pc[p] = "deploy"
  /\ NewId(d)
  /\ pod' = [pod EXCEPT ![d] = "alive"]
  /\ owner' = [owner EXCEPT ![d] = p]
  /\ left' = [left EXCEPT ![p] = @ - 1]
  /\ pc' = [pc EXCEPT ![p] = "record"]
  /\ last' = [last EXCEPT ![p] = d]
  /\ UNCHANGED <<back, faults, db, stop, attempt, blind, zone>>

(* "no longer any instances" / "not available": on to the next zone.       *)
NoCapacity(p) ==
  /\ pc[p] = "deploy"
  /\ zone[p] < NumZones
  /\ Fault
  /\ zone' = [zone EXCEPT ![p] = @ + 1]
  /\ UNCHANGED <<world, db, pc, stop, attempt, blind, left, last>>

(* Any other error, or any error in AUTO, ends the pass: no pod is made.   *)
LaunchRefused(p) ==
  /\ pc[p] = "deploy"
  /\ Fault
  /\ pc' = [pc EXCEPT ![p] = AfterError(p)]
  /\ left' = [left EXCEPT ![p] = 0]
  /\ UNCHANGED <<world, db, stop, attempt, blind, zone, last>>

(* The call timed out or its answer was lost: RunPod may still carry it out*)
LaunchLost(p, d) ==
  /\ pc[p] = "deploy"
  /\ NewId(d)
  /\ Fault
  /\ pod' = [pod EXCEPT ![d] = "pending"]
  /\ owner' = [owner EXCEPT ![d] = p]
  /\ pc' = [pc EXCEPT ![p] = AfterError(p)]
  /\ left' = [left EXCEPT ![p] = 0]
  /\ UNCHANGED <<back, db, stop, attempt, blind, zone, last>>

(* A failure to record is logged and swallowed; then the next iteration.   *)
Record(p) ==
  /\ pc[p] = "record"
  /\ \/ db' = RecordPodLaunch(db, last[p]) /\ UNCHANGED faults
     \/ Fault /\ UNCHANGED db
  /\ pc' = [pc EXCEPT ![p] = IF left[p] = 0 THEN AfterPass(p) ELSE "deploy"]
  /\ zone' = [zone EXCEPT ![p] = 0]
  /\ last' = [last EXCEPT ![p] = None]
  /\ UNCHANGED <<world, stop, attempt, blind, left>>

(* stop.wait timed out and `while not stop.is_set()' holds.                *)
NextPass(p) ==
  /\ pc[p] = "wait"
  /\ ~ stop[p]
  /\ pc' = [pc EXCEPT ![p] = "touch"]
  /\ UNCHANGED <<world, faults, db, stop, local>>

(* uvicorn.run returned: `finally: stop_rc.set()'.                         *)
SetStop(p) ==
  /\ p \in Loops
  /\ pc[p] # "idle"
  /\ ~ stop[p]
  /\ stop' = [stop EXCEPT ![p] = TRUE]
  /\ UNCHANGED <<world, faults, db, pc, local>>

(* The process ends, wherever its reconcile thread is: in its wait, dead   *)
(* already, or (it is a daemon thread) in the middle of a pass.            *)
EndThread(p) ==
  /\ pc[p] \notin {"idle", "done"}
  /\ pc' = [pc EXCEPT ![p] = "done"]
  /\ left' = [left EXCEPT ![p] = 0]
  /\ UNCHANGED <<world, faults, db, stop, attempt, blind, zone, last>>

(* Cut off inside a deploy call that has already been sent.                *)
EndMidDeploy(p, d) ==
  /\ pc[p] = "deploy"
  /\ NewId(d)
  /\ Fault
  /\ pod' = [pod EXCEPT ![d] = "pending"]
  /\ owner' = [owner EXCEPT ![d] = p]
  /\ pc' = [pc EXCEPT ![p] = "done"]
  /\ left' = [left EXCEPT ![p] = 0]
  /\ UNCHANGED <<back, db, stop, attempt, blind, zone, last>>

-----------------------------------------------------------------------------
(* RunPod: a pod stops, is terminated, or comes (back) into view after a   *)
(* listing may have missed it.                                             *)
PodOff(d) ==
  /\ pod[d] = "alive"
  /\ Fault
  /\ pod' = [pod EXCEPT ![d] = "off"]
  /\ UNCHANGED <<owner, back, db, pc, stop, local>>

PodGone(d) ==
  /\ pod[d] \in {"alive", "off"}
  /\ Fault
  /\ pod' = [pod EXCEPT ![d] = "gone"]
  /\ UNCHANGED <<owner, back, db, pc, stop, local>>

PodBack(d) ==
  /\ pod[d] \in {"pending", "off"}
  /\ back[owner[d]] < MaxBack
  /\ pod' = [pod EXCEPT ![d] = "alive"]
  /\ back' = [back EXCEPT ![owner[d]] = @ + 1]
  /\ UNCHANGED <<owner, faults, db, pc, stop, local>>

-----------------------------------------------------------------------------
(* The calls of one process, and everything else.                          *)
Call(p) ==
  \/ ResolveGpu(p) \/ ResolveGpuFails(p) \/ Touch(p) \/ ListPods(p) \/ ListFails(p)
  \/ \E d \in Pods : LaunchOk(p, d) \/ LaunchLost(p, d)
  \/ NoCapacity(p) \/ LaunchRefused(p) \/ Record(p) \/ NextPass(p)

Ends(p) == EndThread(p) \/ \E d \in Pods : EndMidDeploy(p, d)

(* It leaves by itself after `finally: stop_rc.set()'.                     *)
Exit(p) == stop[p] /\ Ends(p)

RunPodStep == \E d \in Pods : PodOff(d) \/ PodGone(d) \/ PodBack(d)

Next == \/ \E p \in Procs : Start(p) \/ Call(p) \/ SetStop(p) \/ Exit(p)
        \/ RunPodStep

Spec == Init /\ [][Next]_vars

(* A started process keeps executing; RunPod answers every call.  Nothing  *)
(* makes RunPod or an operator act.                                        *)
FairSpec == Spec /\ \A p \in Procs : WF_vars(Call(p))

-----------------------------------------------------------------------------
(* No process ever holds more live pods, plus the launches its running     *)
(* pass still owes, than num_nodes, but for one pod each time RunPod       *)
(* brought one into view that a listing could not count.  It is what the   *)
(* re-fetch of an empty list is for.                                       *)
SlotBudget == \A p \in Procs :
  Cardinality(OwnAlive(p)) + left[p] <= NumNodes + back[p]

(* SlotBudget is not inductive by itself; these are what it needs.  A pod  *)
(* has its maker; only a pass between its decision and its last launch owes*)
(* launches, and what it records is a pod; and a listing that was once     *)
(* truly empty can be blind until its last attempt, but then the process   *)
(* has no pod it could overlook.                                           *)
OwnerKnown == \A d \in Pods : pod[d] # "none" => owner[d] \in Procs
OwesInPass == \A p \in Procs :
  /\ pc[p] \notin {"deploy", "record"} => left[p] = 0
  /\ pc[p] = "deploy" => left[p] > 0
  /\ pc[p] = "record" => last[p] \in Pods
BlindHarmless == \A p \in Procs :
  pc[p] = "list" /\ blind[p] < attempt[p] => Cardinality(OwnAlive(p)) <= back[p]
IndInv == TypeOK /\ OwnerKnown /\ OwesInPass /\ BlindHarmless /\ SlotBudget

(* Every call of every process is a step of the abstract replica set.      *)
RS == INSTANCE ReplicaSet WITH slots <- [p \in Procs |-> OwnAlive(p)], slack <- back
FillsFreeSlots == RS!RSSpec

Looping(p) == pc[p] \notin {"idle", "resolve", "done", "failed"}
Enough == Cardinality(Alive) >= NumNodes

(* A loop that got past its first call fills the cluster up again, however *)
(* passes fail, unless it is told to stop.                                 *)
Converges == \A p \in Loops : Looping(p) ~> (Enough \/ stop[p])

(* README: a serve process also runs the loop "so desired replica count    *)
(* stays enforced".                                                        *)
Serving(p) == pc[p] # "idle" /\ ~ stop[p]
StaysEnforced == \A p \in Loops : Serving(p) ~> (Enough \/ ~ Serving(p))
=============================================================================
