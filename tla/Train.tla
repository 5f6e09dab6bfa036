-------------------------------- MODULE Train --------------------------------
(***************************************************************************)
(* run_train (train_runner.py): reconcile once, wait until enough replicas *)
(* run, poll the first one for its export, download every replica's, then  *)
(* tear the cluster down; beside the daemon and the commands of the same   *)
(* cluster (ServeLifecycle, whose terminate, stop and delete steps it      *)
(* takes).                                                                 *)
(*                                                                         *)
(* A replica's run writes its archive in place: the file exists, and is    *)
(* served, before it is complete.                                          *)
(***************************************************************************)
EXTENDS ServeLifecycle

VARIABLES
  running,  \* the replicas a train waits for
  primary,  \* the first of them
  export,   \* quickpod-train-export.tar.gz of each pod
  disk      \* what was extracted from each pod under train.local_dir

trainVars == <<running, primary, export, disk>>

Archive == {"none", "partial", "complete"}

TrTypeOK ==
  /\ LTypeOK
  /\ running \in [Cmds -> SUBSET Pods]
  /\ primary \in [Cmds -> Pods \cup {None}]
  /\ export \in [Pods -> Archive]
  /\ disk \in [Pods -> Archive]

TrInit ==
  /\ LInit
  /\ running = [c \in Cmds |-> {}]
  /\ primary = [c \in Cmds |-> None]
  /\ export = [d \in Pods |-> "none"]
  /\ disk = [d \in Pods |-> "none"]

-----------------------------------------------------------------------------
(* The GPU type is resolved before --clean-start terminates anything.      *)
Resolve(c) ==
  /\ At(c, "train")
  /\ \E cleanStart \in BOOLEAN : Goto(c, IF cleanStart THEN "list" ELSE "pass")
  /\ pc' = [pc EXCEPT ![c] = "touch"]
  /\ UNCHANGED <<world, faults, db, stop, local, kind, host, child, todo, trainVars>>

(* RunPod's API raises where nobody catches it (in a poll or a download, a *)
(* pod without an endpoint is listed again).                               *)
CallFails(c) ==
  /\ \E where \in {"train", "wait", "export", "fetch"} : At(c, where)
  /\ Fault
  /\ Goto(c, "error")
  /\ UNCHANGED <<world, db, pc, stop, local, kind, host, child, todo, trainVars>>

(* A listing begins with its first attempt.                                *)
FreshListing(c) ==
  /\ attempt' = [attempt EXCEPT ![c] = 0]
  /\ blind' = [blind EXCEPT ![c] = 0]

Reconciled(c) ==
  /\ At(c, "pass")
  /\ kind[c] = "train"
  /\ pc[c] \in {"done", "failed"}
  /\ Goto(c, IF pc[c] = "done" THEN "wait" ELSE "error")
  /\ FreshListing(c)
  /\ UNCHANGED <<world, faults, db, pc, stop, left, zone, last, kind, host, child, todo, trainVars>>

(* One more attempt of a listing                                           *)
AskAgain(c) ==
  /\ At(c, "wait")
  /\ \E seen \in Answers(c) :
       /\ Refetch(c, seen)
       /\ Glimpse(c, seen)
  /\ attempt' = [attempt EXCEPT ![c] = @ + 1]
  /\ UNCHANGED <<world, faults, db, pc, stop, left, zone, last, cmdVars, trainVars>>

(* An alive pod may not be RUNNING yet, so there may always be too few.    *)
TooFew(c) ==
  /\ At(c, "wait")
  /\ \E seen \in Answers(c) : ~ Refetch(c, seen)
  /\ FreshListing(c)
  /\ UNCHANGED <<world, faults, db, pc, stop, left, zone, last, cmdVars, trainVars>>

Enlisted(c, up) ==
  /\ At(c, "wait")
  /\ \E seen \in Answers(c) : ~ Refetch(c, seen) /\ up \subseteq seen \cap Alive
  /\ Cardinality(up) >= NumNodes
  /\ running' = [running EXCEPT ![c] = up]
  /\ \E d \in up : primary' = [primary EXCEPT ![c] = d]
  /\ todo' = [todo EXCEPT ![c] = up]
  /\ FreshListing(c)
  /\ Goto(c, "export")
  /\ UNCHANGED <<world, faults, db, pc, stop, left, zone, last, kind, host, child, export, disk>>

(* worker_wait_sec or export_timeout_sec are over: the pods stay.          *)
TimesOut(c) ==
  /\ \/ At(c, "wait") /\ attempt[c] = 0
     \/ At(c, "export")
  /\ Goto(c, "error")
  /\ UNCHANGED <<vars, kind, host, child, todo, trainVars>>

Serves(d) == pod[d] = "alive" /\ export[d] # "none"

(* replica_train_export_ready: HEAD answers 200 once there is a file.      *)
ExportReady(c) ==
  /\ At(c, "export")
  /\ Serves(primary[c])
  /\ Goto(c, "fetch")
  /\ UNCHANGED <<vars, kind, host, child, todo, trainVars>>

(* The downloads take the list in order; one is over before the next.      *)
NextFetch(c, d) ==
  /\ At(c, "fetch")
  /\ d \in todo[c]
  /\ primary[c] \in todo[c] => d = primary[c]

(* What is extracted stays, even when tarfile raises at the end of an      *)
(* incomplete archive.                                                     *)
Extract(c, d) ==
  /\ disk' = [disk EXCEPT ![d] = export[d]]
  /\ todo' = [todo EXCEPT ![c] = @ \ {d}]
  /\ UNCHANGED <<vars, kind, host, child, running, primary, export>>

MutFetch(c, d) ==
  /\ NextFetch(c, d)
  /\ Serves(d)
  /\ Extract(c, d)
  /\ UNCHANGED cpc
Fetch(c, d) ==
  /\ NextFetch(c, d)
  /\ Serves(d)
  /\ Extract(c, d)
  /\ IF export[d] = "complete" THEN UNCHANGED cpc ELSE Goto(c, "error")

(* 404, or the pod cannot be reached.                                      *)
FetchRefused(c, d) ==
  /\ NextFetch(c, d)
  /\ ~ Serves(d)
  /\ Goto(c, "error")
  /\ UNCHANGED <<vars, kind, host, child, todo, trainVars>>

TearDown(c) ==
  /\ At(c, "fetch")
  /\ todo[c] = {}
  /\ Goto(c, "list")
  /\ UNCHANGED <<vars, kind, host, child, todo, trainVars>>

-----------------------------------------------------------------------------
(* The user's run                                                          *)
Writes(d, what) ==
  /\ pod[d] = "alive"
  /\ <<export[d], what>> \in {<<"none", "partial">>, <<"partial", "complete">>}
  /\ export' = [export EXCEPT ![d] = what]
  /\ UNCHANGED <<allVars, running, primary, disk>>

TrainStep(c) ==
  \/ Resolve(c) \/ CallFails(c) \/ Reconciled(c)
  \/ AskAgain(c) \/ TooFew(c) \/ \E up \in SUBSET Pods : Enlisted(c, up)
  \/ TimesOut(c) \/ ExportReady(c)
  \/ \E d \in Pods : Fetch(c, d) \/ FetchRefused(c, d)
  \/ TearDown(c)

TrNext ==
  \/ LNext /\ UNCHANGED trainVars
  \/ \E c \in Cmds : TrainStep(c)
  \/ \E d \in Pods, what \in Archive : Writes(d, what)

TrSpec == TrInit /\ [][TrNext]_<<allVars, trainVars>>

-----------------------------------------------------------------------------
(* Only the first replica is polled, so the others may be half done when   *)
(* the downloads begin.  Still no train that tears its cluster down, and so*)
(* terminates the replicas it waited for, leaves one of them behind without*)
(* its complete archive on this machine: run_train raises first.           *)
Finishing(c) == kind[c] = "train" /\ pc[c] = "done" /\ cpc[c] \in
  {"list", "terminate", "daemon", "kill", "unrow", "delete", "ok"}
CheckpointsKept == \A c \in Cmds : Finishing(c) =>
  \A d \in running[c] : disk[d] = "complete"

(* "Train complete. ... removed from local store": no daemon of the cluster*)
(* outlives a train that completes, whatever was started and cleaned       *)
(* before, except one that a failed start left unregistered.               *)
TrainStopsDaemon ==
  [][\A c \in Cmds : Completes(c, "train") =>
        \A p \in Loops : PidAlive(p)' =>
           \E o \in Cmds : child[o] = p /\ LeftBehind(o)]_allVars

(* "... RunPod pods terminated", false answers of RunPod notwithstanding:  *)
(* what still runs then came into view late, or a daemon launched it while *)
(* the train was tearing down.                                             *)
OnlyStragglers ==
  [][\A c \in Cmds : Completes(c, "train") =>
        \A d \in Alive' : back[owner[d]] > 0 \/ owner[d] \in Loops]_allVars
=============================================================================
