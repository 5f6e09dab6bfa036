--------------------------- MODULE ServeLifecycle ---------------------------
(***************************************************************************)
(* serve_daemon_mgmt.py and its callers (the CLI, the hub, the cluster UI):*)
(* commands that start, stop, remove and refresh the serve daemon of one   *)
(* cluster, while the daemons' reconcile loops (Reconciler) keep running.  *)
(*                                                                         *)
(* A command is a OneShot of Reconciler: start_serve_daemon makes its own  *)
(* reconcile pass.  A daemon is a Loop, and its pid is its name.  A command*)
(* served by a daemon (POST /api/cluster/stop) dies with its host.         *)
(* `train' shares the steps that terminate, pass and stop; its own are in  *)
(* Train.                                                                  *)
(***************************************************************************)
EXTENDS Reconciler

CONSTANTS Kinds,       \* the commands operators give
          Sequential   \* no command is given while another one runs

Cmds == OneShots

ASSUME LifecycleAssumption ==
  /\ Kinds \subseteq {"start", "stop", "remove", "refresh", "foreground", "train"}
  /\ Sequential \in BOOLEAN
  /\ Pids = Loops

VARIABLES
  kind,   \* what each command is
  cpc,    \* where it is
  host,   \* the daemon that serves the command, if one does
  child,  \* the daemon the command is stopping, or has spawned
  todo    \* pods it has listed and not yet terminated

cmdVars == <<kind, cpc, host, child, todo>>
allVars == <<vars, cmdVars>>

Ended == {"ok", "error"}
CPC == {"idle", "list", "terminate", "delete", "daemon", "kill", "unrow", "check",
        "prefs", "pass", "spawn", "poll", "register"} \cup Ended
       \cup {"train", "wait", "export", "fetch"}

(* pid_alive, for the pids of daemons                                      *)
PidAlive(p) == pc[p] \notin {"idle", "done"}
Lives(c) == host[c] # None => PidAlive(host[c])
Active(c) == cpc[c] \notin {"idle"} \cup Ended /\ Lives(c)

LTypeOK ==
  /\ TypeOK
  /\ kind \in [Cmds -> Kinds \cup {None}]
  /\ cpc \in [Cmds -> CPC]
  /\ host \in [Cmds -> Loops \cup {None}]
  /\ child \in [Cmds -> Loops \cup {None}]
  /\ todo \in [Cmds -> SUBSET Pods]

LInit ==
  /\ Init
  /\ kind = [c \in Cmds |-> None]
  /\ cpc = [c \in Cmds |-> "idle"]
  /\ host = [c \in Cmds |-> None]
  /\ child = [c \in Cmds |-> None]
  /\ todo = [c \in Cmds |-> {}]

-----------------------------------------------------------------------------
At(c, where) == cpc[c] = where /\ Lives(c)
Goto(c, where) == cpc' = [cpc EXCEPT ![c] = where]

First(k) ==
  CASE k = "start" -> "check" [] k = "foreground" -> "prefs"
    [] k = "train" -> "train" [] OTHER -> "list"

(* Commands are taken in a fixed order; their names are immaterial.        *)
NewCmd(c) == LET unused == {o \in Cmds : cpc[o] = "idle"}
             IN  unused # {} /\ c = CHOOSE o \in unused : TRUE

(* The UI of a daemon offers stop alone; every other command runs in a     *)
(* process of its own.  Refresh needs a saved spec path.                   *)
Invoke(c, k, h) ==
  /\ NewCmd(c)
  /\ Sequential => \A o \in Cmds : ~ Active(o)
  /\ h # None => k = "stop" /\ PidAlive(h) /\ ~ stop[h]
  /\ k = "refresh" => db.cluster \/ db.prefs
  /\ kind' = [kind EXCEPT ![c] = k]
  /\ host' = [host EXCEPT ![c] = h]
  /\ Goto(c, First(k))
  /\ UNCHANGED <<vars, child, todo>>

MutListToTerminate(c) ==
  /\ At(c, "list")
  /\ \E seen \in Answers(c) :
       /\ Glimpse(c, seen)
       /\ todo' = [todo EXCEPT ![c] = seen]
  /\ Goto(c, "terminate")
  /\ UNCHANGED <<world, faults, db, pc, stop, attempt, left, zone, last, kind, host, child>>

(* terminate_managed_pods: list with list_managed_pods, then one call each *)
ListToTerminate(c) ==
  /\ At(c, "list")
  /\ \E seen \in Answers(c) :
       /\ Glimpse(c, seen)
       /\ IF Refetch(c, seen)
          THEN attempt' = [attempt EXCEPT ![c] = @ + 1] /\ UNCHANGED <<cpc, todo>>
          ELSE /\ todo' = [todo EXCEPT ![c] = seen]
               /\ Goto(c, "terminate")
               /\ UNCHANGED attempt
  /\ UNCHANGED <<world, faults, db, pc, stop, left, zone, last, kind, host, child>>

Terminate(c, d) ==
  /\ At(c, "terminate")
  /\ d \in todo[c]
  /\ pod' = [pod EXCEPT ![d] = "gone"]
  /\ todo' = [todo EXCEPT ![c] = @ \ {d}]
  /\ UNCHANGED <<owner, back, faults, db, pc, stop, local, kind, cpc, host, child>>

MutTerminateFails(c) ==
  /\ At(c, "terminate") \/ At(c, "list")
  /\ Fault
  /\ Goto(c, "daemon")
  /\ UNCHANGED <<world, db, pc, stop, local, kind, host, child, todo>>
(* One refusal leaves the rest alive and the daemon running.               *)
TerminateFails(c) ==
  /\ At(c, "terminate") \/ At(c, "list")
  /\ Fault
  /\ Goto(c, "error")
  /\ UNCHANGED <<world, db, pc, stop, local, kind, host, child, todo>>

(* train --clean-start terminates pods and deletes the row before its pass;*)
(* every train stops the daemon before it deletes the row when it is done. *)
Cleaning(c) == kind[c] = "train" /\ pc[c] = "touch"

AllTerminated(c) ==
  /\ At(c, "terminate")
  /\ todo[c] = {}
  /\ Goto(c, IF kind[c] = "remove" \/ Cleaning(c) THEN "delete" ELSE "daemon")
  /\ UNCHANGED <<vars, kind, host, child, todo>>

AfterDelete(c) ==
  CASE Cleaning(c) -> "pass"
    [] kind[c] = "train" /\ ~ Cleaning(c) -> "ok"
    [] kind[c] # "train" -> "daemon"

(* Its callers log or swallow a failure of the store here.                 *)
DeleteCluster(c) ==
  /\ At(c, "delete")
  /\ \/ db' = DeleteClusterRecord(db) /\ UNCHANGED faults
     \/ Fault /\ UNCHANGED db
  /\ Goto(c, AfterDelete(c))
  /\ UNCHANGED <<world, pc, stop, local, kind, host, child, todo>>

AfterStop(c) ==
  CASE kind[c] = "refresh" -> "check" [] kind[c] = "train" -> "delete" [] OTHER -> "ok"

(* stop_local_serve_daemon: the row's pid gets SIGTERM, if there is a row  *)
NoDaemonRow(c) ==
  /\ At(c, "daemon")
  /\ db.daemon = None
  /\ Goto(c, AfterStop(c))
  /\ UNCHANGED <<vars, kind, host, child, todo>>

MutSigTerm(c) ==
  /\ At(c, "daemon")
  /\ db.daemon # None
  /\ child' = [child EXCEPT ![c] = db.daemon]
  /\ Goto(c, "unrow")
  /\ UNCHANGED <<vars, kind, host, todo>>

(* The signal ends uvicorn, and then run_serve sets stop_rc (SetStop).     *)
SigTerm(c) ==
  /\ At(c, "daemon")
  /\ db.daemon # None
  /\ child' = [child EXCEPT ![c] = db.daemon]
  /\ Goto(c, "kill")
  /\ UNCHANGED <<vars, kind, host, todo>>

(* terminate_pid polls until the pid is gone ...                           *)
DaemonGone(c) ==
  /\ At(c, "kill")
  /\ ~ PidAlive(child[c])
  /\ Goto(c, "unrow")
  /\ UNCHANGED <<vars, kind, host, child, todo>>

MutSigKill(c) == FALSE /\ UNCHANGED allVars
(* ... or kills it when the grace time is over.                            *)
SigKill(c) ==
  /\ At(c, "kill")
  /\ PidAlive(child[c])
  /\ Ends(child[c])
  /\ Goto(c, "unrow")
  /\ UNCHANGED <<kind, host, child, todo>>

DeleteDaemonRow(c) ==
  /\ At(c, "unrow")
  /\ db' = DeleteServeDaemon(db)
  /\ Goto(c, AfterStop(c))
  /\ UNCHANGED <<world, faults, pc, stop, local, kind, host, child, todo>>

-----------------------------------------------------------------------------
(* start_serve_daemon                                                      *)
MutCheckRow(c) ==
  /\ At(c, "check")
  /\ db' = DeleteServeDaemon(db)
  /\ pc' = [pc EXCEPT ![c] = "resolve"]
  /\ Goto(c, "pass")
  /\ UNCHANGED <<world, faults, stop, local, kind, host, child, todo>>

CheckRow(c) ==
  /\ At(c, "check")
  /\ db.daemon # None => ~ PidAlive(db.daemon)
  /\ db' = DeleteServeDaemon(db)
  /\ pc' = [pc EXCEPT ![c] = "resolve"]
  /\ Goto(c, "pass")
  /\ UNCHANGED <<world, faults, stop, local, kind, host, child, todo>>

(* The stale row is gone before the port turns out to be taken.            *)
PortBusy(c) ==
  /\ At(c, "check")
  /\ db.daemon # None => ~ PidAlive(db.daemon)
  /\ db' = DeleteServeDaemon(db)
  /\ Goto(c, "error")
  /\ UNCHANGED <<world, faults, pc, stop, local, kind, host, child, todo>>

AlreadyRunning(c) ==
  /\ At(c, "check")
  /\ db.daemon # None /\ PidAlive(db.daemon)
  /\ Goto(c, "error")
  /\ UNCHANGED <<vars, kind, host, child, todo>>

(* `serve --foreground' writes its preferences first, and then reconciles. *)
ForegroundPrefs(c) ==
  /\ At(c, "prefs")
  /\ kind[c] = "foreground"
  /\ IF AcceptsChild(db)
     THEN /\ db' = UpsertServeLaunchPrefs(db)
          /\ pc' = [pc EXCEPT ![c] = "resolve"]
          /\ Goto(c, "pass")
     ELSE Goto(c, "error") /\ UNCHANGED <<db, pc>>
  /\ UNCHANGED <<world, faults, stop, local, kind, host, child, todo>>

PassCall(c) == At(c, "pass") /\ Call(c) /\ UNCHANGED cmdVars

PassEnds(c) ==
  /\ At(c, "pass")
  /\ kind[c] # "train"
  /\ pc[c] \in {"done", "failed"}
  /\ Goto(c, IF pc[c] = "done" THEN "spawn" ELSE "error")
  /\ UNCHANGED <<vars, kind, host, child, todo>>

NewPid(p) == LET free == {q \in Loops : pc[q] = "idle"}
             IN  free # {} /\ p = CHOOSE q \in free : TRUE

(* Popen of serve_child, or run_serve in the command's own process.        *)
Spawn(c, p) ==
  /\ At(c, "spawn")
  /\ NewPid(p)
  /\ Start(p)
  /\ child' = [child EXCEPT ![c] = p]
  /\ Goto(c, IF kind[c] = "foreground" THEN "ok" ELSE "poll")
  /\ UNCHANGED <<kind, host, todo>>

(* proc.poll() 0.9 s later                                                 *)
Poll(c) ==
  /\ At(c, "poll")
  /\ Goto(c, IF PidAlive(child[c]) THEN "register" ELSE "error")
  /\ UNCHANGED <<vars, kind, host, child, todo>>

Register(c) ==
  /\ At(c, "register")
  /\ IF AcceptsChild(db)
     THEN db' = RegisterServeDaemon(db, child[c]) /\ Goto(c, "prefs")
     ELSE Goto(c, "error") /\ UNCHANGED db
  /\ UNCHANGED <<world, faults, pc, stop, local, kind, host, child, todo>>

SavePrefs(c) ==
  /\ At(c, "prefs")
  /\ kind[c] # "foreground"
  /\ db' = UpsertServeLaunchPrefs(db)
  /\ Goto(c, IF AcceptsChild(db) THEN "ok" ELSE "error")
  /\ UNCHANGED <<world, faults, pc, stop, local, kind, host, child, todo>>

(* An exception of the store leaves the command where it is: half done.    *)
StoreFails(c) ==
  /\ \E where \in {"daemon", "unrow", "check", "register", "prefs"} : At(c, where)
  /\ Fault
  /\ Goto(c, "error")
  /\ UNCHANGED <<world, db, pc, stop, local, kind, host, child, todo>>

-----------------------------------------------------------------------------
StopStep(c) ==
  \/ ListToTerminate(c) \/ \E d \in Pods : Terminate(c, d)
  \/ TerminateFails(c) \/ AllTerminated(c) \/ DeleteCluster(c)
  \/ NoDaemonRow(c) \/ SigTerm(c) \/ DaemonGone(c) \/ SigKill(c) \/ DeleteDaemonRow(c)

StartStep(c) ==
  \/ CheckRow(c) \/ PortBusy(c) \/ AlreadyRunning(c) \/ ForegroundPrefs(c)
  \/ PassCall(c) \/ PassEnds(c) \/ \E p \in Loops : Spawn(c, p)
  \/ Poll(c) \/ Register(c) \/ SavePrefs(c)

CmdStep(c) == StopStep(c) \/ StartStep(c) \/ StoreFails(c)

DaemonStep(p) == (Call(p) \/ SetStop(p) \/ Exit(p)) /\ UNCHANGED cmdVars

LNext ==
  \/ \E c \in Cmds, k \in Kinds, h \in Loops \cup {None} : Invoke(c, k, h)
  \/ \E c \in Cmds : CmdStep(c)
  \/ \E p \in Loops : DaemonStep(p)
  \/ RunPodStep /\ UNCHANGED cmdVars

LSpec == LInit /\ [][LNext]_allVars

(* Commands and daemons keep executing; nobody is obliged to give a        *)
(* command, and a daemon that got SIGTERM need not exit by itself.         *)
LFairSpec == /\ LSpec
             /\ \A c \in Cmds : WF_allVars(CmdStep(c))
             /\ \A p \in Loops : WF_allVars(Call(p) /\ UNCHANGED cmdVars)

-----------------------------------------------------------------------------
(* A daemon that runs and is not the registered one (nobody can stop it)   *)
(* is on its way into or out of the row, or was left behind by a start     *)
(* that failed after Popen.  Not so for `serve --foreground', which is     *)
(* never registered, nor when starts overlap.                              *)
Stray(p) == PidAlive(p) /\ db.daemon # p
NoStrayDaemon == \A p \in Loops : Stray(p) =>
  \E c \in Cmds : child[c] = p /\ cpc[c] \in {"poll", "register", "error"}

(* However often a cluster is stopped, removed, refreshed and started again*)
(* it has no surplus pod, but for those that RunPod brought into view late *)
(* and those of a daemon that a failed start left behind.                  *)
LeftBehind(c) == cpc[c] = "error" /\ child[c] # None
Comebacks == UNION {{p} \X (1 .. back[p]) : p \in Procs}
NoSurplus ==
  \/ \E c \in Cmds : LeftBehind(c)
  \/ Cardinality(Alive) <= NumNodes + Cardinality(Comebacks)

(* Every command comes to an end (or dies with the daemon that serves it). *)
CommandsEnd == \A c \in Cmds : Active(c) ~> ~ Active(c)

Completes(c, k) == kind[c] = k /\ cpc[c] # "ok" /\ cpc'[c] = "ok"

(* A stop, remove or refresh that completes has ended every pod of the     *)
(* commands before it; no refused or unanswered call passes for done.  What*)
(* is alive it launched itself, or a daemon did, or came into view late.   *)
OldPodsGone ==
  [][\A c \in Cmds, k \in {"stop", "remove", "refresh"} : Completes(c, k) =>
        \A d \in Alive' : owner[d] \in Loops \cup {c} \/ back[owner[d]] > 0]_allVars

(* A stop or remove that completes has ended the cluster's daemon, whatever*)
(* failed or was cut off before; only one that a failed start left         *)
(* unregistered can outlive it.                                            *)
StopEndsDaemon ==
  [][\A c \in Cmds, k \in {"stop", "remove"} : Completes(c, k) =>
        \A p \in Loops : PidAlive(p)' =>
           \E o \in Cmds : child[o] = p /\ LeftBehind(o)]_allVars

(* README, `clusters stop': "Stop local proxy + terminate RunPod pods".    *)
StopLeavesNoPod ==
  [][\A c \in Cmds : Completes(c, "stop") => Alive' = {}]_allVars

(* README, `clusters remove': "Same as stop + delete cluster row".         *)
RemoveStopsDaemon ==
  [][\A c \in Cmds : Completes(c, "remove") =>
        \A p \in Loops : ~ PidAlive(p)']_allVars
=============================================================================
