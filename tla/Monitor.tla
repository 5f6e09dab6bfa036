------------------------------- MODULE Monitor -------------------------------
(***************************************************************************)
(* One replica's container (managed_worker.py): the startup script, the    *)
(* monitor it starts, with its health loop and the threads that handle     *)
(* POST /quickpod/swap-run, and the workloads both start.                  *)
(*                                                                         *)
(* A workload is a shell, whose pid is written to a file, and the server   *)
(* it runs.  The server may be a child of the shell, or may have replaced  *)
(* it (bash executes a last simple command in place).  /workspace outlives *)
(* a restart of the container.                                             *)
(***************************************************************************)
EXTENDS Naturals, FiniteSets

CONSTANTS Runs,         \* workloads
          Swaps,        \* swap-run requests
          None,
          HealthOn,     \* the spec has a health command
          MaxRestarts   \* bound: restarts of the container

ASSUME MonitorAssumption ==
  /\ HealthOn \in BOOLEAN
  /\ MaxRestarts \in Nat
  /\ None \notin Runs \cup Swaps

VARIABLES
  secure,     \* resources.secure_mode of the cluster
  main,       \* where the startup script is
  first,      \* the workload it started
  monitor,    \* the monitor is up
  lifecycle,  \* quickpod-lifecycle.json
  verdict,    \* _health_state
  shell,      \* the shell of each workload
  server,     \* its server
  wrapped,    \* whether the server is a child of the shell
  text,       \* whose script it runs; None is the spec's run
  pidfile,    \* quickpod-workload.pid
  script,     \* quickpod-swap-run.sh: whose text it holds
  spc,        \* where each swap is
  old,        \* the workload it is killing
  new,        \* the one it has started
  killed,     \* a swap has killed the workload the script waits for
  overlap,    \* a swap was given during another, or before the first run
  missed,     \* the last swap to free the port left a server running
  restarts

files    == <<lifecycle, pidfile, script>>
work     == <<shell, server, wrapped, text>>
swaps    == <<spc, old, new, overlap, missed>>
vars == <<secure, main, first, monitor, verdict, files, work, swaps, killed, restarts>>

Main == {"boot", "monitor", "setup", "mark", "run", "pid", "wait", "ended"}
InFlight == {"term", "kill", "port", "write", "start", "pid"}
Swapped == {"ok", "error", "lost"}

MTypeOK ==
  /\ secure \in BOOLEAN
  /\ main \in Main
  /\ first \in Runs \cup {None}
  /\ monitor \in BOOLEAN
  /\ lifecycle \in {"none", "empty", "setup", "running"}
  /\ verdict \in {"never", "pass", "fail"}
  /\ shell \in [Runs -> {"none", "alive", "dead"}]
  /\ server \in [Runs -> {"none", "loading", "listening", "dead"}]
  /\ wrapped \in [Runs -> BOOLEAN]
  /\ text \in [Runs -> Swaps \cup {None}]
  /\ pidfile \in Runs \cup {None}
  /\ script \in Swaps \cup {None}
  /\ spc \in [Swaps -> {"idle"} \cup InFlight \cup Swapped]
  /\ old \in [Swaps -> Runs \cup {None}]
  /\ new \in [Swaps -> Runs \cup {None}]
  /\ killed \in BOOLEAN
  /\ overlap \in BOOLEAN
  /\ missed \in BOOLEAN
  /\ restarts \in 0 .. MaxRestarts

Init ==
  /\ secure \in BOOLEAN
  /\ main = "boot"
  /\ first = None
  /\ monitor = FALSE
  /\ lifecycle = "none"
  /\ verdict = "never"
  /\ shell = [w \in Runs |-> "none"]
  /\ server = [w \in Runs |-> "none"]
  /\ wrapped = [w \in Runs |-> FALSE]
  /\ text = [w \in Runs |-> None]
  /\ pidfile = None
  /\ script = None
  /\ spc = [s \in Swaps |-> "idle"]
  /\ old = [s \in Swaps |-> None]
  /\ new = [s \in Swaps |-> None]
  /\ killed = FALSE
  /\ overlap = FALSE
  /\ missed = FALSE
  /\ restarts = 0

-----------------------------------------------------------------------------
(* Workloads                                                               *)
NewRun(w) == LET unused == {v \in Runs : shell[v] = "none"}
             IN  unused # {} /\ w = CHOOSE v \in unused : TRUE

Launch(w, author) ==
  /\ NewRun(w)
  /\ shell' = [shell EXCEPT ![w] = "alive"]
  /\ server' = [server EXCEPT ![w] = "loading"]
  /\ \E b \in BOOLEAN : wrapped' = [wrapped EXCEPT ![w] = b]
  /\ text' = [text EXCEPT ![w] = author]

(* A shell that its server has replaced dies with it and takes it along.   *)
KillShell(w) ==
  /\ shell' = [shell EXCEPT ![w] = "dead"]
  /\ server' = [server EXCEPT ![w] = IF wrapped[w] THEN @ ELSE "dead"]

KillServers(W) ==
  /\ server' = [w \in Runs |-> IF w \in W THEN "dead" ELSE server[w]]
  /\ shell' = [w \in Runs |-> IF w \in W /\ ~ wrapped[w] THEN "dead" ELSE shell[w]]

Listening == {w \in Runs : server[w] = "listening"}
Up == {w \in Runs : server[w] \in {"loading", "listening"}}

(* The first to bind the port has it, another one's bind fails.            *)
Bind(w) ==
  /\ server[w] = "loading"
  /\ IF Listening = {}
     THEN server' = [server EXCEPT ![w] = "listening"] /\ UNCHANGED shell
     ELSE KillServers({w})
  /\ UNCHANGED <<main, first, monitor, verdict, files, wrapped, text, swaps, killed, restarts>>

Crash(w) ==
  /\ w \in Up
  /\ KillServers({w})
  /\ UNCHANGED <<main, first, monitor, verdict, files, wrapped, text, swaps, killed, restarts>>

(* A shell ends after the server it waits for.                             *)
ShellExits(w) ==
  /\ shell[w] = "alive" /\ server[w] = "dead"
  /\ shell' = [shell EXCEPT ![w] = "dead"]
  /\ UNCHANGED <<main, first, monitor, verdict, files, server, wrapped, text, swaps, killed, restarts>>

-----------------------------------------------------------------------------
(* The startup script                                                      *)
(* It marks the lifecycle before it starts the monitor.                    *)
Boot ==
  /\ main = "boot"
  /\ lifecycle' = "setup"
  /\ main' = "monitor"
  /\ UNCHANGED <<first, monitor, verdict, pidfile, script, work, swaps, killed, restarts>>

StartMonitor ==
  /\ main = "monitor"
  /\ monitor' = TRUE
  /\ verdict' = "never"
  /\ main' = "setup"
  /\ UNCHANGED <<first, files, work, swaps, killed, restarts>>

(* `cat > quickpod-lifecycle.json' empties the file before it writes it.   *)
SetupEnds ==
  /\ main = "setup"
  /\ lifecycle' = "empty"
  /\ main' = "mark"
  /\ UNCHANGED <<first, monitor, verdict, pidfile, script, work, swaps, killed, restarts>>

MarkRunning ==
  /\ main = "mark"
  /\ lifecycle' = "running"
  /\ main' = "run"
  /\ UNCHANGED <<first, monitor, verdict, pidfile, script, work, swaps, killed, restarts>>

StartRun(w) ==
  /\ main = "run"
  /\ Launch(w, None)
  /\ first' = w
  /\ main' = "pid"
  /\ UNCHANGED <<monitor, verdict, files, swaps, killed, restarts>>

WriteFirstPid ==
  /\ main = "pid"
  /\ pidfile' = first
  /\ main' = "wait"
  /\ UNCHANGED <<first, monitor, verdict, lifecycle, script, work, swaps, killed, restarts>>

(* All that runs in the container ends with it; /workspace stays.          *)
AllDie ==
  /\ monitor' = FALSE
  /\ first' = None
  /\ killed' = FALSE
  /\ overlap' = FALSE
  /\ missed' = FALSE
  /\ shell' = [w \in Runs |-> IF shell[w] = "alive" THEN "dead" ELSE shell[w]]
  /\ server' = [w \in Runs |-> IF server[w] = "none" THEN "none" ELSE "dead"]
  /\ spc' = [s \in Swaps |-> IF spc[s] \in InFlight THEN "lost" ELSE spc[s]]
  /\ old' = [s \in Swaps |-> None]
  /\ new' = [s \in Swaps |-> None]
  /\ UNCHANGED <<verdict, files, wrapped, text>>

(* The script ends when what it waits for does: the workload it started, or*)
(* in secure mode Caddy, which no swap stops (see Restart for its crash).  *)
(* Then, or when `set -e' ends it before the run, the container ends.      *)
ContainerEnds == main' = "ended" /\ AllDie /\ UNCHANGED restarts

WaitEnds ==
  /\ main = "wait"
  /\ ~ secure /\ shell[first] = "dead"
  /\ ContainerEnds

SetupFails == main \in {"monitor", "setup"} /\ ContainerEnds

(* RunPod starts the container again, after it ended, was cut off, or lost *)
(* Caddy.                                                                  *)
Restart ==
  /\ restarts < MaxRestarts
  /\ restarts' = restarts + 1
  /\ main' = "boot"
  /\ AllDie

-----------------------------------------------------------------------------
(* _health_loop: the outcome of one probe is stored.  The health command is*)
(* any shell command: something that setup runs may answer it, and what it *)
(* said may be no longer so when it is stored.                             *)
Probe(result) ==
  /\ HealthOn /\ monitor
  /\ verdict' = result
  /\ UNCHANGED <<main, first, monitor, files, work, swaps, killed, restarts>>

(* _read_lifecycle_phase and _aggregate_status                             *)
MutAggregate ==
  CASE HealthOn /\ verdict # "never" -> IF verdict = "pass" THEN "healthy" ELSE "unhealthy"
    [] lifecycle = "setup" -> "setting_up"
    [] OTHER -> "running"
AggregateStatus ==
  CASE lifecycle = "setup" -> "setting_up"
    [] lifecycle # "setup" /\ ~ HealthOn -> IF lifecycle = "running" THEN "running" ELSE "unknown"
    [] lifecycle # "setup" /\ HealthOn ->
         CASE verdict = "never" -> "running"
           [] verdict = "pass" -> "healthy"
           [] verdict = "fail" -> "unhealthy"

-----------------------------------------------------------------------------
(* _perform_swap_run                                                       *)
Goto(s, where) == spc' = [spc EXCEPT ![s] = where]
Busy == \E s \in Swaps : spc[s] \in InFlight

NewSwap(s) == LET unused == {t \in Swaps : spc[t] = "idle"}
              IN  unused # {} /\ s = CHOOSE t \in unused : TRUE

Post(s) ==
  /\ monitor
  /\ NewSwap(s)
  /\ Goto(s, "term")
  /\ overlap' = (overlap \/ Busy \/ main # "wait")
  /\ UNCHANGED <<main, first, monitor, verdict, files, work, old, new, missed, killed, restarts>>

(* SIGTERM to the pid in the file; it may be caught, or come too late.     *)
Term(s) ==
  /\ spc[s] = "term"
  /\ old' = [old EXCEPT ![s] = pidfile]
  /\ IF pidfile = None \/ shell[pidfile] # "alive"
     THEN UNCHANGED <<shell, server, killed>>
     ELSE \/ KillShell(pidfile) /\ killed' = (killed \/ pidfile = first)
          \/ UNCHANGED <<shell, server, killed>>
  /\ Goto(s, IF pidfile = None THEN "port" ELSE "kill")
  /\ UNCHANGED <<main, first, monitor, verdict, files, wrapped, text, new, overlap, missed, restarts>>

MutKill(s) ==
  /\ spc[s] = "kill"
  /\ old' = [old EXCEPT ![s] = None]
  /\ Goto(s, "port")
  /\ UNCHANGED <<main, first, monitor, verdict, files, work, new, overlap, missed, killed, restarts>>
(* 0.85 s later, SIGKILL if it is still there                              *)
Kill(s) ==
  /\ spc[s] = "kill"
  /\ IF shell[old[s]] = "alive"
     THEN KillShell(old[s]) /\ killed' = (killed \/ old[s] = first)
     ELSE UNCHANGED <<shell, server, killed>>
  /\ old' = [old EXCEPT ![s] = None]
  /\ Goto(s, "port")
  /\ UNCHANGED <<main, first, monitor, verdict, files, wrapped, text, new, overlap, missed, restarts>>

(* _kill_workload_on_loopback_api: who listens on port 18000, by fuser or  *)
(* `ss'.  Nothing is killed when `ss' is missing, fails or lists nobody on *)
(* 127.0.0.1, nor when the server listens elsewhere, as it may in plain    *)
(* mode; the swap goes on all the same.                                    *)
FreePort(s) ==
  /\ spc[s] = "port"
  /\ \E W \in {{}, Listening} : KillServers(W)
  /\ missed' = (Up' # {})
  /\ Goto(s, "write")
  /\ UNCHANGED <<main, first, monitor, verdict, files, wrapped, text, old, new, overlap, killed, restarts>>

(* fuser does not end in time: the old workload is dead, no new one comes. *)
FreePortFails(s) ==
  /\ spc[s] = "port"
  /\ Goto(s, "error")
  /\ UNCHANGED <<main, first, monitor, verdict, files, work, old, new, overlap, missed, killed, restarts>>

WriteScript(s) ==
  /\ spc[s] = "write"
  /\ script' = s
  /\ Goto(s, "start")
  /\ UNCHANGED <<main, first, monitor, verdict, lifecycle, pidfile, work, old, new, overlap, missed, killed, restarts>>

(* Popen runs the file, whoever wrote it last.                             *)
StartSwapped(s, w) ==
  /\ spc[s] = "start"
  /\ Launch(w, script)
  /\ new' = [new EXCEPT ![s] = w]
  /\ Goto(s, "pid")
  /\ UNCHANGED <<main, first, monitor, verdict, files, old, overlap, missed, killed, restarts>>

MutWritePid(s) ==
  /\ spc[s] = "pid"
  /\ pidfile' = s
  /\ new' = [new EXCEPT ![s] = None]
  /\ Goto(s, "ok")
  /\ UNCHANGED <<main, first, monitor, verdict, lifecycle, script, work, old, overlap, missed, killed, restarts>>
WritePid(s) ==
  /\ spc[s] = "pid"
  /\ pidfile' = new[s]
  /\ new' = [new EXCEPT ![s] = None]
  /\ Goto(s, "ok")
  /\ UNCHANGED <<main, first, monitor, verdict, lifecycle, script, work, old, overlap, missed, killed, restarts>>

-----------------------------------------------------------------------------
Script ==
  \/ Boot \/ StartMonitor \/ SetupEnds \/ SetupFails \/ MarkRunning
  \/ \E w \in Runs : StartRun(w)
  \/ WriteFirstPid \/ WaitEnds

Swap(s) ==
  \/ Post(s) \/ Term(s) \/ Kill(s) \/ FreePort(s) \/ FreePortFails(s) \/ WriteScript(s)
  \/ \E w \in Runs : StartSwapped(s, w)
  \/ WritePid(s)

Workload(w) == Bind(w) \/ Crash(w) \/ ShellExits(w)

Next ==
  /\ \/ Script \/ Restart
     \/ \E s \in Swaps : Swap(s)
     \/ \E w \in Runs : Workload(w)
     \/ \E result \in {"pass", "fail"} : Probe(result)
  /\ UNCHANGED secure

Spec == Init /\ [][Next]_vars

-----------------------------------------------------------------------------
Allows(st) == st \notin {"unhealthy", "setting_up"}

(* However often the container was restarted, with the files and workloads *)
(* of its last life in /workspace, and whatever a probe or a swap does     *)
(* meanwhile, a replica takes no traffic before its setup is done.         *)
NoTrafficInSetup == monitor /\ Allows(AggregateStatus) => main \notin {"monitor", "setup"}

(* Swaps given one at a time, to a workload the script has started, leave  *)
(* one shell: the file names it, and it runs what the last swap brought.   *)
(* And once a swap has left no server running when it freed the port, the  *)
(* server that runs is of that shell, or of the swap's own workload.       *)
OneWorkload == main = "wait" /\ ~ overlap /\ ~ Busy => \A w \in Runs :
  /\ shell[w] = "alive" => pidfile = w /\ (text[w] = script \/ w = first)
  /\ ~ missed /\ w \in Up => pidfile = w

(* post_replica_swap_run: the swap is "to kill the current run process and *)
(* start a new script": whoever serves after it is what it started.        *)
SwapReplaces == main = "wait" /\ ~ overlap /\ ~ Busy =>
  \A w \in Listening : pidfile = w

(* refresh_cluster_run_swap: the run is pushed to workers with "no         *)
(* reprovision"; the container lives through it.                           *)
SwapKeepsContainer ==
  [][main # "ended" /\ main' = "ended" => ~ killed]_vars
=============================================================================
