# quickpod, formally

TLA+ models of the parts of quickpod that keep state or run concurrently, the
TLC runs that check them on small instances, and TLAPS proofs of the properties
that matter most for every value of the constants.

quickpod keeps a set of RunPod GPU pods per cluster at a desired size, serves a
proxy and a dashboard for them, and stops or removes them on command. Every
process of it (the CLI, a detached `serve` daemon, the hub UI, a training run)
talks to RunPod on its own. There is no lock between processes; they meet only
in RunPod's account and in a small SQL store. What is hard about quickpod is
therefore what two of these processes do to each other, what RunPod's answers
leave open, and in which order a command does its steps.

## Inventory

| part (source) | state it keeps | operations | hard behaviour | correct when |
|---|---|---|---|---|
| **Reconciler** (`reconciler.py`, `runpod_client.py`, `graphql_pod.py`) | none of its own; each pass has its loop variables; RunPod has the pods | `reconcile_once`, `run_loop_until`, `list_managed_pods`, `count_alive_nodes`, `launch_one_node` | several passes of several processes at once; false empty listings; lost answers of the deploy call; pods that stop counting and come back; one launch of several failing | no process exceeds its `num_nodes` slots; a started loop refills the cluster |
| **Cluster store** (`cluster_store.py`) | rows of `clusters`, `pod_launches`, `serve_daemons`, `serve_launch_prefs` | upsert, record, register, delete | foreign keys and cascades differ between SQLite and PostgreSQL; callers swallow some failures | a row never says less than what runs |
| **Serve lifecycle** (`serve_daemon_mgmt.py`, `serve_runner.py`, `serve_child.py`, and its callers in `__main__.py`, `hub_app.py`, `web_app.py`) | the daemon's row, processes, their reconcile threads | start, stop, remove, refresh, `serve --foreground` | order of terminating pods and stopping the daemon that relaunches them; SIGTERM, grace time, SIGKILL; failure between Popen and registration; a command that kills the process serving it; overlapping commands | a stopped cluster has no pods and no daemon; no daemon runs unregistered; commands end |
| **Worker pool and /v1 proxy** (`worker_pool.py`, `web_app.py`) | verdict cache with its TTL, round-robin index | list ready workers, pick, forward | request threads read and fill one cache; a fetch outlives its time stamp; pods appear between two listings of a request | a request is routed by a verdict no older than the TTL; picks take turns |
| **Managed worker** (`managed_worker.py`: container script, monitor) | lifecycle file, health verdict, workload pid file | setup, run, health loop, status, swap-run, export | two swaps at once; the shell that waits for the workload a swap kills; verdicts of a previous workload | one workload runs; status tells the truth about it |
| **Train runner** (`train_runner.py`) | deadlines, the list of pods it waits for | reconcile once, wait, poll, download, tear down | only one pod is polled; a download fails; a daemon refills what was torn down | no checkpoint is lost, no pod is left |
| **Replica monitor client** (`runpod_client.py`, called from `web_app.py`, `hub_app.py`, `worker_pool.py`) | none | find the monitor's endpoint, fetch logs, status and system figures, post a swap, fetch an export | ports RunPod lists late or in part; a port that each process chooses for itself | a call that finds a monitor finds its pod's, and none goes to the worker |
| **Spec and port rules** (`spec.py`) | the spec each process has loaded | `load_spec`, `ports_consistency`, allocation of `quickpod_service_port` | the choice is seeded with a hash Python salts per process; the file is edited between loads | a loaded spec has no clash; two processes can still talk about one pod |
| **mTLS client material** (`worker_http.py`) | two globals and a temporary directory per process | `httpx_log_fetch_kwargs` | threads race over the globals; one removes the directory another hands out | a call loads its own cluster's files |
| **Dashboard and hub pages** (`web_app.py`, `hub_app.py`) | - | read-only views, and buttons that give the commands above | their threads are those of the two rows before | - |
| **Smoke script** (`scripts/smoke_e2e_proxy.py`), **logging, environment, GraphQL text, tables** | - | drives the commands against a real account; formatting and I/O | - | - |

How they interact: a `serve` daemon is one process with three actors, the
uvicorn event loop (the `/v1` proxy), its thread pool (dashboard, stop) and the
reconcile thread. The CLI starts daemons, as children of its own; the CLI, the hub
and a daemon's dashboard stop and remove them, by the same lifecycle functions.
Stop and remove list and terminate pods at RunPod directly; the reconcile threads
of daemons list and launch at the same time. Daemons and commands find each other by the row of
`serve_daemons`. Each process loads the cluster's YAML by itself, and the file may
have changed: what a process knows of a pod it did not launch comes from its own
spec and from RunPod's listing of the pod's ports.

## Modules

| module | models | built on |
|---|---|---|
| `ClusterStore` | the rows of one cluster as a record, each store function as an operator on it; `Backend` says whether foreign keys are enforced | |
| `Reconciler` | passes of any number of processes on one cluster, one step per RunPod or store call | `ClusterStore` |
| `ReplicaSet` | the abstract promise: a process fills only free slots | |
| `ServeLifecycle` | commands against running daemons | `Reconciler` |
| `Train` | `run_train`, beside the daemon and commands of its cluster | `ServeLifecycle` |
| `WorkerPool` | proxied requests and dashboards picking workers through one cache and one ring | |
| `Monitor` | one replica's container: startup script, monitor, swaps, workloads, restarts | |
| `MtlsConfig` | what the other three say of `resources.mtls` | |
| `ReplicaPorts` | specs, the ports they give, and the search for a monitor's port | `MtlsConfig` |
| `MtlsFiles` | the shared directory of certificate files, statement by statement | `MtlsConfig` |
| `ReplicaClient` | calls of a UI's threads to the replicas' monitors | `ReplicaPorts`, `MtlsFiles` |
| `MCReconciler`, `MCServeLifecycle`, `MCTrain`, `MCWorkerPool`, `MCMonitor`, `MCReplicaClient` | the instances TLC checks | |
| `ReconcilerProofs`, `WorkerPoolProofs`, `MonitorProofs`, `MtlsFilesProofs`, `TrainProofs` | theorems about those modules | TLAPS |
| `ServeLifecycleProofs` | theorems about commands however they overlap | `ReconcilerProofs` |
| `SequentialProofs` | theorems about commands given one after the other | `ServeLifecycleProofs` |
| `ReplicaClientProofs` | theorems about `ReplicaPorts` and `ReplicaClient` | `MtlsFilesProofs` |

`ServeLifecycle` composes commands with `Reconciler` and `ClusterStore`, and `Train`
composes a training run with all three. `ReplicaClient` composes its two parts step by
step: a call is a call of `MtlsFiles` exactly while it handles certificate files.
`WorkerPool` and `Monitor` meet in one place, the status of a worker: the former
lets it change arbitrarily, so whatever `Monitor` reports is covered; the rule
that reads it (`Allows`) stands in both, and `NoTrafficInSetup` is about the two
together.

### Reconciler

`pod` is what RunPod knows of each pod id: `alive` is what `count_alive_nodes`
counts, `off` is listed and not counted (a dead status, or one quickpod does
not know), `pending` is a deploy call that was cut off and that RunPod may yet
carry out. `pc`, `attempt`, `left`, `zone`, `last` are the program counter and
the loop variables of each process's pass; `stop` is `stop_rc`. `owner`,
`back`, `blind` and `faults` are not in the code: who made a pod, how often a
pod of a process came into view after a listing could have missed it, how many
false empty answers the current listing got in a row, and how many failures
there have been. Their only use is to state properties and bounds.

One action is one call that may fail or be interleaved: `Touch`
(`upsert_cluster_touch`, whose failure is logged and ignored), `ListPods` (one
`get_pods` of the retry loop, with the decision when it is the last),
`LaunchOk`/`NoCapacity`/`LaunchRefused`/`LaunchLost` (one deploy call of
`launch_one_node`, by outcome), `Record`, `NextPass`, `SetStop`, `EndThread`,
`EndMidDeploy`. A process may end at any of its calls (`Ends`, the
last two together); by itself it ends once `stop` is set (`Exit`), by a signal at any
time. Actions of RunPod are external: `PodOff`, `PodGone`, `PodBack`.
The names of pods are immaterial, so a new pod takes some fresh id by `CHOOSE`.

### ServeLifecycle

A command is a one-shot process of `Reconciler`, since `start_serve_daemon`
makes a pass of its own before it spawns; a daemon is a loop, and its pid is its
name. `cpc` is where a command is, `todo` the pods it has listed and not yet
terminated, `child` the daemon it is stopping or has spawned, `host` the daemon
whose UI it was given in (it dies with it). Each call to RunPod, the store or
the operating system is one action, and each may fail where the code has an
error path; a start that finds its port in use is one of them (`PortBusy`), after
it has deleted a stale row. SIGTERM does not stop the loop: `stop_rc` is set when
uvicorn has returned (`SetStop`), and until then the thread may begin passes and
launch. SIGKILL takes the process wherever its pass is, a deploy call included.

### Train

A train is one more kind of command. It takes the steps of `ServeLifecycle` that
terminate pods, make the pass, stop the daemon and delete the row, in its own
order (`Cleaning`, `AfterDelete`, `AfterStop`), and adds `Resolve`, the wait for
RUNNING replicas (`AskAgain`, `TooFew`, `Enlisted`), the poll of the first one
(`ExportReady`), the downloads (`Fetch`, `FetchRefused`), `TimesOut` and `TearDown`.
`running` and `primary` are its list and the list's first pod; `export` is the
archive on each pod, which the user's run writes in place; `disk` is what was
extracted from each.

### WorkerPool

`cache` is `_LB_STATUS_CACHE`, `ring` is `WorkerRing._i`. A request's locals are
`now` (taken once, when `lb_ready_worker_bases` has its list), `seen` and `todo`
(the pods of that list, and those still to judge), `elig`, `got` (the verdict
between fetch and store) and `target`. Every RunPod listing, cache lookup, fetch
and store is one action, for two other things may happen between them: a
dashboard runs in uvicorn's thread pool, and RunPod and the workers change. A
proxied request does not await before it has picked, so two of them do not
overlap until then (`LoopFree`). `okAt` and `badAt` are not in the code: the last
time there was a reason to route to a worker, and not to. A fetch that fails is
a reason to route, as the code has it. A request ends answered, with 502, with
one of the two 503s, or with the exception of a RunPod call nobody catches.

### Monitor

`main` is where the startup script is; `lifecycle`, `pidfile` and `script` are
the three files in `/workspace`, which outlive a restart of the container;
`verdict` is `_health_state`. A workload is a shell, whose pid is in the file,
and the server it runs, which may be its child or may have replaced it, may be
slow to bind its port, and may crash. A swap is a thread of the monitor; each
signal, file write and `Popen` of `_perform_swap_run` is one action. `FreePort` is
`_kill_workload_on_loopback_api`: it kills who listens, or nobody, for `fuser` and `ss`
may be missing, fail, time out or see no listener at that address
(`managed_worker.py:398` to `:412`), and the swap goes on. The health command is any
shell command, and its outcome is stored some time after it ran: `Probe` stores
any verdict whenever the monitor is up, also in setup and with no workload.
`killed`, `overlap` and `missed` are not in the code: a swap killed the workload the
script waits for; a swap was given while another was under way or before the
script's own run; the last swap to free the port left a server running.
Restart may come at any step. Not modelled: full disks, reuse of pids, bodies of
`swap-run` that are refused before anything is done.

### ReplicaPorts

A spec is a record of what the port rules read: `secure` (`secure_mode`), `worker`
(`worker_api_port`), `ports`, `port` (`quickpod_service_port`) and `mtls`. `Loads`
gives the specs a file can become: none if `ports_consistency` refuses it, and one
per port of `Ephemeral` if the monitor's port is not written down. The code seeds
that choice with `hash(name)`, which Python salts in every process, so the choice
is nondeterministic; the retry loop over seeds only avoids the spec's own ports.
`Written` is what an operator may write, `Load` may find any of it, with another
`secure_mode`, another worker or sshd's port for the monitor: a file that was edited
and a process that was restarted are the same to a reader. `made` is
the spec a pod was launched with, `Listings` what RunPod may show of its ports,
any part of them with or without public ones. `Resolve` is
`resolve_replica_monitor_public_endpoint`, `Infer` its guess when the spec's port is
not listed. `Rivals` are the ports it may take for the monitor's, and `Certain` names
the cases in which it cannot go wrong; `MonitorFound` says that these are all of
them. `SameFile` says that two specs come from one file. The models' ports are small numbers; only equality, order and
membership in the ephemeral range matter to the code.

### MtlsFiles

`httpx_log_fetch_kwargs` has no lock. `dir` and `key` are its globals, and each
statement that reads or writes them or touches the directory is one action:
`Check`, `Clear`, `Remove`, `Make`, `Publish`, `Name`, `Write`, `WriteRest`, `Take`,
and `LoadFiles` for the client that opens the files. `files` says what a directory
holds: a removal that meets a writer can leave a part (`torn`), a failed write
leaves `spoiled`. `of`, `called` and `disturbed` are not in the code: whose material
a directory is for, what the calls so far asked for, and whether another thread
rebuilt during a call. `Dirs` bounds the directories referred to at a time: one
that nothing refers to waits for `atexit`, and its name is used again.

### ReplicaClient

`ask` is a call's spec and pod, `to` the port it has found, `rpc` where it is. `Found`
and `NotFound` are the search in the listing the call was given, or in the one
`_refresh_pod_by_id` makes; both may be of any age, so both are any listing. `TlsStep`
is a step of `MtlsFiles`. The threads belong to one process `UI`, a daemon or the
hub; it and other processes load the file and launch pods meanwhile (`PNext`).
`Extra` are the ports a pod publishes besides the worker's, sshd's and the monitor's.

## Runs

| run | instance | shows |
|---|---|---|
| `reconciler_safety` | one loop and one one-shot, 2 nodes, 1 zone, 4 pods, 1 retry and 1 false empty answer in a row, 2 faults | `TypeOK`; `SlotBudget`: however the two passes interleave, and whatever RunPod answers, each process's live pods plus the launches it still owes are at most `num_nodes`, plus one for each pod that came into view behind its back; `FillsFreeSlots`: every step is a step of `ReplicaSet`; `Converges`: a loop past its first call refills the cluster or is told to stop |
| `reconciler_enforced` | one loop | a violation, see Findings |
| `serve_safety` | three commands in sequence over two daemons, 2 nodes, 1 fault, 1 pod that comes into view late, SQLite | `LTypeOK`; `NoStrayDaemon`: a daemon that runs is registered, or is on its way in or out, or was left by a start that failed; `NoSurplus`: no sequence of commands piles up pods; `OldPodsGone`: a stop, remove or refresh that completes has ended every pod of earlier commands, whatever calls failed on the way; `StopEndsDaemon`: a stop or remove that completes has ended the daemon, whoever started it and whatever was cut off since |
| `serve_live` | two overlapping commands, foreground servers included, PostgreSQL | `CommandsEnd`: a command ends, even when it kills the daemon that serves it |
| `serve_stop`, `serve_remove` | a start, then a stop or remove, no failures | violations, see Findings |
| `train_run` | a start or a train, then a train that may first terminate what is there; one daemon, 1 node, 3 pods, 1 fault, 1 false empty listing per call, SQLite | `TrTypeOK`; `CheckpointsKept`: nothing a train waited for is torn down before its complete archive is on disk, though only the first replica is polled; `TrainStopsDaemon`: no registered daemon outlives a train that completes, cleaned before or not; `OnlyStragglers`: nor does a pod, but those that came into view late or that a daemon launched meanwhile |
| `pool_verdicts` | one worker, a proxy and a dashboard, TTL 1, times 2 to 4, 2 changes | `WTypeOK`; `VerdictFresh`: a request goes by no verdict that was last true more than TTL before it took its time, whoever fetched it and however late it was stored |
| `monitor_swaps` | two swaps, four workloads, one restart, both modes, with a health command | `MTypeOK`; `NoTrafficInSetup`: whatever the last life of the container left, no traffic before setup is done; `OneWorkload`: swaps given one at a time leave one shell, named by the pid file, running the last script, and no server but that one's, unless the last swap that freed the port left one running |
| `replica_client` | a UI of two threads that launches and asks, 1 pod, sshd and 5 more ports of which 3 are ephemeral, 4 files, 2 materials, 5 directories | `RTypeOK`; `MonitorFound`: whatever is listed, a process finds the monitor of a pod in exactly the cases `Certain` names, whatever port was chosen at its launch and at the later load, and whatever the file says by now, `secure_mode` included; `NeverAstray`: a call goes to the monitor or to a port of the user's, never to sshd or the worker, if the file does not give sshd's port to the monitor, gives the worker the pod's port and has not become secure since; `QuietMaterial`: threads that race over the globals never leave them on a directory without its files; `LoneCall`: in a process of one cluster a call no rebuild overlaps loads its own files |
| `monitor_plain`, `monitor_replaces` | one swap, no restart | violations, see Findings |

Bounds. `MaxFaults` caps failures of RunPod, of pods and of the store; two are
enough for a failure in one process while another is in a pass, and for one
launch of two to fail, and nothing in the code counts failures. `MaxBack` caps
pods that come back. `serve_safety` gives up false empty listings for one pod that
comes back, since both at once take more than five minutes; `NoSurplusPods` and
`OldPodsEnd` below are about both. Four pods let two processes fill two slots each, or
one process fill two and replace both; no id is used twice, so the number of pods
also bounds the replacements, and in
`serve_safety` a fifth lets a new daemon launch while four are up. One retry and
one false answer reach both ends of the retry loop (the answer after the false one,
and the last attempt), and the theorems hold for any number. `MaxGlitch <= EmptyRetries` (assumption `GlitchAssumption`) is what
the retry loop of `list_managed_pods` presumes: false empty answers are
transient. Without it `SlotBudget` is false, and rightly so. In `pool_verdicts`
one worker is enough, for a handler judges each on its own and the theorem covers
any number; the clock starts past the TTL and has two ticks, so that an entry
can be fresh for one listing and stale for the next. Four workloads are the script's two (before and after a
restart) and one per swap. In `train_run` one node and three
pods are the earlier command's, the train's own, and one that a daemon launches in
between: so a train that first terminates the pods of another command comes to its
end. A train waits for at least `num_nodes` replicas, and has two of them, one polled
and both fetched, when a pod comes into view late. In
`replica_client` three ephemeral ports are two choices of a process and the user's
between them, sshd has port 1, the worker 2, and 3 is a monitor's port that is
written down. One process launches, loads the file again and asks, which is to the
search what two processes are, for nothing but the two specs enters it. The files
are one of each kind of call: to a plain pod that publishes a server of the
user's or nothing else, and to a secure one of either material, which are two
secure clusters in one hub, or one whose material was replaced; five directories
are what two threads and the globals can refer to. That the file gives another
worker, sshd's port to the monitor or several ports to the user is left to the
theorems. Deadlock is checked in
`replica_client` only: in the other systems every command may have
ended and RunPod have nothing left to do.

Fairness. A process that runs keeps executing and RunPod answers each call,
with success or failure: weak fairness of each process's calls and of each
command's steps. There is none on operators, on RunPod's own actions, or on a
daemon's exit after SIGTERM, whose connections may hold it. `WorkerPool`,
`Monitor`, `Train` and `ReplicaClient` state safety only and assume no fairness.

## Proofs

`ReconcilerProofs` proves, for every number of processes, pods, nodes, zones and
retries, from the named assumptions of `Reconciler` and `ClusterStore`:

* `TypeCorrect`: `Spec => []TypeOK`
* `SlotBudgetHolds`: `Spec => []SlotBudget`
* `Implements`: `Spec => FillsFreeSlots`, the refinement of `ReplicaSet` under
  `slots[p] = OwnAlive(p)`, `slack = back`
* `Induction`: `Spec => []IndInv`, on which the others rest.

`SlotBudget` is not inductive. A pass that launches must owe what it launches
(`OwesInPass`), a pod must have its maker (`OwnerKnown`), and, the crux, a
listing that ends empty must not be blind to a process's own pods. The retry
loop makes `EmptyRetries + 1` attempts and RunPod is blind at most `MaxGlitch`
times in a row; so if fewer blind answers than attempts are on record, some
answer was truly empty since, and the process had no pod but those that came
back (`BlindHarmless`). At the last attempt either the answer is true or that
applies.

`WorkerPoolProofs`, for every number of workers, proxies and dashboards and every
TTL, from `WorkerPoolAssumption`:

* `VerdictsFresh`: `Spec => []VerdictFresh`. What a request has judged says nothing
  of the cache, so `PoolInduction` adds: an entry's verdict was true at or after the
  entry's own time (`CacheInv`); what a handler has just fetched was true at or after
  its `now` (`HandlerInv`), since time and the two records only grow; and reasons do
  not lie in the future (`ClockInv`). A slow store of an old `now` is then harmless:
  it makes the entry look older than it is, never younger.
* `TurnsEven`: `Spec => []EvenTurns`: while the list of bases stays the same no
  worker is picked twice more than another. The ring counts picks; who is picked is a
  matter of a worker's rank in the list. `TurnInv` orders the bases by whose turn
  comes next (`Ahead`): whoever comes earlier is behind, and by one at most. The pick
  of the next one moves it to the end of that order (`TurnStep`), also where the
  index wraps (`ModNext`).
* `PoolTyped`: `Spec => []WTypeOK`, for which the worker of rank `ring % n` must
  exist. Ranks are an injection of the list into `0 .. n - 1`, and an injection
  between finite sets of one size is onto (`NthRank`): no induction is needed.

`MonitorProofs` proves, for every number of workloads, swaps and restarts and in
both modes, from `MonitorAssumption`:

* `MonitorTypes`: `Spec => []MTypeOK`
* `SetupFirst`: `Spec => []NoTrafficInSetup`; the lifecycle file says `setup` from
  before the monitor starts until setup has ended (`SetupInv`)
* `WorkloadUnique`: `Spec => []OneWorkload`; `WorkInv` follows a single swap step
  by step: which shells may be alive at each of its stages, and whose text is in
  the script file; `ServerInv` does the same for servers, from the `FreePort` that
  left none. Nothing makes it leave none: that is `missed`, and the finding
  `monitor_replaces`.

`ServeLifecycleProofs` carries `IndInv` over to commands, any number of them,
overlapping or not: `LifecycleTypes` (`LTypeOK`), `LifecycleBudget` (`SlotBudget`) and
`LifecycleImplements` (`FillsFreeSlots`), from `LInv`. A command's steps outside its
pass either leave the reconcilers' state alone (`RowStep`), or list
(`ListingStep`), or terminate a pod, or are steps of `Reconciler` (`ReconcilerStep`:
a SIGKILL is `Ends`, a `Popen` is `Start`). What makes these cases hold is
`InPass`: a command is inside a pass only where its program says `pass`, and what
it has listed has a maker.

`SequentialProofs` assumes `Sequential`, no command is given while another one
runs, which `Single` carries through the steps:

* `NoDaemonLost`: `LSpec => []NoStrayDaemon`, further assuming (`Orderly`) that no
  server runs in the foreground, since it never registers, and that nothing is
  removed or trained where deletes cascade, since the daemon's row goes too (the run
  `serve_remove`). `Stages` says what the running command knows of the daemon's row
  at each of its steps: no row from the check to the registration, the row of its
  own `child` from SIGTERM to the deletion, and no row when a train deletes the
  cluster for good.
* `OldPodsEnd`: `LSpec => OldPodsGone`. `Gone` follows the one listing on which a
  termination rests: before its last answer, either every answer was blind or
  nothing old was alive; after it, what is alive and old is on the list. The crux
  is again `GlitchAssumption`: the last attempt cannot be blind if all others were.
* `StopEndsIt`: `LSpec => StopEndsDaemon`, under `Orderly`. A stop or remove completes
  at one of two steps, with no daemon row or with the row of a daemon that is gone
  (`StopCompletes`). A daemon that still runs is then a stray, and the command that
  excuses it is not the one that completes, nor one cut off between `Popen` and
  registration, since only a stop dies with a host (`Places`).
* `NoSurplusPods`: `LSpec => []NoSurplus`, under `Orderly` and without trains, which
  reconcile beside a live daemon. Slot budgets do not give it: they are per process,
  and the next process finds pods of the last one. The argument is that only one
  process at a time counts or launches (`OneWorks`: of the daemons only the
  registered one lives, and a command makes its pass when none is registered), so
  what it has counted stays true, and all that is alive plus all it owes fits
  (`Room`); a listing that was truly empty once leaves nothing but comebacks to
  overlook (`SeesEnough`). Killing that process loses only what it owes.

`TrainProofs`: `TrainTyped` (`TrTypeOK`), `TrainBudget` (`SlotBudget`), `TrainImplements`
(`TrSpec => FillsFreeSlots`) and `CheckpointsSafe`
(`TrSpec => []CheckpointsKept`), for any number of trains and replicas, overlapping
commands included. `CkInv` adds that what a train has ticked off its list is on
disk complete, that an archive on disk stays complete because the one it came
from does, and that no other command's steps move a train to its closing stages
(`Passes`). For trains and commands given one after the other:

* `DaemonInduction`: the trains keep `StrayInv`, the invariant of `NoDaemonLost`
  (`StrayUnderTrain`), under `Orderly`. From it `TrainsLoseNoDaemon`
  (`TrSpec => []NoStrayDaemon`), `StopEndsItBesideTrains` (`TrSpec => StopEndsDaemon`) and
  `TrainStopsIt` (`TrSpec => TrainStopsDaemon`): when a train completes there is no
  daemon row, so any daemon that runs was left behind, as in `StopEndsIt`.
* `PodInduction`: the trains keep `GoneInv`, the invariant of `OldPodsEnd`, under
  `Sequential`, in which a train terminates for good only after its own pass: its
  tear-down begins with a fresh listing (`GoneUnderTrain`). From it `StragglersOnly`
  (`TrSpec => OnlyStragglers`) and `OldPodsEndBesideTrains` (`TrSpec => OldPodsGone`).

`MtlsFilesProofs`, for any number of threads, materials and directories:

* `FilesTyped` and `MaterialSurvivesRaces` (`QuietMaterial`), from `FilesInv`: the
  directory the global names is whole, or its maker is still writing it, or a
  thread that removes it has yet to set the global (`GlobalInv`); nobody removes a
  directory before the global names it (`UnpublishedInv`), and no two threads make
  the same (`MinesInv`).
* `LoneCallLoadsOwn` (`LoneCall`), from `CallInv`: a directory's material is one some
  call asked for, and during a call that nobody disturbs the globals stay as the
  call found or made them (`LoneInv`).

`ReplicaClientProofs`, from `PortsAssumption` and an invariant that every spec in use
is one the rules let through (`LoadedSpec`), for any ports, any ephemeral range and
anything written:

* `AnyProcessFindsMonitor` (`PSpec => []MonitorFound`), in both directions. If the case
  is `Certain`, whatever is listed leads to the monitor; if it is not, a listing of
  at most two ports leads elsewhere (`UncertainMisses`). `Certain` leaves out what the
  code gets wrong, and says so: a pod that publishes what the process takes for its
  own monitor's port, a rival that outranks the monitor, a file that has become
  secure, a monitor on sshd's port or on what the file now gives the worker.
* `MonitorAloneIsFound`: among them is one plain file that publishes only the worker
  and the monitor, for any two choices of the port. That is the case in which the
  promise of `spec.py:364` holds.
* `SaltedChoicesMisalign`: with a port of the user's in the ephemeral range it does
  not: the monitor of a pod made with a choice above that port may be missed by a
  process with any other choice (see Findings).
* `ClientImplementsParts`: `RSpec => PSpec /\ FSpec`, so that what is proved of the
  parts holds of the client (`ClientFindsMonitor`, `ClientKeepsMaterial`).
* `ClientTyped` (`RTypeOK`) and `CallsNeverAstray` (`NeverAstray`, with the three
  conditions that stand in it).

Every invariant and action property of the passing runs is a theorem, and so is
the one refinement of an abstract specification. Model-checked only: liveness (`Converges`,
`CommandsEnd`), which is out of TLAPS's reach. Proved only: `EvenTurns`, and the two
theorems about a file that is loaded twice. The assumption `Sequential` is a
restriction on what operators do, not on the code: without it `NoStrayDaemon`,
`StopEndsDaemon`, `OldPodsGone` and `NoSurplus` are false, as TLC finds at once.
`Orderly` further leaves out servers in the foreground, which no command finds, and
cascading deletes, which forget the daemon (`serve_remove`).

## Findings

* `reconciler_enforced`: `run_loop_until` resolves the GPU type before its loop
  and outside its `try` (`reconciler.py:105`). One failed RunPod call at startup
  ends the reconcile thread while the server goes on. README.md:75 says the
  desired replica count "stays enforced".
* `serve_stop`: `stop_cluster_and_runpod` terminates the pods first and stops
  the daemon afterwards. In between the daemon finds the cluster empty and
  launches pods that nobody terminates.
* `serve_remove`: `remove_cluster_completely` deletes the cluster row first; on
  PostgreSQL the daemon's row goes with it, so the daemon is never found and
  keeps reconciling.
* `monitor_plain`: in plain mode the startup script ends with `wait $!`
  (`managed_worker.py:729`) for the workload it started. A swap kills that
  workload, the script ends, and with it the container, the monitor and the new
  workload. `refresh_cluster_run_swap` promises "no reprovision",
  `post_replica_swap_run` "same pod". In secure mode the script waits for Caddy.
* `monitor_replaces`: a swap signals the one pid of the file and then kills who
  listens on port 18000 (`managed_worker.py:442`). A server that is a child of the
  killed shell and is still loading, or that neither `fuser` nor `ss` finds there,
  survives both; it keeps or takes the port, and the new workload dies. The swap has
  answered ok. `post_replica_swap_run` (`runpod_client.py:546`) promises "to kill the
  current ``run`` process and start a new script". What a swap does achieve is
  `OneWorkload`.

One more is a theorem and no run, `SaltedChoicesMisalign`: the default port of the
monitor is seeded with `hash(name)` (`spec.py:267`), which Python salts in every
process. With a published port of the user's in the ephemeral range a second process
may take the user's server for the monitor, with one unchanged file. `spec.py:364` says
"Stable default quickpod_service_port per cluster name (dashboard + RunPod mappings
stay aligned)", `spec.py:140` "stable for a given cluster name".

A train has the order of steps of `stop` (pods before daemon) and, with
`--clean-start`, of `remove` (row before daemon), with the same consequences.

More things are true of the code and contradict nothing it promises, so no
property forbids them. The models show them:

* overlapping swaps leave a workload no pid file names;
* two starts at once both find no daemon row, and one daemon loses its row;
* after a failed write the certificate directory stays broken until a call for
  other material comes (`spoiled`), and in a hub of two secure clusters a call can
  load the other cluster's files (`foreign`);
* when the file becomes secure, or gives the worker another port, calls to a plain
  pod launched before go to its worker (`Certain`, and the conditions of
  `NeverAstray`);
* the budget is per process: two passes at once may both find the cluster empty and
  fill it, and a start cut off between `Popen` and registration leaves a daemon that
  no row names (`LeftBehind`).

And two lie outside the models: the 503 "every RUNNING endpoint reports unhealthy or
setting_up" may be said of a worker that came up after it was listed, and the daemon
goes on launching pods with the `run` it loaded at its start after a `refresh --swap`.

## Not modelled

* Reuse of pids: a daemon's row, or a pid file of the container's last life, that
  names a stranger. The processes of the models are those of quickpod.
* The client of `refresh --swap`. It is one thread that goes through the pods of one
  listing; for each it makes the search of `ReplicaPorts` and the request whose
  handling `Monitor` models. Nothing waits for it, and it never retries.
* The bodies and parsers of answers, the streaming of proxied requests, the
  replica rows of the dashboard, the listings of the store, the validators of
  single fields of a spec, and `httpx_worker_client_kwargs`, whose directory has one
  owner.
* The smoke script, logging, the environment, the GraphQL text and the tables of
  the CLI, which keep no state of the system.

## Plan

Done: the reconcilers, the lifecycle of daemons, trains, the worker pool, a
replica's container, the replica monitor client with its ports and files, and the
theorems above. What would come next, in order:

1. Theorems: what overlapping starts leave (two daemons of one row) bounded by a
   property of its own, and what of `OneWorkload` survives overlapping swaps.
2. `refresh --swap` over several replicas against `Monitor`, with answers lost after the
   swap was made and pods that the daemon launches meanwhile.
3. Reuse of pids, in `ServeLifecycle` and in `Monitor`.
