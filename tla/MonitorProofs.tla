---------------------------- MODULE MonitorProofs ----------------------------
(***************************************************************************)
(* Theorems about Monitor, for any number of workloads, swaps and restarts,*)
(* with and without a health command, in either mode.                      *)
(***************************************************************************)
EXTENDS Monitor, TLAPS

AliveRuns == {w \in Runs : shell[w] = "alive"}

(* The lifecycle file says "setup" from before the monitor is up until the *)
(* setup is done, whatever it said in the container's last life.           *)
SetupInv ==
  /\ main \in {"monitor", "setup"} => lifecycle = "setup"
  /\ monitor => main \notin {"boot", "monitor", "ended"}

(* Which shell may run, by where the script and the swap are.              *)
Expected(w) ==
  /\ (\A s \in Swaps : spc[s] \in InFlight => spc[s] = "term")
       => pidfile = w /\ (text[w] = script \/ w = first)
  /\ \A s \in Swaps :
       /\ spc[s] = "kill" => w = old[s]
       /\ spc[s] \notin {"port", "write", "start"}
       /\ spc[s] = "pid" => w = new[s] /\ text[w] = script

WorkInv == ~ overlap =>
  /\ \A s, t \in Swaps : spc[s] \in InFlight /\ spc[t] \in InFlight => s = t
  /\ \A s \in Swaps : spc[s] \in InFlight => main = "wait"
  /\ main \notin {"pid", "wait"} => AliveRuns = {}
  /\ main = "pid" => AliveRuns \subseteq {first} /\ first \in Runs
  /\ main = "wait" => \A w \in AliveRuns : Expected(w)

(* Which server may run, as long as every swap that freed the port left    *)
(* none running.                                                           *)
Serving(w) ==
  /\ (\A s \in Swaps : spc[s] \in InFlight => spc[s] \in {"term", "kill", "port"})
       => w = pidfile
  /\ \A s \in Swaps : /\ spc[s] \notin {"write", "start"}
                      /\ spc[s] = "pid" => w = new[s]

ServerInv == ~ overlap /\ ~ missed =>
  /\ main \notin {"pid", "wait"} => Up = {}
  /\ main = "pid" => Up \subseteq {first}
  /\ main = "wait" => \A w \in Up : Serving(w)

MonitorInv == MTypeOK /\ SetupInv /\ WorkInv /\ ServerInv

-----------------------------------------------------------------------------
(* What the operators on workloads do to the set of running shells.        *)
LEMMA LaunchAdds ==
  ASSUME MTypeOK, NEW w \in Runs, NEW a \in Swaps \cup {None}, Launch(w, a)
  PROVE  /\ AliveRuns' = AliveRuns \cup {w} /\ text'[w] = a
         /\ Up' = Up \cup {w}
         /\ shell' \in [Runs -> {"none", "alive", "dead"}]
         /\ server' \in [Runs -> {"none", "loading", "listening", "dead"}]
         /\ wrapped' \in [Runs -> BOOLEAN]
         /\ text' \in [Runs -> Swaps \cup {None}]
<1>1. wrapped' \in [Runs -> BOOLEAN]
  BY Zenon DEF MTypeOK, Launch
<1> QED
  BY <1>1 DEF MTypeOK, Launch, AliveRuns, Up

LEMMA KillShellRemoves ==
  ASSUME MTypeOK, NEW w \in Runs, KillShell(w)
  PROVE  /\ AliveRuns' \subseteq AliveRuns \ {w}
         /\ Up' \subseteq Up
         /\ shell' \in [Runs -> {"none", "alive", "dead"}]
         /\ server' \in [Runs -> {"none", "loading", "listening", "dead"}]
BY DEF MTypeOK, KillShell, AliveRuns, Up

LEMMA KillServersRemoves ==
  ASSUME MTypeOK, NEW W, KillServers(W)
  PROVE  /\ AliveRuns' \subseteq AliveRuns
         /\ Up' \subseteq Up
         /\ shell' \in [Runs -> {"none", "alive", "dead"}]
         /\ server' \in [Runs -> {"none", "loading", "listening", "dead"}]
BY DEF MTypeOK, KillServers, AliveRuns, Up

LEMMA AllDieEmpties ==
  ASSUME MTypeOK, AllDie
  PROVE  /\ AliveRuns' = {} /\ Up' = {}
         /\ \A s \in Swaps : spc'[s] \notin InFlight
         /\ shell' \in [Runs -> {"none", "alive", "dead"}]
         /\ server' \in [Runs -> {"none", "loading", "listening", "dead"}]
         /\ spc' \in [Swaps -> {"idle"} \cup InFlight \cup Swapped]
         /\ old' \in [Swaps -> Runs \cup {None}]
         /\ new' \in [Swaps -> Runs \cup {None}]
BY DEF MTypeOK, AllDie, AliveRuns, InFlight, Swapped, Up

Workloads == \E w \in Runs : Workload(w)
Probes == \E result \in {"pass", "fail"} : Probe(result)

-----------------------------------------------------------------------------
(* Every step keeps the types.                                             *)
LEMMA MTypeStep ==
  ASSUME MTypeOK, [Next]_vars
  PROVE  MTypeOK'
<1> USE MonitorAssumption
<1>1. ASSUME Boot \/ StartMonitor \/ SetupEnds \/ MarkRunning \/ WriteFirstPid, UNCHANGED secure
      PROVE  MTypeOK'
  <2>1. CASE Boot
    BY <1>1, <2>1 DEF MTypeOK, Boot, work, swaps, Main
  <2>2. CASE StartMonitor
    BY <1>1, <2>2 DEF MTypeOK, StartMonitor, work, swaps, files, Main
  <2>3. CASE SetupEnds
    BY <1>1, <2>3 DEF MTypeOK, SetupEnds, work, swaps, Main
  <2>4. CASE MarkRunning
    BY <1>1, <2>4 DEF MTypeOK, MarkRunning, work, swaps, Main
  <2>5. CASE WriteFirstPid
    BY <1>1, <2>5 DEF MTypeOK, WriteFirstPid, work, swaps, Main
  <2> QED
    BY <1>1, <2>1, <2>2, <2>3, <2>4, <2>5
<1>2. ASSUME NEW w \in Runs, StartRun(w), UNCHANGED secure PROVE MTypeOK'
  <2>1. Launch(w, None)
    BY <1>2 DEF StartRun
  <2> QED
    BY <1>2, <2>1, LaunchAdds DEF MTypeOK, StartRun, swaps, files, Main
<1>3. ASSUME WaitEnds \/ SetupFails \/ Restart, UNCHANGED secure PROVE MTypeOK'
  <2>1. AllDie /\ main' \in Main /\ restarts' \in 0 .. MaxRestarts
    BY <1>3 DEF WaitEnds, SetupFails, Restart, ContainerEnds, Main, MTypeOK
  <2> QED
    BY <1>3, <2>1, AllDieEmpties DEF MTypeOK, AllDie, files
<1>4. ASSUME Workloads, UNCHANGED secure PROVE MTypeOK'
  <2> PICK w \in Runs : Workload(w)
    BY <1>4 DEF Workloads
  <2>1. shell' \in [Runs -> {"none", "alive", "dead"}]
        /\ server' \in [Runs -> {"none", "loading", "listening", "dead"}]
    <3>1. CASE Bind(w)
      BY <3>1, KillServersRemoves DEF Bind, MTypeOK
    <3>2. CASE Crash(w)
      BY <3>2, KillServersRemoves DEF Crash, MTypeOK
    <3>3. CASE ShellExits(w)
      BY <3>3 DEF ShellExits, MTypeOK
    <3> QED
      BY <3>1, <3>2, <3>3 DEF Workload
  <2> QED
    BY <1>4, <2>1 DEF Workload, Bind, Crash, ShellExits, MTypeOK, files, swaps
<1>5. ASSUME Probes, UNCHANGED secure PROVE MTypeOK'
  BY <1>5 DEF Probes, Probe, MTypeOK, files, work, swaps
<1>6. ASSUME NEW s \in Swaps, Post(s) \/ FreePortFails(s) \/ WriteScript(s) \/ WritePid(s),
             UNCHANGED secure
      PROVE  MTypeOK'
  <2>1. spc' \in [Swaps -> {"idle"} \cup InFlight \cup Swapped]
    BY <1>6 DEF MTypeOK, Post, FreePortFails, WriteScript, WritePid, Goto, InFlight, Swapped
  <2>2. overlap' \in BOOLEAN /\ missed' \in BOOLEAN
    BY <1>6, Zenon DEF MTypeOK, Post, FreePortFails, WriteScript, WritePid
  <2> QED
    BY <1>6, <2>1, <2>2 DEF MTypeOK, Post, FreePortFails, WriteScript, WritePid, files, work
<1>7. ASSUME NEW s \in Swaps, Term(s) \/ Kill(s) \/ FreePort(s), UNCHANGED secure
      PROVE  MTypeOK'
  <2>1. spc' \in [Swaps -> {"idle"} \cup InFlight \cup Swapped]
    BY <1>7 DEF MTypeOK, Term, Kill, FreePort, Goto, InFlight
  <2>2. old' \in [Swaps -> Runs \cup {None}]
    BY <1>7 DEF MTypeOK, Term, Kill, FreePort
  <2>3. killed' \in BOOLEAN /\ missed' \in BOOLEAN
    BY <1>7, Zenon DEF MTypeOK, Term, Kill, FreePort
  <2>4. shell' \in [Runs -> {"none", "alive", "dead"}]
        /\ server' \in [Runs -> {"none", "loading", "listening", "dead"}]
    <3>1. CASE Term(s)
      <4>1. CASE UNCHANGED <<shell, server>>
        BY <4>1 DEF MTypeOK
      <4>2. CASE pidfile \in Runs /\ KillShell(pidfile)
        BY <4>2, KillShellRemoves
      <4> QED
        BY <3>1, <4>1, <4>2 DEF Term, MTypeOK
    <3>2. CASE Kill(s)
      <4>1. CASE shell[old[s]] = "alive" /\ old[s] \in Runs
        BY <3>2, <4>1, KillShellRemoves DEF Kill
      <4>2. CASE shell[old[s]] # "alive"
        BY <3>2, <4>2 DEF Kill, MTypeOK
      <4>3. CASE old[s] = None /\ shell[old[s]] = "alive"
        <5>1. shell' = [shell EXCEPT ![old[s]] = "dead"]
              /\ server' = [server EXCEPT ![old[s]] = IF wrapped[old[s]] THEN @ ELSE "dead"]
          BY <3>2, <4>3 DEF Kill, KillShell
        <5> QED
          BY <4>3, <5>1 DEF MTypeOK
      <4> QED
        BY <4>1, <4>2, <4>3 DEF MTypeOK
    <3>3. CASE FreePort(s)
      <4> PICK W \in {{}, Listening} : KillServers(W)
        BY <3>3, Zenon DEF FreePort
      <4> QED
        BY KillServersRemoves
    <3> QED
      BY <1>7, <3>1, <3>2, <3>3
  <2> QED
    BY <1>7, <2>1, <2>2, <2>3, <2>4 DEF MTypeOK, Term, Kill, FreePort, files
<1>8. ASSUME NEW s \in Swaps, NEW w \in Runs, StartSwapped(s, w), UNCHANGED secure
      PROVE  MTypeOK'
  <2>1. Launch(w, script) /\ script \in Swaps \cup {None}
    BY <1>8 DEF StartSwapped, MTypeOK
  <2> QED
    BY <1>8, <2>1, LaunchAdds DEF MTypeOK, StartSwapped, Goto, files, InFlight
<1>9. CASE UNCHANGED vars
  BY <1>9 DEF MTypeOK, vars, files, work, swaps
<1> QED
  BY <1>1, <1>2, <1>3, <1>4, <1>5, <1>6, <1>7, <1>8, <1>9
  DEF Next, Script, Swap, Workloads, Probes

(* Every step keeps SetupInv.                                              *)
LEMMA SetupStep ==
  ASSUME SetupInv, [Next]_vars
  PROVE  SetupInv'
<1> USE DEF SetupInv
<1>1. CASE Script
  BY <1>1 DEF Script, Boot, StartMonitor, SetupEnds, SetupFails, MarkRunning, StartRun,
     WriteFirstPid, WaitEnds, ContainerEnds, AllDie, files
<1>2. CASE Restart
  BY <1>2 DEF Restart, AllDie
<1>3. ASSUME NEW s \in Swaps, Swap(s) PROVE SetupInv'
  BY <1>3 DEF Swap, Post, Term, Kill, FreePort, FreePortFails, WriteScript, StartSwapped,
     WritePid, files
<1>4. CASE Workloads \/ Probes \/ UNCHANGED vars
  <2>1. UNCHANGED <<main, monitor, lifecycle>>
    BY <1>4 DEF Workloads, Workload, Bind, Crash, ShellExits, Probes, Probe, vars, files
  <2> QED
    BY <2>1
<1> QED
  BY <1>1, <1>2, <1>3, <1>4 DEF Next, Workloads, Probes

(* A step that starts no shell and moves nothing else keeps WorkInv.       *)
LEMMA FewerShells ==
  ASSUME WorkInv, AliveRuns' \subseteq AliveRuns,
         UNCHANGED <<main, first, script, pidfile, text, spc, old, new, overlap>>
  PROVE  WorkInv'
BY DEF WorkInv, Expected

(* A swap in flight is the only one, and the script waits: what the other  *)
(* swaps are is settled.                                                   *)
LEMMA Alone ==
  ASSUME WorkInv, MTypeOK, ~ overlap, NEW s \in Swaps, spc[s] \in InFlight
  PROVE  /\ main = "wait"
         /\ \A t \in Swaps \ {s} : spc[t] \notin InFlight
         /\ \A w \in AliveRuns : Expected(w)
BY DEF WorkInv

(* The swap that goes on is the only one: its next state settles WorkInv.  *)
LEMMA SwapMoves ==
  ASSUME MTypeOK, NEW s \in Swaps, NEW where, Goto(s, where),
         main' = "wait", \A t \in Swaps \ {s} : spc[t] \notin InFlight,
         \A w \in AliveRuns' :
           /\ where \notin InFlight \/ where = "term" =>
                pidfile' = w /\ (text'[w] = script' \/ w = first')
           /\ where = "kill" => w = old'[s]
           /\ where \notin {"port", "write", "start"}
           /\ where = "pid" => w = new'[s] /\ text'[w] = script'
  PROVE  WorkInv'
<1>1. \A t \in Swaps : spc'[t] = IF t = s THEN where ELSE spc[t]
  BY DEF Goto, MTypeOK
<1>2. \A t, u \in Swaps : spc'[t] \in InFlight /\ spc'[u] \in InFlight => t = u
  BY <1>1
<1>3. ASSUME NEW w \in AliveRuns' PROVE Expected(w)'
  BY <1>1, <1>3 DEF Expected, InFlight
<1> QED
  BY <1>2, <1>3 DEF WorkInv

(* Only the end of the container forgets that swaps overlapped.            *)
LEMMA OverlapStays ==
  ASSUME [Next]_vars, ~ (WaitEnds \/ SetupFails \/ Restart), overlap
  PROVE  overlap'
BY Zenon DEF Next, Script, Boot, StartMonitor, SetupEnds, MarkRunning, StartRun,
   WriteFirstPid, Swap, Post, Term, Kill, FreePort, FreePortFails, WriteScript,
   StartSwapped, WritePid, Workload, Bind, Crash, ShellExits, Probe, vars, swaps

(* Every step keeps WorkInv.                                               *)
LEMMA WorkStep ==
  ASSUME MTypeOK, WorkInv, [Next]_vars
  PROVE  WorkInv'
<1> SUFFICES ASSUME ~ overlap' PROVE WorkInv'
  BY DEF WorkInv
<1>a. CASE WaitEnds \/ SetupFails \/ Restart
  <2>1. AllDie /\ main' \notin {"pid", "wait"}
    BY <1>a DEF WaitEnds, SetupFails, Restart, ContainerEnds
  <2> QED
    BY <2>1, AllDieEmpties DEF WorkInv
<1> SUFFICES ASSUME ~ (WaitEnds \/ SetupFails \/ Restart) PROVE WorkInv'
  BY <1>a
<1>0. ~ overlap
  BY OverlapStays
<1>1. CASE Boot \/ StartMonitor \/ SetupEnds \/ MarkRunning
  <2>1. /\ main' \notin {"pid", "wait"} /\ main \notin {"pid", "wait"}
        /\ spc' = spc /\ AliveRuns' = AliveRuns
    BY <1>1 DEF Boot, StartMonitor, SetupEnds, MarkRunning, swaps, work, AliveRuns
  <2> QED
    BY <1>0, <2>1 DEF WorkInv
<1>2. ASSUME NEW w \in Runs, StartRun(w) PROVE WorkInv'
  <2>1. main = "run" /\ main' = "pid" /\ first' = w /\ spc' = spc
    BY <1>2 DEF StartRun, swaps
  <2>2. AliveRuns' = {w}
    BY <1>0, <1>2, <2>1, LaunchAdds DEF StartRun, WorkInv
  <2> QED
    BY <1>0, <2>1, <2>2 DEF WorkInv
<1>3. CASE WriteFirstPid
  <2>1. /\ main = "pid" /\ main' = "wait" /\ spc' = spc /\ AliveRuns' = AliveRuns
        /\ pidfile' = first /\ first' = first
    BY <1>3 DEF WriteFirstPid, swaps, work, AliveRuns
  <2>2. \A s \in Swaps : spc[s] \notin InFlight
    BY <1>0, <2>1 DEF WorkInv
  <2>3. ASSUME NEW w \in AliveRuns' PROVE Expected(w)'
    <3>1. w = first
      BY <1>0, <2>1, <2>3 DEF WorkInv
    <3> QED
      BY <2>1, <2>2, <3>1 DEF Expected, InFlight
  <2> QED
    BY <2>1, <2>2, <2>3 DEF WorkInv
<1>5. ASSUME NEW w \in Runs, Workload(w) PROVE WorkInv'
  <2>1. AliveRuns' \subseteq AliveRuns
    BY <1>5, KillServersRemoves DEF Workload, Bind, Crash, ShellExits, AliveRuns, MTypeOK
  <2> QED
    BY <1>5, <2>1, FewerShells DEF Workload, Bind, Crash, ShellExits, files, swaps
<1>6. CASE Probes \/ UNCHANGED vars
  <2>1. AliveRuns' = AliveRuns
    BY <1>6 DEF Probes, Probe, vars, work, AliveRuns
  <2> QED
    BY <1>6, <2>1, FewerShells DEF Probes, Probe, vars, files, work, swaps
<1>7. ASSUME NEW s \in Swaps, Post(s) PROVE WorkInv'
  <2>1. main = "wait" /\ main' = "wait" /\ \A t \in Swaps : spc[t] \notin InFlight
    BY <1>7 DEF Post, Busy
  <2>2. AliveRuns' = AliveRuns /\ \A w \in AliveRuns : Expected(w)
    BY <1>0, <1>7, <2>1 DEF Post, WorkInv, work, AliveRuns
  <2> QED
    BY <1>7, <2>1, <2>2, SwapMoves DEF Post, Expected, files, work, InFlight
<1>8. ASSUME NEW s \in Swaps, spc[s] \in InFlight,
             Term(s) \/ Kill(s) \/ FreePort(s) \/ FreePortFails(s) \/ WriteScript(s)
               \/ WritePid(s) \/ (\E w \in Runs : StartSwapped(s, w))
      PROVE  WorkInv'
  <2>0. /\ main = "wait" /\ main' = "wait"
        /\ \A t \in Swaps \ {s} : spc[t] \notin InFlight
        /\ \A w \in AliveRuns : Expected(w)
    BY <1>0, <1>8, Alone DEF Term, Kill, FreePort, FreePortFails, WriteScript, WritePid,
       StartSwapped
  <2>1. CASE Term(s)
    <3>1. AliveRuns' \subseteq AliveRuns
      BY <2>1, KillShellRemoves DEF Term, MTypeOK, AliveRuns
    <3>2. \A w \in AliveRuns : w = pidfile
      BY <2>0, <2>1 DEF Term, Expected
    <3>3. pidfile = None => AliveRuns = {}
      BY <3>2, MonitorAssumption DEF AliveRuns
    <3>4. old'[s] = pidfile
      BY <2>1 DEF Term, MTypeOK
    <3>5. Goto(s, IF pidfile = None THEN "port" ELSE "kill")
      BY <2>1 DEF Term
    <3> QED
      BY <2>0, <3>1, <3>2, <3>3, <3>4, <3>5, SwapMoves DEF InFlight
  <2>2. CASE Kill(s)
    <3>1. \A w \in AliveRuns : w = old[s]
      BY <2>0, <2>2 DEF Kill, Expected
    <3>2. AliveRuns' = {}
      <4>1. CASE shell[old[s]] = "alive" /\ old[s] \in Runs
        BY <2>2, <3>1, <4>1, KillShellRemoves DEF Kill
      <4>2. CASE AliveRuns = {}
        BY <2>2, <4>2 DEF Kill, KillShell, AliveRuns, MTypeOK
      <4> QED
        BY <3>1, <4>1, <4>2 DEF AliveRuns
    <3> QED
      BY <2>0, <2>2, <3>2, SwapMoves DEF Kill, InFlight
  <2>3. CASE FreePort(s) \/ FreePortFails(s) \/ WriteScript(s)
    <3>1. AliveRuns = {}
      BY <2>0, <2>3 DEF FreePort, FreePortFails, WriteScript, Expected
    <3>2. AliveRuns' = {}
      <4>1. CASE FreePort(s)
        <5> PICK W \in {{}, Listening} : KillServers(W)
          BY <4>1, Zenon DEF FreePort
        <5> QED
          BY <3>1, KillServersRemoves
      <4>2. CASE FreePortFails(s) \/ WriteScript(s)
        BY <3>1, <4>2 DEF FreePortFails, WriteScript, work, AliveRuns
      <4> QED
        BY <2>3, <4>1, <4>2
    <3> QED
      BY <2>0, <2>3, <3>2, SwapMoves DEF FreePort, FreePortFails, WriteScript
  <2>4. CASE WritePid(s)
    <3>1. \A w \in AliveRuns : w = new[s] /\ text[w] = script
      BY <2>0, <2>4 DEF WritePid, Expected
    <3>2. AliveRuns' = AliveRuns /\ UNCHANGED <<text, script>> /\ pidfile' = new[s]
      BY <2>4 DEF WritePid, work, AliveRuns
    <3> QED
      BY <2>0, <2>4, <3>1, <3>2, SwapMoves DEF WritePid, InFlight
  <2>5. ASSUME NEW w \in Runs, StartSwapped(s, w) PROVE WorkInv'
    <3>1. AliveRuns = {}
      BY <2>0, <2>5 DEF StartSwapped, Expected
    <3>2. AliveRuns' = {w} /\ text'[w] = script
      BY <2>5, <3>1, LaunchAdds DEF StartSwapped, MTypeOK
    <3>3. new'[s] = w /\ script' = script
      BY <2>5 DEF StartSwapped, MTypeOK, files
    <3> QED
      BY <2>0, <2>5, <3>2, <3>3, SwapMoves DEF StartSwapped, InFlight
  <2> QED
    BY <1>8, <2>1, <2>2, <2>3, <2>4, <2>5
<1>9. ASSUME NEW s \in Swaps, Swap(s) PROVE WorkInv'
  <2>1. CASE Post(s)
    BY <1>7, <2>1
  <2>2. CASE ~ Post(s)
    <3>1. spc[s] \in InFlight
      BY <1>9, <2>2 DEF Swap, Term, Kill, FreePort, FreePortFails, WriteScript, StartSwapped,
         WritePid, InFlight
    <3> QED
      BY <1>8, <1>9, <2>2, <3>1 DEF Swap
  <2> QED
    BY <2>1, <2>2
<1> QED
  BY <1>1, <1>2, <1>3, <1>5, <1>6, <1>9 DEF Next, Script, Probes

(* A step that starts no server and moves nothing else keeps ServerInv.    *)
LEMMA FewerServers ==
  ASSUME ServerInv, Up' \subseteq Up,
         UNCHANGED <<main, first, pidfile, spc, new, overlap, missed>>
  PROVE  ServerInv'
BY DEF ServerInv, Serving

(* The lone swap goes on: its next state settles ServerInv.                *)
LEMMA SwapServes ==
  ASSUME MTypeOK, NEW s \in Swaps, NEW where, Goto(s, where),
         main' = "wait", \A t \in Swaps \ {s} : spc[t] \notin InFlight,
         \A w \in Up' :
           /\ where \notin InFlight \/ where \in {"term", "kill", "port"} => pidfile' = w
           /\ where \notin {"write", "start"}
           /\ where = "pid" => w = new'[s]
  PROVE  ServerInv'
<1>1. \A t \in Swaps : spc'[t] = IF t = s THEN where ELSE spc[t]
  BY DEF Goto, MTypeOK
<1>2. ASSUME NEW w \in Up' PROVE Serving(w)'
  BY <1>1, <1>2 DEF Serving, InFlight
<1> QED
  BY <1>2 DEF ServerInv

(* Every step keeps ServerInv.                                             *)
LEMMA ServerStep ==
  ASSUME MTypeOK, WorkInv, ServerInv, [Next]_vars
  PROVE  ServerInv'
<1>1. CASE WaitEnds \/ SetupFails \/ Restart
  <2>1. AllDie
    BY <1>1 DEF WaitEnds, SetupFails, Restart, ContainerEnds
  <2> QED
    BY <2>1, AllDieEmpties DEF ServerInv
<1> SUFFICES ASSUME ~ (WaitEnds \/ SetupFails \/ Restart), ~ overlap', ~ missed'
             PROVE  ServerInv'
  BY <1>1 DEF ServerInv
<1>0. ~ overlap
  BY OverlapStays
<1>2. CASE Boot \/ StartMonitor \/ SetupEnds \/ MarkRunning
  <2>1. /\ main' \notin {"pid", "wait"} /\ main \notin {"pid", "wait"}
        /\ missed' = missed /\ Up' = Up
    BY <1>2 DEF Boot, StartMonitor, SetupEnds, MarkRunning, swaps, work, Up
  <2> QED
    BY <1>0, <2>1 DEF ServerInv
<1>3. ASSUME NEW w \in Runs, StartRun(w) PROVE ServerInv'
  <2>1. main = "run" /\ main' = "pid" /\ first' = w /\ missed' = missed
    BY <1>3 DEF StartRun, swaps
  <2>2. Up' = {w}
    BY <1>0, <1>3, <2>1, LaunchAdds DEF StartRun, ServerInv
  <2> QED
    BY <2>1, <2>2 DEF ServerInv
<1>4. CASE WriteFirstPid
  <2>1. /\ main = "pid" /\ main' = "wait" /\ spc' = spc /\ Up' = Up /\ missed' = missed
        /\ pidfile' = first
    BY <1>4 DEF WriteFirstPid, swaps, work, Up
  <2>2. \A s \in Swaps : spc[s] \notin InFlight
    BY <1>0, <2>1 DEF WorkInv
  <2>3. ASSUME NEW w \in Up' PROVE Serving(w)'
    <3>1. w = first
      BY <1>0, <2>1, <2>3 DEF ServerInv
    <3> QED
      BY <2>1, <2>2, <3>1 DEF Serving, InFlight
  <2> QED
    BY <2>1, <2>3 DEF ServerInv
<1>5. ASSUME NEW w \in Runs, Workload(w) PROVE ServerInv'
  <2>1. Up' \subseteq Up
    BY <1>5, KillServersRemoves DEF Workload, Bind, Crash, ShellExits, Up, MTypeOK
  <2> QED
    BY <1>5, <2>1, FewerServers DEF Workload, Bind, Crash, ShellExits, files, swaps
<1>6. CASE Probes \/ UNCHANGED vars
  <2>1. Up' = Up
    BY <1>6 DEF Probes, Probe, vars, work, Up
  <2> QED
    BY <1>6, <2>1, FewerServers DEF Probes, Probe, vars, files, work, swaps
<1>7. ASSUME NEW s \in Swaps, Post(s) PROVE ServerInv'
  <2>1. main = "wait" /\ main' = "wait" /\ \A t \in Swaps : spc[t] \notin InFlight
    BY <1>7 DEF Post, Busy
  <2>2. Up' = Up /\ \A w \in Up : Serving(w)
    BY <1>0, <1>7, <2>1 DEF Post, ServerInv, work, Up
  <2> QED
    BY <1>7, <2>1, <2>2, SwapServes DEF Post, Serving, files, work, InFlight
<1>8. ASSUME NEW s \in Swaps, spc[s] \in InFlight,
             Term(s) \/ Kill(s) \/ FreePort(s) \/ FreePortFails(s) \/ WriteScript(s)
               \/ WritePid(s) \/ (\E w \in Runs : StartSwapped(s, w))
      PROVE  ServerInv'
  <2>0. main = "wait" /\ main' = "wait" /\ \A t \in Swaps \ {s} : spc[t] \notin InFlight
    BY <1>0, <1>8, Alone DEF Term, Kill, FreePort, FreePortFails, WriteScript, WritePid,
       StartSwapped
  <2>1. CASE Term(s) \/ Kill(s) \/ FreePortFails(s)
    <3>1. Up' \subseteq Up /\ missed' = missed /\ pidfile' = pidfile
      <4>1. CASE UNCHANGED <<shell, server>>
        BY <2>1, <4>1 DEF Term, Kill, FreePortFails, files, Up
      <4>2. CASE \E w \in Runs : KillShell(w)
        BY <2>1, <4>2, KillShellRemoves DEF Term, Kill, FreePortFails, files
      <4>3. CASE Kill(s) /\ old[s] = None /\ shell[None] = "alive"
        BY <4>3 DEF Kill, KillShell, files, MTypeOK, Up
      <4> QED
        BY <2>1, <4>1, <4>2, <4>3 DEF Term, Kill, FreePortFails, MTypeOK, work
    <3>2. \A w \in Up : w = pidfile
      BY <1>0, <2>0, <2>1, <3>1 DEF ServerInv, Serving, Term, Kill, FreePortFails, InFlight
    <3>3. PICK where \in {"kill", "port", "error"} : Goto(s, where)
      BY <2>1 DEF Term, Kill, FreePortFails
    <3> QED
      BY <2>0, <3>1, <3>2, <3>3, SwapServes DEF InFlight
  <2>2. CASE FreePort(s)
    BY <2>0, <2>2, SwapServes DEF FreePort
  <2>3. CASE WriteScript(s)
    <3>1. Up' = {}
      BY <1>0, <2>0, <2>3 DEF WriteScript, ServerInv, Serving, work, Up
    <3> QED
      BY <2>0, <2>3, <3>1, SwapServes DEF WriteScript
  <2>4. CASE WritePid(s)
    <3>1. Up' = Up /\ pidfile' = new[s] /\ missed' = missed
      BY <2>4 DEF WritePid, work, Up
    <3>2. \A w \in Up : w = new[s]
      BY <1>0, <2>0, <2>4, <3>1 DEF WritePid, ServerInv, Serving
    <3> QED
      BY <2>0, <2>4, <3>1, <3>2, SwapServes DEF WritePid
  <2>5. ASSUME NEW w \in Runs, StartSwapped(s, w) PROVE ServerInv'
    <3>1. Up = {}
      BY <1>0, <2>0, <2>5 DEF StartSwapped, ServerInv, Serving
    <3>2. Up' = {w}
      BY <2>5, <3>1, LaunchAdds DEF StartSwapped, MTypeOK
    <3>3. new'[s] = w
      BY <2>5 DEF StartSwapped, MTypeOK
    <3> QED
      BY <2>0, <2>5, <3>2, <3>3, SwapServes DEF StartSwapped, InFlight
  <2> QED
    BY <1>8, <2>1, <2>2, <2>3, <2>4, <2>5
<1>9. ASSUME NEW s \in Swaps, Swap(s) PROVE ServerInv'
  <2>1. CASE Post(s)
    BY <1>7, <2>1
  <2>2. CASE ~ Post(s)
    <3>1. spc[s] \in InFlight
      BY <1>9, <2>2 DEF Swap, Term, Kill, FreePort, FreePortFails, WriteScript, StartSwapped,
         WritePid, InFlight
    <3> QED
      BY <1>8, <1>9, <2>2, <3>1 DEF Swap
  <2> QED
    BY <2>1, <2>2
<1> QED
  BY <1>2, <1>3, <1>4, <1>5, <1>6, <1>9 DEF Next, Script, Probes

-----------------------------------------------------------------------------
(* The inductive invariant.                                                *)
THEOREM MonitorInduction == Spec => []MonitorInv
<1>1. Init => MonitorInv
  <2> SUFFICES ASSUME Init PROVE MonitorInv
    OBVIOUS
  <2>1. MTypeOK
    <3>1. restarts \in 0 .. MaxRestarts
      BY MonitorAssumption DEF Init
    <3>2. /\ secure \in BOOLEAN /\ monitor \in BOOLEAN
          /\ killed \in BOOLEAN /\ overlap \in BOOLEAN /\ missed \in BOOLEAN
      BY Zenon DEF Init
    <3>3. wrapped \in [Runs -> BOOLEAN]
      BY DEF Init
    <3>4. /\ shell \in [Runs -> {"none", "alive", "dead"}]
          /\ server \in [Runs -> {"none", "loading", "listening", "dead"}]
          /\ text \in [Runs -> Swaps \cup {None}]
      BY DEF Init
    <3>5. /\ spc \in [Swaps -> {"idle"} \cup InFlight \cup Swapped]
          /\ old \in [Swaps -> Runs \cup {None}]
          /\ new \in [Swaps -> Runs \cup {None}]
      BY DEF Init
    <3>6. /\ main \in Main
          /\ first \in Runs \cup {None}
          /\ lifecycle \in {"none", "empty", "setup", "running"}
          /\ verdict \in {"never", "pass", "fail"}
          /\ pidfile \in Runs \cup {None}
          /\ script \in Swaps \cup {None}
      BY DEF Init, Main
    <3> QED
      BY <3>1, <3>2, <3>3, <3>4, <3>5, <3>6 DEF MTypeOK
  <2>2. SetupInv /\ WorkInv /\ ServerInv
    BY DEF Init, SetupInv, WorkInv, ServerInv, AliveRuns, Up, InFlight
  <2> QED
    BY <2>1, <2>2 DEF MonitorInv
<1>2. MonitorInv /\ [Next]_vars => MonitorInv'
  BY MTypeStep, SetupStep, WorkStep, ServerStep DEF MonitorInv
<1> QED
  BY <1>1, <1>2, PTL DEF Spec

(* The state of a container stays of its types.                            *)
THEOREM MonitorTypes == Spec => []MTypeOK
<1>1. MonitorInv => MTypeOK
  BY DEF MonitorInv
<1> QED
  BY <1>1, MonitorInduction, PTL

(* No replica that still installs is given traffic, whatever the health    *)
(* loop, the swaps and its last life left behind.                          *)
THEOREM SetupFirst == Spec => []NoTrafficInSetup
<1>1. MonitorInv => NoTrafficInSetup
  BY DEF MonitorInv, SetupInv, NoTrafficInSetup, AggregateStatus, Allows
<1> QED
  BY <1>1, MonitorInduction, PTL

(* Swaps given one at a time leave one shell, the one in the pid file,     *)
(* which runs what the last swap brought; and if the last one left no      *)
(* server behind when it freed the port, no server but that workload's.    *)
THEOREM WorkloadUnique == Spec => []OneWorkload
<1>1. MonitorInv => OneWorkload
  <2>1. WorkInv /\ main = "wait" /\ ~ overlap /\ ~ Busy => \A w \in Runs :
          shell[w] = "alive" => pidfile = w /\ (text[w] = script \/ w = first)
    BY DEF WorkInv, Expected, Busy, AliveRuns
  <2>2. ServerInv /\ main = "wait" /\ ~ overlap /\ ~ Busy /\ ~ missed =>
          \A w \in Up : pidfile = w
    BY DEF ServerInv, Serving, Busy
  <2> QED
    BY <2>1, <2>2 DEF MonitorInv, OneWorkload
<1> QED
  BY <1>1, MonitorInduction, PTL
=============================================================================
