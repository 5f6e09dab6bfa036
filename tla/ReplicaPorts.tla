---------------------------- MODULE ReplicaPorts ----------------------------
(***************************************************************************)
(* Which port of a pod a process takes for the pod's monitor.  A process   *)
(* loads the cluster's YAML (spec.py), and chooses the monitor's port if   *)
(* the file gives none; the process that launches a pod publishes its own  *)
(* choice; every process that asks the pod later (runpod_client.py) looks  *)
(* for the port of ITS spec among those RunPod lists, and infers one if it *)
(* is not there.                                                           *)
(*                                                                         *)
(* The choice is seeded with hash(name), which Python salts per process:   *)
(* two processes may choose differently for one file.                      *)
(***************************************************************************)
EXTENDS Naturals, MtlsConfig

CONSTANTS Procs,         \* processes that load the file: daemons, the hub, the CLI
          Pods,
          SSH,           \* 22, which RunPod always publishes
          EphLo, EphHi,  \* 30000 and 49151
          Written        \* what operators may write into the file

Ephemeral == EphLo .. EphHi

ResourcesSpec ==
  [secure : BOOLEAN, worker : Nat \cup {None}, ports : SUBSET Nat,
   port : Nat \cup {None}, mtls : Materials \cup {None}]

ASSUME PortsAssumption ==
  /\ SSH \in Nat /\ EphLo \in Nat /\ EphHi \in Nat
  /\ SSH \notin Ephemeral
  /\ None \notin Nat
  /\ \A y \in Written : y \in ResourcesSpec

VARIABLES
  spec,    \* the spec each process has loaded last
  made     \* the spec each pod was launched with

portVars == <<spec, made>>

-----------------------------------------------------------------------------
(* ports_consistency.  A secure worker has one port for everything.        *)
Allocated(y) == Ephemeral \ (y.ports \cup {y.worker})

ServicePorts(y) ==
  CASE y.secure -> {y.worker} \ {None}
    [] ~ y.secure /\ y.port # None -> {y.port} \ {y.worker}
    [] OTHER -> Allocated(y)

Consistent(s) ==
  /\ s.worker # None => s.worker \in s.ports
  /\ s.secure <=> s.mtls # None

Loads(y) ==
  {s \in {[y EXCEPT !.port = q, !.ports = @ \cup {q}] : q \in ServicePorts(y)} :
     Consistent(s)}

(* ports_to_runpod_string                                                  *)
Published(s) == s.ports \cup {SSH}

(* pod.runtime.ports: private ports, and those with a public one.  RunPod  *)
(* lists any part of the published ports, at any time: none before the pod *)
(* runs and after it is gone; an entry may lack its public port.           *)
Listings(s) == {L \in [priv : SUBSET Published(s), pub : SUBSET Published(s)] :
                  L.pub \subseteq L.priv}

-----------------------------------------------------------------------------
Lowest(S) == CHOOSE q \in S : \A r \in S : q <= r
IsSingle(S) == \E q \in S : S = {q}

MutInfer(s, L) ==
  LET other == L.priv \ {s.worker}
      ephem == other \cap Ephemeral
  IN  CASE s.secure \/ other = {} -> None
        [] ~ s.secure /\ other # {} /\ s.port \in other -> s.port
        [] OTHER -> IF ephem # {} THEN Lowest(ephem) ELSE Lowest(other)

(* infer_replica_monitor_private_port                                      *)
Infer(s, L) ==
  LET other == L.priv \ {s.worker, SSH}
      ephem == other \cap Ephemeral
  IN  CASE s.secure \/ other = {} -> None
        [] ~ s.secure /\ IsSingle(other) -> Lowest(other)
        [] ~ s.secure /\ other # {} /\ ~ IsSingle(other) /\ s.port \in other -> s.port
        [] OTHER -> IF ephem # {} THEN Lowest(ephem) ELSE Lowest(other)

(* resolve_replica_monitor_public_endpoint: the private port whose public  *)
(* endpoint it returns.  Loading has made s.port the worker's if secure.   *)
Resolve(s, L) ==
  IF s.port \in L.pub THEN s.port
  ELSE IF Infer(s, L) \in L.pub THEN Infer(s, L) ELSE None

-----------------------------------------------------------------------------
PInit ==
  /\ spec = [p \in Procs |-> None]
  /\ made = [d \in Pods |-> None]

(* load_spec, of whatever the file says by then, secure_mode included.  A  *)
(* daemon loads it once, the hub when it lists its clusters; a process that*)
(* takes the place of an earlier one loads it with a new salt.             *)
Load(p) ==
  /\ \E y \in Written : \E s \in Loads(y) : spec' = [spec EXCEPT ![p] = s]
  /\ UNCHANGED made

(* create_pod, and the startup script: the monitor binds spec[p].port.     *)
LaunchPod(p, d) ==
  /\ spec[p] # None
  /\ made[d] = None
  /\ made' = [made EXCEPT ![d] = spec[p]]
  /\ UNCHANGED spec

PNext == \E p \in Procs : Load(p) \/ \E d \in Pods : LaunchPod(p, d)

PSpec == PInit /\ [][PNext]_portVars

-----------------------------------------------------------------------------
Loadable == UNION {Loads(y) : y \in Written}

PTypeOK ==
  /\ spec \in [Procs -> Loadable \cup {None}]
  /\ made \in [Pods -> Loadable \cup {None}]

(* What pod m publishes besides its monitor that a process with spec s may *)
(* take for one, and which of two such ports it prefers.                   *)
Rivals(s, m) == m.ports \ {s.worker, SSH, m.port}

Outranks(q, r) ==
  IF r \in Ephemeral THEN q \in Ephemeral /\ q < r ELSE q \in Ephemeral \/ q < r

(* The process chose or was given the pod's port, or a port the pod does   *)
(* not publish, so that it infers one and the monitor outranks the others. *)
Certain(s, m) ==
  \/ s.port = m.port
  \/ /\ ~ s.secure
     /\ s.port \notin Published(m)
     /\ m.port \notin {s.worker, SSH}
     /\ \A r \in Rivals(s, m) : Outranks(m.port, r)

(* However the ports were chosen, and however the file was edited between  *)
(* the launch of a pod and the start of a process: these are exactly the   *)
(* cases in which the process finds the pod's monitor whatever part of the *)
(* pod's ports is listed, once the monitor's public port is.  In any other *)
(* case there is a listing with it that leads to another port or nowhere.  *)
MonitorFound == \A p \in Procs, d \in Pods :
  spec[p] # None /\ made[d] # None =>
    (Certain(spec[p], made[d])
       <=> \A L \in Listings(made[d]) :
             made[d].port \in L.pub => Resolve(spec[p], L) = made[d].port)

(* Two processes have loaded one file, and may have chosen two ports.      *)
SameFile(s, m) ==
  /\ s.secure = m.secure /\ s.worker = m.worker /\ s.mtls = m.mtls
  /\ s.ports \ {s.port} = m.ports \ {m.port}
=============================================================================
