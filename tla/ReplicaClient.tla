--------------------------- MODULE ReplicaClient ----------------------------
(***************************************************************************)
(* _fetch_replica_http_get (runpod_client.py): the threads of the process  *)
(* that serves a UI ask the replicas' monitors.  A call takes the spec its *)
(* process has loaded and a listed pod, looks for the monitor's port, once *)
(* more in a fresh listing if it finds none (ReplicaPorts), and gets the   *)
(* client's certificate files if the cluster is secure (MtlsFiles).        *)
(***************************************************************************)
EXTENDS ReplicaPorts, MtlsFiles

CONSTANT UI  \* the process: a daemon, or the hub

ASSUME ClientAssumption == UI \in Procs

VARIABLES
  rpc,  \* where each call is
  ask,  \* its spec and its pod, while it looks for the port
  to    \* the private port it asks

callVars == <<rpc, ask, to>>
rvars == <<portVars, fileVars, callVars>>

RTypeOK ==
  /\ PTypeOK
  /\ FTypeOK
  /\ rpc \in [Threads -> {"idle", "resolve", "refresh", "tls", "sent"}]
  /\ ask = [t \in Threads |-> ask[t]]
  /\ to \in [Threads -> Nat \cup {None}]
  /\ \A t \in Threads :
       /\ ask[t] \in IF rpc[t] \in {"resolve", "refresh"}
                    THEN [spec : Loadable, pod : {d \in Pods : made[d] # None}]
                    ELSE {None}
       /\ to[t] # None <=> rpc[t] \in {"tls", "sent"}
       /\ rpc[t] = "tls" => fpc[t] # "idle"
       /\ fpc[t] # "idle" => rpc[t] \in {"tls", "sent"}

RInit ==
  /\ PInit
  /\ FInit
  /\ rpc = [t \in Threads |-> "idle"]
  /\ ask = [t \in Threads |-> None]
  /\ to = [t \in Threads |-> None]

-----------------------------------------------------------------------------
RGoto(t, where) == rpc' = [rpc EXCEPT ![t] = where]

Ask(t, d) ==
  /\ rpc[t] = "idle"
  /\ spec[UI] # None /\ made[d] # None
  /\ ask' = [ask EXCEPT ![t] = [spec |-> spec[UI], pod |-> d]]
  /\ RGoto(t, "resolve")
  /\ UNCHANGED <<portVars, fileVars, to>>

(* The port of the listing the call was given, or of a new one, which may  *)
(* have no such pod any more.                                              *)
Answers(t) ==
  IF ask[t] = None THEN {}
  ELSE {Resolve(ask[t].spec, L) : L \in Listings(made[ask[t].pod])}

Found(t) ==
  /\ rpc[t] \in {"resolve", "refresh"}
  /\ \E q \in Answers(t) \ {None} : to' = [to EXCEPT ![t] = q]
  /\ ask' = [ask EXCEPT ![t] = None]
  /\ IF ask[t].spec.secure
     THEN BeginFiles(t, ask[t].spec.mtls) /\ RGoto(t, "tls")
     ELSE RGoto(t, "sent") /\ UNCHANGED fileVars
  /\ UNCHANGED portVars

NotFound(t) ==
  /\ rpc[t] = "resolve"
  /\ None \in Answers(t)
  /\ RGoto(t, "refresh")
  /\ UNCHANGED <<portVars, fileVars, ask, to>>

MutGivesUp(t) ==
  /\ rpc[t] = "refresh"
  /\ RGoto(t, "idle")
  /\ UNCHANGED <<portVars, fileVars, ask, to>>

(* "(no public endpoint yet ...)": no listing has it, or the listing fails.*)
GivesUp(t) ==
  /\ rpc[t] = "refresh"
  /\ RGoto(t, "idle")
  /\ ask' = [ask EXCEPT ![t] = None]
  /\ UNCHANGED <<portVars, fileVars, to>>

TlsStep(t) ==
  /\ rpc[t] = "tls"
  /\ FilesStep(t)
  /\ RGoto(t, IF fpc'[t] = "loaded" THEN "sent" ELSE "tls")
  /\ UNCHANGED <<portVars, ask, to>>

(* The body, an error line, or the exception: the call returns.            *)
Answered(t) ==
  /\ rpc[t] = "sent"
  /\ IF fpc[t] # "idle" THEN Done(t) ELSE UNCHANGED fileVars
  /\ RGoto(t, "idle")
  /\ to' = [to EXCEPT ![t] = None]
  /\ UNCHANGED <<portVars, ask>>

CallStep(t) ==
  \/ \E d \in Pods : Ask(t, d)
  \/ Found(t) \/ NotFound(t) \/ GivesUp(t) \/ TlsStep(t) \/ Answered(t)

RNext ==
  \/ \E t \in Threads : CallStep(t)
  \/ PNext /\ UNCHANGED <<fileVars, callVars>>

RSpec == RInit /\ [][RNext]_rvars

-----------------------------------------------------------------------------
(* What a pod publishes besides the worker, sshd and its monitor.          *)
Extra(m) == m.ports \ {m.worker, SSH, m.port}

(* While the listing lacks the monitor, a call goes nowhere, or to a port  *)
(* the user added; never to sshd or to a plain pod's worker.  Unless the   *)
(* file gives sshd's port to the monitor, gives the worker another port    *)
(* than the pod's, or has become secure since the pod was made: a secure   *)
(* spec takes the worker's port for the monitor's, and asks a plain pod's  *)
(* worker.                                                                 *)
NeverAstray == [][\A t \in Threads :
  LET s == ask[t].spec
      m == made[ask[t].pod]
  IN  /\ to[t] = None /\ to'[t] # None
      /\ s.port # SSH
      /\ s.worker = m.worker
      /\ s.secure => m.secure
      => to'[t] \in {m.port} \cup Extra(m)]_rvars
=============================================================================
