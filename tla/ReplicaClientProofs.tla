-------------------------- MODULE ReplicaClientProofs -------------------------
(***************************************************************************)
(* Theorems about ReplicaPorts and ReplicaClient, for any processes, pods, *)
(* threads and contents of the file; what MtlsFiles promises carries over. *)
(***************************************************************************)
EXTENDS ReplicaClient, MtlsFilesProofs, WellFoundedInduction

(* What loading makes of a file.                                           *)
LEMMA LoadedSpec ==
  ASSUME NEW s \in Loadable
  PROVE  /\ s.port \in Nat /\ s.ports \subseteq Nat /\ s.port \in s.ports
         /\ s.worker \in Nat \cup {None}
         /\ s.secure => s.mtls \in Materials /\ s.port = s.worker
         /\ ~ s.secure => s.port # s.worker
<1>1. PICK y \in Written : s \in Loads(y)
  BY DEF Loadable
<1>2. PICK q \in ServicePorts(y) :
        s = [y EXCEPT !.port = q, !.ports = @ \cup {q}] /\ Consistent(s)
  BY <1>1 DEF Loads
<1>3. y \in ResourcesSpec
  BY PortsAssumption
<1>4. /\ s.secure = y.secure /\ s.worker = y.worker /\ s.mtls = y.mtls
      /\ s.port = q /\ s.ports = y.ports \cup {q}
  BY <1>2, <1>3 DEF ResourcesSpec
<1>5. Ephemeral \subseteq Nat
  BY PortsAssumption DEF Ephemeral
<1>6. CASE y.secure
  <2>1. q = y.worker /\ q # None
    BY <1>2, <1>6 DEF ServicePorts
  <2> QED
    BY <1>2, <1>3, <1>4, <1>6, <2>1 DEF ResourcesSpec, Consistent
<1>7. CASE ~ y.secure /\ y.port # None
  <2>1. q = y.port /\ q # y.worker
    BY <1>2, <1>7 DEF ServicePorts
  <2> QED
    BY <1>3, <1>4, <1>7, <2>1 DEF ResourcesSpec
<1>8. CASE ~ y.secure /\ y.port = None
  <2>1. q \in Ephemeral /\ q # y.worker
    BY <1>2, <1>8 DEF ServicePorts, Allocated
  <2> QED
    BY <1>3, <1>4, <1>5, <1>8, <2>1 DEF ResourcesSpec
<1> QED
  BY <1>6, <1>7, <1>8

LEMMA EphemeralPorts == Ephemeral \subseteq Nat
BY PortsAssumption DEF Ephemeral

LEMMA LeastPort ==
  ASSUME NEW S \in SUBSET Nat, S # {}
  PROVE  \E q \in S : \A r \in S : q <= r
<1>1. PICK q \in S : \A r \in S : <<r, q>> \notin OpToRel(<, Nat)
  BY NatLessThanWellFounded, WFMin
<1>2. ASSUME NEW r \in S PROVE ~ (r < q)
  BY <1>1 DEF OpToRel
<1> QED
  BY <1>2

LEMMA LowestIs ==
  ASSUME NEW S \in SUBSET Nat, NEW q \in S, \A r \in S : q <= r
  PROVE  Lowest(S) = q
<1>1. \A x \in S : (\A r \in S : x <= r) <=> x = q
  <2> SUFFICES ASSUME NEW x \in S, \A r \in S : x <= r PROVE x = q
    OBVIOUS
  <2> QED
    BY x <= q, q <= x
<1>2. Lowest(S) = CHOOSE x \in S : x = q
  BY <1>1, Zenon DEF Lowest
<1> QED
  BY <1>2

(* Of two ports one outranks the other.                                    *)
LEMMA OneOutranks ==
  ASSUME NEW q \in Nat, NEW r \in Nat, q # r, ~ Outranks(q, r)
  PROVE  Outranks(r, q)
BY DEF Outranks

(* A plain spec whose own port is not listed infers the port that outranks *)
(* all others but the worker's and sshd's.                                 *)
LEMMA BestInferred ==
  ASSUME NEW s, NEW L, NEW q, ~ s.secure,
         L.priv \subseteq Nat, q \in L.priv \ {s.worker, SSH},
         s.port \notin L.priv \ {s.worker, SSH},
         \A r \in L.priv \ {s.worker, SSH, q} : Outranks(q, r)
  PROVE  Infer(s, L) = q
<1> DEFINE other == L.priv \ {s.worker, SSH}
<1>1. other \subseteq Nat /\ q \in other /\ other \cap Ephemeral \subseteq Nat
  OBVIOUS
<1>2. CASE IsSingle(other)
  <2>1. other = {q}
    BY <1>1, <1>2 DEF IsSingle
  <2>2. Lowest(other) = q
    BY <1>1, <2>1, LowestIs
  <2> QED
    BY <1>2, <2>1, <2>2 DEF Infer
<1>3. CASE ~ IsSingle(other) /\ other \cap Ephemeral # {}
  <2>1. q \in Ephemeral /\ \A r \in other \cap Ephemeral : q <= r
    BY <1>1, <1>3 DEF Outranks
  <2>2. Lowest(other \cap Ephemeral) = q
    BY <1>1, <2>1, LowestIs
  <2> QED
    BY <1>1, <1>3, <2>2 DEF Infer
<1>4. CASE ~ IsSingle(other) /\ other \cap Ephemeral = {}
  <2>1. \A r \in other : q <= r
    BY <1>1, <1>4 DEF Outranks
  <2>2. Lowest(other) = q
    BY <1>1, <2>1, LowestIs
  <2> QED
    BY <1>1, <1>4, <2>2 DEF Infer
<1> QED
  BY <1>2, <1>3, <1>4

LEMMA NothingInferred ==
  ASSUME NEW s, NEW L, s.secure \/ L.priv \subseteq {s.worker, SSH}
  PROVE  Infer(s, L) = None
<1> DEFINE other == L.priv \ {s.worker, SSH}
<1>1. s.secure \/ other = {}
  OBVIOUS
<1> HIDE DEF other
<1> QED
  BY <1>1 DEF Infer, IsSingle, other

(* What is inferred is listed, and neither the worker's port nor sshd's.   *)
LEMMA InferredListed ==
  ASSUME NEW s, NEW L, L.priv \subseteq Nat, Infer(s, L) # None
  PROVE  ~ s.secure /\ Infer(s, L) \in L.priv \ {s.worker, SSH}
<1> DEFINE other == L.priv \ {s.worker, SSH}
<1>1. ~ s.secure /\ other # {} /\ other \subseteq Nat
  BY NothingInferred
<1>2. ASSUME NEW S \in SUBSET other, S # {} PROVE Lowest(S) \in other
  <2>1. S \subseteq Nat
    BY <1>1
  <2>2. PICK q \in S : \A r \in S : q <= r
    BY <1>2, <2>1, LeastPort
  <2> QED
    BY <2>1, <2>2, LowestIs
<1>3. Lowest(other) \in other
  BY <1>1, <1>2
<1>4. other \cap Ephemeral # {} => Lowest(other \cap Ephemeral) \in other
  BY <1>2
<1> HIDE DEF other
<1> QED
  BY <1>1, <1>3, <1>4 DEF Infer, other

(* The ports a listing of a pod may have.                                  *)
LEMMA ListedPorts ==
  ASSUME NEW m, NEW L \in Listings(m)
  PROVE  /\ L.pub \subseteq L.priv
         /\ L.priv \subseteq {m.worker, SSH, m.port} \cup Extra(m)
BY DEF Listings, Published, Extra

-----------------------------------------------------------------------------
LEMMA PortsTypeStep ==
  ASSUME PTypeOK, [PNext]_portVars
  PROVE  PTypeOK'
<1>1. ASSUME NEW p \in Procs, Load(p)
      PROVE  PTypeOK'
  <2>1. PICK y \in Written : \E s \in Loads(y) : spec' = [spec EXCEPT ![p] = s]
    BY <1>1 DEF Load
  <2>2. PICK s \in Loads(y) : spec' = [spec EXCEPT ![p] = s]
    BY <2>1
  <2>3. s \in Loadable
    BY <2>2 DEF Loadable
  <2> QED
    BY <1>1, <2>2, <2>3 DEF Load, PTypeOK
<1>2. ASSUME NEW p \in Procs, NEW d \in Pods, LaunchPod(p, d)
      PROVE  PTypeOK'
  BY <1>2 DEF LaunchPod, PTypeOK
<1>3. CASE UNCHANGED portVars
  BY <1>3 DEF portVars, PTypeOK
<1> QED
  BY <1>1, <1>2, <1>3 DEF PNext

LEMMA PortsInduction == PSpec => []PTypeOK
<1>1. PInit => PTypeOK
  BY DEF PInit, PTypeOK
<1>2. PTypeOK /\ [PNext]_portVars => PTypeOK'
  BY PortsTypeStep
<1> QED
  BY <1>1, <1>2, PTL DEF PSpec

(* A process in a certain case finds the monitor in every listing that has *)
(* its public port ...                                                     *)
LEMMA CertainFinds ==
  ASSUME NEW s \in Loadable, NEW m \in Loadable, Certain(s, m),
         NEW L \in Listings(m), m.port \in L.pub
  PROVE  Resolve(s, L) = m.port
<1>1. CASE s.port \in L.pub
  BY <1>1 DEF Resolve, Certain, Listings
<1>2. CASE s.port \notin L.pub
  <2>1. /\ ~ s.secure /\ s.port \notin Published(m) /\ m.port \notin {s.worker, SSH}
        /\ \A r \in Rivals(s, m) : Outranks(m.port, r)
    BY <1>2 DEF Certain
  <2>2. L.priv \subseteq Published(m) /\ L.priv \subseteq Nat /\ L.pub \subseteq L.priv
    BY LoadedSpec, PortsAssumption DEF Listings, Published
  <2>3. L.priv \ {s.worker, SSH, m.port} \subseteq Rivals(s, m)
    BY <2>2 DEF Rivals, Published
  <2>4. s.port \notin L.priv /\ m.port \in L.priv
    BY <2>1, <2>2
  <2>5. Infer(s, L) = m.port
    BY <2>1, <2>2, <2>3, <2>4, BestInferred
  <2> QED
    BY <1>2, <2>5 DEF Resolve
<1> QED
  BY <1>1, <1>2

(* ... and in any other case some listing that has it misleads it: of the  *)
(* two ports when the pod publishes the one it looks for, of the monitor's *)
(* alone when it infers none, of a rival's too when it infers that one.    *)
LEMMA UncertainMisses ==
  ASSUME NEW s \in Loadable, NEW m \in Loadable, ~ Certain(s, m)
  PROVE  \E L \in Listings(m) : m.port \in L.pub /\ Resolve(s, L) # m.port
<1> DEFINE All(S) == [priv |-> S, pub |-> S]
<1>1. ASSUME NEW S \in SUBSET Published(m) PROVE All(S) \in Listings(m)
  BY DEF Listings
<1>2. /\ s.port # m.port /\ m.port \in Published(m) /\ m.port \in Nat /\ None \notin Nat
      /\ m.ports \subseteq Nat
  BY LoadedSpec, PortsAssumption DEF Certain, Published
<1>3. CASE s.port \in Published(m)
  <2> DEFINE L == All({s.port, m.port})
  <2>1. L \in Listings(m) /\ m.port \in L.pub
    BY <1>1, <1>2, <1>3
  <2>2. Resolve(s, L) = s.port
    BY DEF Resolve
  <2> QED
    BY <1>2, <2>1, <2>2
<1>4. CASE s.port \notin Published(m) /\ (s.secure \/ m.port \in {s.worker, SSH})
  <2> DEFINE L == All({m.port})
  <2>1. L \in Listings(m) /\ m.port \in L.pub
    BY <1>1, <1>2
  <2>2. Infer(s, L) = None
    BY <1>4, NothingInferred
  <2>3. Resolve(s, L) = None
    BY <1>2, <2>2 DEF Resolve
  <2> QED
    BY <1>2, <2>1, <2>3
<1>5. CASE /\ s.port \notin Published(m) /\ ~ s.secure /\ m.port \notin {s.worker, SSH}
           /\ \E r \in Rivals(s, m) : ~ Outranks(m.port, r)
  <2> PICK r \in Rivals(s, m) : ~ Outranks(m.port, r)
    BY <1>5
  <2> DEFINE L == All({m.port, r})
  <2>1. r \in Nat /\ r # m.port /\ r \notin {s.worker, SSH} /\ r \in Published(m)
    BY <1>2 DEF Rivals, Published
  <2>2. L \in Listings(m) /\ m.port \in L.pub
    BY <1>1, <1>2, <2>1
  <2>3. Outranks(r, m.port)
    BY <1>2, <2>1, OneOutranks
  <2>4. /\ L.priv \subseteq Nat /\ r \in L.priv \ {s.worker, SSH}
        /\ s.port \notin L.priv
        /\ \A q \in L.priv \ {s.worker, SSH, r} : Outranks(r, q)
    BY <1>2, <1>5, <2>1, <2>3
  <2>5. Infer(s, L) = r
    BY <1>5, <2>4, BestInferred
  <2>6. Resolve(s, L) = r
    BY <2>4, <2>5 DEF Resolve
  <2> QED
    BY <2>1, <2>2, <2>6
<1> QED
  BY <1>2, <1>3, <1>4, <1>5 DEF Certain

(* Whatever ports the file and the processes choose, and however the file  *)
(* is edited: exactly when its own port is the pod's, or is not among the  *)
(* pod's and the monitor's outranks them, does a process find the monitor  *)
(* whatever else is listed.                                                *)
THEOREM AnyProcessFindsMonitor == PSpec => []MonitorFound
<1>1. PTypeOK => MonitorFound
  <2> SUFFICES ASSUME PTypeOK, NEW p \in Procs, NEW d \in Pods,
                      spec[p] # None, made[d] # None
               PROVE  Certain(spec[p], made[d])
                        <=> \A L \in Listings(made[d]) :
                              made[d].port \in L.pub => Resolve(spec[p], L) = made[d].port
    BY DEF MonitorFound
  <2>1. spec[p] \in Loadable /\ made[d] \in Loadable
    BY DEF PTypeOK
  <2> QED
    BY <2>1, CertainFinds, UncertainMisses
<1> QED
  BY <1>1, PortsInduction, PTL

(* inject_quickpod_allocation_seed: "Stable default quickpod_service_port  *)
(* per cluster name (dashboard + RunPod mappings stay aligned)".  It is not*)
(* so: of any plain file that publishes a port of the user's in the        *)
(* ephemeral range two processes may load specs, of which one leads a      *)
(* process past the monitor of a pod launched with the other.              *)
THEOREM SaltedChoicesMisalign ==
  ASSUME NEW y \in Written, ~ y.secure, y.mtls = None, y.port = None,
         y.worker # None => y.worker \in y.ports,
         NEW q \in Allocated(y), NEW r \in Allocated(y), q # r,
         NEW u \in (y.ports \cap Ephemeral) \ {y.worker}, u < q
  PROVE  \E s, m \in Loads(y) :
           /\ SameFile(s, m)
           /\ \E L \in Listings(m) : m.port \in L.pub /\ Resolve(s, L) # m.port
<1> DEFINE s == [y EXCEPT !.port = r, !.ports = @ \cup {r}]
           m == [y EXCEPT !.port = q, !.ports = @ \cup {q}]
<1>1. y \in ResourcesSpec /\ ServicePorts(y) = Allocated(y)
  BY PortsAssumption DEF ServicePorts
<1>2. /\ s.port = r /\ s.ports = y.ports \cup {r} /\ s.secure = y.secure
      /\ s.worker = y.worker /\ s.mtls = y.mtls
  BY <1>1 DEF ResourcesSpec
<1>3. /\ m.port = q /\ m.ports = y.ports \cup {q} /\ m.secure = y.secure
      /\ m.worker = y.worker /\ m.mtls = y.mtls
  BY <1>1 DEF ResourcesSpec
<1>4. s \in Loads(y) /\ m \in Loads(y)
  BY <1>1, <1>2, <1>3 DEF Loads, Consistent
<1>5. SameFile(s, m)
  BY <1>2, <1>3 DEF SameFile, Allocated
<1>6. ~ Certain(s, m)
  <2>1. u \in Nat /\ q \in Nat /\ u \in Ephemeral /\ u # SSH
    BY EphemeralPorts, PortsAssumption DEF Allocated
  <2>2. u \in Rivals(s, m) /\ ~ Outranks(q, u)
    BY <1>2, <1>3, <2>1 DEF Rivals, Outranks
  <2> QED
    BY <1>2, <1>3, <2>2 DEF Certain
<1>7. s \in Loadable /\ m \in Loadable
  BY <1>4 DEF Loadable
<1> HIDE DEF s, m
<1> QED
  BY <1>4, <1>5, <1>6, <1>7, UncertainMisses

(* Where the file has not changed but for the port, is plain, and gives the*)
(* pod nothing but its worker and monitor, the promise of                  *)
(* inject_quickpod_allocation_seed holds for any two choices of the port.  *)
THEOREM MonitorAloneIsFound ==
  ASSUME NEW s \in Loadable, NEW m \in Loadable, SameFile(s, m),
         ~ s.secure, SSH \notin {s.port, m.port}, m.ports \subseteq {m.worker, m.port},
         NEW L \in Listings(m), m.port \in L.pub
  PROVE  Resolve(s, L) = m.port
<1>1. Rivals(s, m) = {} /\ m.port \notin {s.worker, SSH}
  BY LoadedSpec DEF Rivals, SameFile
<1>2. s.port # m.port => s.port \notin Published(m)
  BY LoadedSpec DEF Published, SameFile
<1> QED
  BY <1>1, <1>2, CertainFinds DEF Certain

-----------------------------------------------------------------------------
(* The calls use the two parts as their specifications say.                *)
LEMMA PortsPart ==
  ASSUME [RNext]_rvars
  PROVE  [PNext]_portVars
BY DEF RNext, CallStep, Ask, Found, NotFound, GivesUp, TlsStep, Answered, rvars, portVars

LEMMA FilesPart ==
  ASSUME RTypeOK, [RNext]_rvars
  PROVE  [FNext]_fileVars
<1>1. ASSUME NEW t \in Threads, Found(t)
      PROVE  [FNext]_fileVars
  <2>1. ask[t].spec \in Loadable
    BY <1>1 DEF RTypeOK, Found
  <2>2. ask[t].spec.secure => ask[t].spec.mtls \in Materials
    BY <2>1, LoadedSpec
  <2> QED
    BY <1>1, <2>2 DEF Found, FNext
<1>2. ASSUME NEW t \in Threads, TlsStep(t)
      PROVE  [FNext]_fileVars
  BY <1>2 DEF TlsStep, FNext
<1>3. ASSUME NEW t \in Threads, Answered(t)
      PROVE  [FNext]_fileVars
  BY <1>3 DEF Answered, FNext
<1>4. ASSUME NEW t \in Threads, (\E d \in Pods : Ask(t, d)) \/ NotFound(t) \/ GivesUp(t)
      PROVE  UNCHANGED fileVars
  BY <1>4 DEF Ask, NotFound, GivesUp
<1>5. UNCHANGED rvars => UNCHANGED fileVars
  BY DEF rvars
<1> QED
  BY <1>1, <1>2, <1>3, <1>4, <1>5 DEF RNext, CallStep

(* Where a call is says what it holds.                                     *)
CallsTyped ==
  /\ rpc \in [Threads -> {"idle", "resolve", "refresh", "tls", "sent"}]
  /\ ask = [t \in Threads |-> ask[t]]
  /\ to \in [Threads -> Nat \cup {None}]
  /\ \A t \in Threads :
       /\ ask[t] \in IF rpc[t] \in {"resolve", "refresh"}
                    THEN [spec : Loadable, pod : {d \in Pods : made[d] # None}]
                    ELSE {None}
       /\ to[t] # None <=> rpc[t] \in {"tls", "sent"}
       /\ rpc[t] = "tls" => fpc[t] # "idle"
       /\ fpc[t] # "idle" => rpc[t] \in {"tls", "sent"}

LEMMA AnswerPort ==
  ASSUME RTypeOK, NEW t \in Threads, rpc[t] \in {"resolve", "refresh"},
         NEW q \in Answers(t) \ {None}
  PROVE  q \in Nat
<1>1. PICK L \in Listings(made[ask[t].pod]) : q = Resolve(ask[t].spec, L)
  BY DEF Answers
<1>2. ask[t].spec \in Loadable /\ made[ask[t].pod] \in Loadable
  BY DEF RTypeOK, PTypeOK
<1>3. L.pub \subseteq Nat
  BY <1>1, <1>2, LoadedSpec, PortsAssumption DEF Listings, Published
<1> QED
  BY <1>1, <1>2, <1>3, LoadedSpec DEF Resolve

LEMMA FilesStepMoves ==
  ASSUME FTypeOK, NEW t \in Threads, FilesStep(t)
  PROVE  fpc' = [fpc EXCEPT ![t] = fpc'[t]] /\ fpc[t] # "idle" /\ fpc'[t] # "idle"
BY DEF FTypeOK, FilesStep, Check, Clear, Remove, Make, MakeFails, Publish, Name,
       Write, WriteRest, WriteLost, WriteFails, Take, LoadFiles, Finish, FAt, FGoto

LEMMA CallsTypedStep ==
  ASSUME RTypeOK, PTypeOK', FTypeOK', [RNext]_rvars
  PROVE  CallsTyped'
<1> USE DEF RTypeOK, CallsTyped, RGoto
<1>2. ASSUME NEW t \in Threads, NEW d \in Pods, Ask(t, d)
      PROVE  CallsTyped'
  <2>1. spec[UI] \in Loadable
    BY <1>2, ClientAssumption DEF Ask, PTypeOK
  <2> QED
    BY <1>2, <2>1 DEF Ask, fileVars, portVars
<1>3. ASSUME NEW t \in Threads, Found(t)
      PROVE  CallsTyped'
  <2>1. PICK q \in Nat : q # None /\ to' = [to EXCEPT ![t] = q]
    BY <1>3, AnswerPort, PortsAssumption DEF Found
  <2>2. /\ rpc' = [rpc EXCEPT ![t] = IF ask[t].spec.secure THEN "tls" ELSE "sent"]
        /\ fpc' = IF ask[t].spec.secure THEN [fpc EXCEPT ![t] = "check"] ELSE fpc
        /\ ask' = [ask EXCEPT ![t] = None]
        /\ rpc[t] \in {"resolve", "refresh"}
        /\ UNCHANGED portVars
    BY <1>3 DEF Found, BeginFiles, FGoto, fileVars
  <2> QED
    BY <2>1, <2>2 DEF portVars, FTypeOK
<1>4. ASSUME NEW t \in Threads, NotFound(t)
      PROVE  CallsTyped'
  BY <1>4 DEF NotFound, fileVars, portVars
<1>5. ASSUME NEW t \in Threads, GivesUp(t)
      PROVE  CallsTyped'
  BY <1>5 DEF GivesUp, fileVars, portVars
<1>6. ASSUME NEW t \in Threads, TlsStep(t)
      PROVE  CallsTyped'
  <2>1. fpc' = [fpc EXCEPT ![t] = fpc'[t]] /\ fpc[t] # "idle" /\ fpc'[t] # "idle"
    BY <1>6, FilesStepMoves DEF TlsStep
  <2> QED
    BY <1>6, <2>1 DEF TlsStep, portVars, FTypeOK
<1>7. ASSUME NEW t \in Threads, Answered(t)
      PROVE  CallsTyped'
  <2>1. fpc' = IF fpc[t] # "idle" THEN [fpc EXCEPT ![t] = "idle"] ELSE fpc
    BY <1>7 DEF Answered, Done, FGoto, fileVars
  <2> QED
    BY <1>7, <2>1 DEF Answered, portVars, FTypeOK
<1>8. ASSUME PNext, UNCHANGED <<fileVars, callVars>>
      PROVE  CallsTyped'
  <2>1. \A d \in Pods : made[d] # None => made'[d] # None
    BY <1>8 DEF PNext, Load, LaunchPod, PTypeOK
  <2>2. UNCHANGED <<fpc, rpc, ask, to>>
    BY <1>8 DEF fileVars, callVars
  <2> QED
    BY <2>1, <2>2
<1>9. CASE UNCHANGED rvars
  BY <1>9 DEF rvars, fileVars, callVars, portVars
<1> QED
  BY <1>2, <1>3, <1>4, <1>5, <1>6, <1>7, <1>8, <1>9 DEF RNext, CallStep

LEMMA ClientInduction == RSpec => []RTypeOK
<1>1. RInit => RTypeOK
  BY FilesAssumption, MaterialsAssumption, PortsAssumption
     DEF RInit, PInit, FInit, RTypeOK, PTypeOK, FTypeOK, FPC, Contents
<1>2. RTypeOK /\ [RNext]_rvars => RTypeOK'
  <2> SUFFICES ASSUME RTypeOK, [RNext]_rvars
               PROVE  RTypeOK'
    OBVIOUS
  <2>1. PTypeOK'
    BY PortsPart, PortsTypeStep DEF RTypeOK
  <2>2. FTypeOK'
    BY FilesPart, FTypeStep DEF RTypeOK
  <2> QED
    BY <2>1, <2>2, CallsTypedStep DEF RTypeOK, CallsTyped
<1> QED
  BY <1>1, <1>2, PTL DEF RSpec

(* The state of a UI process has its types, and where a call is says what  *)
(* it holds.                                                               *)
THEOREM ClientTyped == RSpec => []RTypeOK
BY ClientInduction

(* A call uses the ports and the files of its process as their own         *)
(* specifications say: whatever these promise holds for every call.        *)
THEOREM ClientImplementsParts == RSpec => PSpec /\ FSpec
<1>1. RInit => PInit /\ FInit
  BY DEF RInit
<1>2. RTypeOK /\ [RNext]_rvars => [PNext]_portVars /\ [FNext]_fileVars
  BY PortsPart, FilesPart
<1> QED
  BY <1>1, <1>2, ClientInduction, PTL DEF RSpec, PSpec, FSpec

(* What MonitorFound says of processes and pods holds while a UI asks.     *)
THEOREM ClientFindsMonitor == RSpec => []MonitorFound
BY ClientImplementsParts, AnyProcessFindsMonitor, PTL

THEOREM ClientKeepsMaterial == RSpec => []QuietMaterial /\ []LoneCall
BY ClientImplementsParts, MaterialSurvivesRaces, LoneCallLoadsOwn, PTL

(* Whatever RunPod lists of a pod: a call goes to its monitor, to a port   *)
(* the user added, or nowhere.  The worker's port has not changed, the file*)
(* did not become secure since the launch, and gives the monitor another   *)
(* port than sshd's.                                                       *)
THEOREM CallsNeverAstray == RSpec => NeverAstray
<1> DEFINE Step == \A t \in Threads :
      LET s == ask[t].spec
          m == made[ask[t].pod]
      IN  /\ to[t] = None /\ to'[t] # None
          /\ s.port # SSH
          /\ s.worker = m.worker
          /\ s.secure => m.secure
          => to'[t] \in {m.port} \cup Extra(m)
<1>1. RTypeOK /\ [RNext]_rvars => [Step]_rvars
  <2> SUFFICES ASSUME RTypeOK, RNext, NEW t \in Threads,
                      to[t] = None, to'[t] # None,
                      ask[t].spec.port # SSH,
                      ask[t].spec.worker = made[ask[t].pod].worker,
                      ask[t].spec.secure => made[ask[t].pod].secure
               PROVE  to'[t] \in {made[ask[t].pod].port} \cup Extra(made[ask[t].pod])
    OBVIOUS
  <2> DEFINE s == ask[t].spec
             m == made[ask[t].pod]
  <2>1. Found(t)
    BY DEF RTypeOK, RNext, CallStep, Ask, Found, NotFound, GivesUp, TlsStep, Answered, callVars
  <2>2. PICK L \in Listings(m) : to'[t] = Resolve(s, L)
    BY <2>1 DEF Found, Answers, RTypeOK
  <2>3. s \in Loadable /\ m \in Loadable
    BY <2>1 DEF Found, RTypeOK, PTypeOK
  <2>4. /\ L.pub \subseteq L.priv /\ L.priv \subseteq {m.worker, SSH, m.port} \cup Extra(m)
        /\ L.priv \subseteq Nat
    BY <2>3, ListedPorts, LoadedSpec, PortsAssumption DEF Listings, Published
  <2>5. CASE s.port \in L.pub
    <3>1. to'[t] = s.port
      BY <2>2, <2>5 DEF Resolve
    <3>2. s.port = m.worker => s.port = m.port
      BY <2>3, LoadedSpec
    <3> QED
      BY <2>4, <2>5, <3>1, <3>2
  <2>6. CASE s.port \notin L.pub
    <3>1. Infer(s, L) # None /\ to'[t] = Infer(s, L)
      BY <2>2, <2>6 DEF Resolve
    <3>2. Infer(s, L) \in L.priv \ {s.worker, SSH}
      BY <2>4, <3>1, InferredListed
    <3> QED
      BY <2>4, <3>1, <3>2
  <2> QED
    BY <2>5, <2>6
<1> QED
  BY <1>1, ClientInduction, PTL DEF RSpec, NeverAstray
=============================================================================
