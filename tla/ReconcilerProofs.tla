-------------------------- MODULE ReconcilerProofs --------------------------
(***************************************************************************)
(* Reconciler, for any number of processes, pods, nodes and zones: its     *)
(* types, the slot budget, and that it implements ReplicaSet.              *)
(***************************************************************************)
EXTENDS Reconciler, FiniteSetTheorems, TLAPS

-----------------------------------------------------------------------------
(* The store's functions keep its type.                                    *)
LEMMA StoreTypes ==
  ASSUME NEW s \in StoreType, NEW d \in Pods
  PROVE  /\ UpsertClusterTouch(s) \in StoreType
         /\ RecordPodLaunch(s, d) \in StoreType
         /\ EmptyStore \in StoreType
BY DEF StoreType, UpsertClusterTouch, RecordPodLaunch, AcceptsChild, EmptyStore

(* The ids RunPod gives are fresh.                                         *)
LEMMA NewIdFresh ==
  ASSUME NEW d \in Pods, NewId(d)
  PROVE  pod[d] = "none"
BY DEF NewId, Fresh

(* Sets of pods are finite.                                                *)
LEMMA PodsFinite ==
  ASSUME NEW S \in SUBSET Pods
  PROVE  IsFiniteSet(S) /\ Cardinality(S) \in Nat
BY ReconcilerAssumption, FS_Subset, FS_CardinalityType

LEMMA OwnCard ==
  ASSUME NEW p
  PROVE  /\ OwnAlive(p) \in SUBSET Pods
         /\ IsFiniteSet(OwnAlive(p))
         /\ Cardinality(OwnAlive(p)) \in Nat
         /\ Cardinality(Alive) \in Nat
         /\ Cardinality(OwnAlive(p)) <= Cardinality(Alive)
<1>1. OwnAlive(p) \in SUBSET Alive /\ Alive \in SUBSET Pods
  BY DEF OwnAlive, Alive
<1>2. IsFiniteSet(Alive) /\ Cardinality(Alive) \in Nat
  BY <1>1, PodsFinite
<1>3. IsFiniteSet(OwnAlive(p)) /\ Cardinality(OwnAlive(p)) \in Nat
  BY <1>1, PodsFinite
<1>. QED
  BY <1>1, <1>2, <1>3, FS_Subset

(* An empty listing that is the truth: the process has no live pod.        *)
LEMMA NoneListed ==
  ASSUME NEW p, Listed = {}
  PROVE  Cardinality(OwnAlive(p)) = 0 /\ Cardinality(Alive) = 0
<1>1. Alive = {} /\ OwnAlive(p) = {}
  BY DEF Listed, Alive, OwnAlive
<1>. QED
  BY <1>1, FS_EmptySet

-----------------------------------------------------------------------------
(* How a change of one pod changes what the processes own.                 *)
LEMMA PodUp ==
  ASSUME TypeOK, NEW d \in Pods, NEW p \in Procs,
         pod[d] # "alive", pod' = [pod EXCEPT ![d] = "alive"],
         owner' = [owner EXCEPT ![d] = p]
  PROVE  /\ OwnAlive(p)' = OwnAlive(p) \cup {d}
         /\ d \notin OwnAlive(p)
         /\ Cardinality(OwnAlive(p))' = Cardinality(OwnAlive(p)) + 1
         /\ \A q \in Procs : q # p => OwnAlive(q)' = OwnAlive(q)
<1>1. OwnAlive(p)' = OwnAlive(p) \cup {d}
  BY DEF OwnAlive, Alive, TypeOK
<1>2. d \notin OwnAlive(p)
  BY DEF OwnAlive, Alive
<1>3. \A q \in Procs : q # p => OwnAlive(q)' = OwnAlive(q)
  BY DEF OwnAlive, Alive, TypeOK
<1>4. Cardinality(OwnAlive(p) \cup {d}) = Cardinality(OwnAlive(p)) + 1
  BY <1>2, OwnCard, FS_AddElement
<1>. QED
  BY <1>1, <1>2, <1>3, <1>4

LEMMA PodDown ==
  ASSUME TypeOK, NEW d \in Pods, NEW st, st # "alive",
         pod' = [pod EXCEPT ![d] = st],
         \/ owner' = owner
         \/ pod[d] # "alive" /\ \E p \in Procs : owner' = [owner EXCEPT ![d] = p]
  PROVE  \A q \in Procs : /\ OwnAlive(q)' = OwnAlive(q) \ {d}
                          /\ Cardinality(OwnAlive(q))' <= Cardinality(OwnAlive(q))
                          /\ Cardinality(OwnAlive(q))' \in Nat
<1>. SUFFICES ASSUME NEW q \in Procs
     PROVE  /\ OwnAlive(q)' = OwnAlive(q) \ {d}
            /\ Cardinality(OwnAlive(q))' <= Cardinality(OwnAlive(q))
            /\ Cardinality(OwnAlive(q))' \in Nat
  OBVIOUS
<1>1. OwnAlive(q)' = OwnAlive(q) \ {d}
  BY DEF OwnAlive, Alive, TypeOK
<1>2. /\ Cardinality(OwnAlive(q) \ {d}) <= Cardinality(OwnAlive(q))
      /\ Cardinality(OwnAlive(q) \ {d}) \in Nat
  BY OwnCard, FS_Subset, FS_CardinalityType
<1>. QED
  BY <1>1, <1>2

LEMMA PodSame ==
  ASSUME pod' = pod, owner' = owner
  PROVE  \A q : OwnAlive(q)' = OwnAlive(q)
BY DEF OwnAlive, Alive

-----------------------------------------------------------------------------
LEMMA IndInvInit ==
  ASSUME Init
  PROVE  IndInv
<1>1. TypeOK
  <2>1. EmptyStore \in StoreType
    BY DEF StoreType, EmptyStore
  <2>. QED
    BY <2>1, ReconcilerAssumption DEF Init, TypeOK, PodStatus, PC
<1>2. OwnerKnown /\ OwesInPass
  BY DEF Init, OwnerKnown, OwesInPass
<1>3. \A p \in Procs : Cardinality(OwnAlive(p)) = 0
  <2>1. \A p \in Procs : OwnAlive(p) = {}
    BY DEF Init, OwnAlive, Alive
  <2>. QED
    BY <2>1, FS_EmptySet
<1>4. BlindHarmless /\ SlotBudget
  BY <1>3, ReconcilerAssumption DEF Init, BlindHarmless, SlotBudget
<1>. QED
  BY <1>1, <1>2, <1>4 DEF IndInv

-----------------------------------------------------------------------------
(* Steps of a process that leave RunPod's pods alone and owe no launch     *)
(* that the process did not owe before.                                    *)
LEMMA QuietStep ==
  ASSUME IndInv, UNCHANGED world,
         NEW p \in Procs,
         left' = left \/ left' = [left EXCEPT ![p] = 0],
         attempt' = attempt, blind' = blind,
         pc' = pc \/ \E w \in PC \ {"list"} : pc' = [pc EXCEPT ![p] = w]
  PROVE  OwnerKnown' /\ BlindHarmless' /\ SlotBudget'
<1>1. \A q : OwnAlive(q)' = OwnAlive(q)
  BY PodSame DEF world
<1>2. OwnerKnown'
  BY DEF IndInv, OwnerKnown, world
<1>3. BlindHarmless'
  BY <1>1 DEF IndInv, BlindHarmless, TypeOK, world
<1>4. SlotBudget'
  <2>. SUFFICES ASSUME NEW q \in Procs
       PROVE  Cardinality(OwnAlive(q)) + left'[q] <= NumNodes + back[q]
    BY <1>1 DEF SlotBudget, world
  <2>1. Cardinality(OwnAlive(q)) + left[q] <= NumNodes + back[q]
    BY DEF IndInv, SlotBudget
  <2>2. Cardinality(OwnAlive(q)) \in Nat /\ left[q] \in Nat /\ back[q] \in Nat
    BY OwnCard, ReconcilerAssumption DEF IndInv, TypeOK
  <2>3. left'[q] = left[q] \/ left'[q] = 0
    BY DEF IndInv, TypeOK
  <2>. QED
    BY <2>1, <2>2, <2>3, ReconcilerAssumption
<1>. QED
  BY <1>2, <1>3, <1>4

LEMMA StartsStep ==
  ASSUME IndInv, NEW p \in Procs, Start(p)
  PROVE  IndInv'
<1>1. TypeOK'
  BY DEF IndInv, TypeOK, Start, world, local, PC
<1>2. OwesInPass'
  BY DEF IndInv, TypeOK, OwesInPass, Start, local, PC
<1>3. OwnerKnown' /\ BlindHarmless' /\ SlotBudget'
  BY QuietStep DEF Start, local, PC
<1>. QED
  BY <1>1, <1>2, <1>3 DEF IndInv

LEMMA ResolveGpuStep ==
  ASSUME IndInv, NEW p \in Procs, ResolveGpu(p)
  PROVE  IndInv'
<1>1. TypeOK'
  BY DEF IndInv, TypeOK, ResolveGpu, world, local, PC
<1>2. OwesInPass'
  BY DEF IndInv, TypeOK, OwesInPass, ResolveGpu, local, PC
<1>3. OwnerKnown' /\ BlindHarmless' /\ SlotBudget'
  BY QuietStep DEF ResolveGpu, local, PC
<1>. QED
  BY <1>1, <1>2, <1>3 DEF IndInv

LEMMA ResolveGpuFailsStep ==
  ASSUME IndInv, NEW p \in Procs, ResolveGpuFails(p)
  PROVE  IndInv'
<1>1. TypeOK'
  BY DEF IndInv, TypeOK, ResolveGpuFails, Fault, world, local, PC
<1>2. OwesInPass'
  BY DEF IndInv, TypeOK, OwesInPass, ResolveGpuFails, local, PC
<1>3. OwnerKnown' /\ BlindHarmless' /\ SlotBudget'
  BY QuietStep DEF ResolveGpuFails, local, PC
<1>. QED
  BY <1>1, <1>2, <1>3 DEF IndInv

LEMMA ListFailsStep ==
  ASSUME IndInv, NEW p \in Procs, ListFails(p)
  PROVE  IndInv'
<1>1. TypeOK'
  BY DEF IndInv, TypeOK, ListFails, Fault, AfterError, world, local, PC
<1>2. OwesInPass'
  BY DEF IndInv, TypeOK, OwesInPass, ListFails, AfterError, local, PC
<1>3. OwnerKnown' /\ BlindHarmless' /\ SlotBudget'
  BY QuietStep DEF ListFails, AfterError, local, PC
<1>. QED
  BY <1>1, <1>2, <1>3 DEF IndInv

LEMMA NextPassStep ==
  ASSUME IndInv, NEW p \in Procs, NextPass(p)
  PROVE  IndInv'
<1>1. TypeOK'
  BY DEF IndInv, TypeOK, NextPass, world, local, PC
<1>2. OwesInPass'
  BY DEF IndInv, TypeOK, OwesInPass, NextPass, local, PC
<1>3. OwnerKnown' /\ BlindHarmless' /\ SlotBudget'
  BY QuietStep DEF NextPass, local, PC
<1>. QED
  BY <1>1, <1>2, <1>3 DEF IndInv

LEMMA SetStopStep ==
  ASSUME IndInv, NEW p \in Procs, SetStop(p)
  PROVE  IndInv'
<1>1. TypeOK'
  BY DEF IndInv, TypeOK, SetStop, world, local, PC
<1>2. OwesInPass'
  BY DEF IndInv, TypeOK, OwesInPass, SetStop, local
<1>3. OwnerKnown' /\ BlindHarmless' /\ SlotBudget'
  BY QuietStep DEF SetStop, local
<1>. QED
  BY <1>1, <1>2, <1>3 DEF IndInv

LEMMA NoCapacityStep ==
  ASSUME IndInv, NEW p \in Procs, NoCapacity(p)
  PROVE  IndInv'
<1>1. TypeOK'
  BY ReconcilerAssumption DEF IndInv, TypeOK, NoCapacity, Fault, world, PC
<1>2. OwesInPass'
  BY DEF IndInv, TypeOK, OwesInPass, NoCapacity
<1>3. OwnerKnown' /\ BlindHarmless' /\ SlotBudget'
  BY QuietStep DEF NoCapacity
<1>. QED
  BY <1>1, <1>2, <1>3 DEF IndInv

LEMMA LaunchRefusedStep ==
  ASSUME IndInv, NEW p \in Procs, LaunchRefused(p)
  PROVE  IndInv'
<1>1. TypeOK'
  BY ReconcilerAssumption DEF IndInv, TypeOK, LaunchRefused, Fault, AfterError, world, PC
<1>2. OwesInPass'
  BY DEF IndInv, TypeOK, OwesInPass, LaunchRefused, AfterError, PC
<1>3. OwnerKnown' /\ BlindHarmless' /\ SlotBudget'
  BY QuietStep DEF LaunchRefused, AfterError, PC
<1>. QED
  BY <1>1, <1>2, <1>3 DEF IndInv

LEMMA EndThreadStep ==
  ASSUME IndInv, NEW p \in Procs, EndThread(p)
  PROVE  IndInv'
<1>1. TypeOK'
  BY ReconcilerAssumption DEF IndInv, TypeOK, EndThread, world, PC
<1>2. OwesInPass'
  BY DEF IndInv, TypeOK, OwesInPass, EndThread, PC
<1>3. OwnerKnown' /\ BlindHarmless' /\ SlotBudget'
  BY QuietStep DEF EndThread, PC
<1>. QED
  BY <1>1, <1>2, <1>3 DEF IndInv

LEMMA TouchStep ==
  ASSUME IndInv, NEW p \in Procs, Touch(p)
  PROVE  IndInv'
<1>1. db' \in StoreType
  <2>1. db \in StoreType /\ (db' = UpsertClusterTouch(db) \/ db' = db)
    BY DEF IndInv, TypeOK, Touch
  <2>. QED
    BY <2>1 DEF UpsertClusterTouch, StoreType
<1>2. TypeOK'
  BY <1>1, ReconcilerAssumption DEF IndInv, TypeOK, Touch, Fault, world, PC
<1>3. \A q : OwnAlive(q)' = OwnAlive(q)
  BY PodSame DEF Touch, world
<1>4. OwnerKnown' /\ OwesInPass'
  BY DEF IndInv, TypeOK, OwnerKnown, OwesInPass, Touch, world
<1>5. BlindHarmless'
  BY <1>3 DEF IndInv, TypeOK, BlindHarmless, Touch, world
<1>6. SlotBudget'
  BY <1>3 DEF IndInv, SlotBudget, Touch, world
<1>. QED
  BY <1>2, <1>4, <1>5, <1>6 DEF IndInv

LEMMA RecordStep ==
  ASSUME IndInv, NEW p \in Procs, Record(p)
  PROVE  IndInv'
<1>1. db' \in StoreType
  <2>1. db \in StoreType /\ last[p] \in Pods
    BY DEF IndInv, TypeOK, OwesInPass, Record
  <2>2. db' = RecordPodLaunch(db, last[p]) \/ db' = db
    BY DEF Record
  <2>. QED
    BY <2>1, <2>2, StoreTypes
<1>2. TypeOK'
  BY <1>1, ReconcilerAssumption
  DEF IndInv, TypeOK, Record, Fault, AfterPass, world, PC
<1>3. OwesInPass'
  BY ReconcilerAssumption DEF IndInv, TypeOK, OwesInPass, Record, AfterPass
<1>4. OwnerKnown' /\ BlindHarmless' /\ SlotBudget'
  BY QuietStep DEF Record, AfterPass, PC
<1>. QED
  BY <1>1, <1>2, <1>3, <1>4 DEF IndInv

-----------------------------------------------------------------------------
(* The decision.  A truthful listing shows at least the process's own pods;*)
(* an empty one is believed only when attempts ran out, which is one more  *)
(* than RunPod is blind in a row: some attempt was truly empty.            *)
LEMMA DecisionSound ==
  ASSUME IndInv, NEW p \in Procs, ListPods(p), left' # left
  PROVE  Cardinality(OwnAlive(p)) + left'[p] <= NumNodes + back[p]
<1>. DEFINE own == Cardinality(OwnAlive(p))
<1>1. /\ own \in Nat /\ Cardinality(Alive) \in Nat /\ own <= Cardinality(Alive)
      /\ back[p] \in Nat /\ NumNodes \in Nat
  BY OwnCard, ReconcilerAssumption DEF IndInv, TypeOK
<1>2. PICK seen \in Answers(p) :
        /\ ~ Refetch(p, seen)
        /\ Decide(p, Cardinality(seen \cap Alive))
  BY DEF ListPods
<1>3. CASE seen = Listed
  <2>1. seen \cap Alive = Alive
    BY <1>3 DEF Listed, Alive
  <2>2. left'[p] = NumNodes - Cardinality(Alive)
    <3>1. Decide(p, Cardinality(Alive))
      BY <1>2, <2>1
    <3>2. left \in [Procs -> 0 .. NumNodes]
      BY DEF IndInv, TypeOK
    <3>. QED
      BY <3>1, <3>2 DEF Decide
  <2>. QED
    BY <1>1, <2>2
<1>4. CASE seen = {} /\ blind[p] < MaxGlitch
  <2>1. attempt[p] = EmptyRetries
    BY <1>2, <1>4, ReconcilerAssumption DEF Refetch, IndInv, TypeOK
  <2>2. blind[p] < attempt[p]
    BY <1>4, <2>1, GlitchAssumption, ReconcilerAssumption DEF IndInv, TypeOK
  <2>3. own <= back[p]
    BY <2>2 DEF IndInv, BlindHarmless, ListPods
  <2>4. left'[p] = NumNodes
    <3>1. Cardinality(seen \cap Alive) = 0
      BY <1>4, FS_EmptySet
    <3>. QED
      BY <1>2, <3>1, ReconcilerAssumption DEF Decide, IndInv, TypeOK
  <2>. QED
    BY <1>1, <2>3, <2>4
<1>. QED
  BY <1>2, <1>3, <1>4 DEF Answers

LEMMA ListPodsStep ==
  ASSUME IndInv, NEW p \in Procs, ListPods(p)
  PROVE  IndInv'
<1>1. PICK seen \in Answers(p) :
        /\ Glimpse(p, seen)
        /\ IF Refetch(p, seen)
           THEN /\ attempt' = [attempt EXCEPT ![p] = @ + 1]
                /\ UNCHANGED <<pc, left, zone>>
           ELSE /\ Decide(p, Cardinality(seen \cap Alive))
                /\ UNCHANGED attempt
  BY DEF ListPods
<1>2. \A q : OwnAlive(q)' = OwnAlive(q)
  BY PodSame DEF ListPods, world
<1>3. Cardinality(seen \cap Alive) \in Nat
  BY PodsFinite DEF Alive
<1>4. TypeOK'
  <2>1. blind' \in [Procs -> 0 .. MaxGlitch]
    BY <1>1, ReconcilerAssumption DEF Glimpse, Answers, IndInv, TypeOK
  <2>2. attempt' \in [Procs -> 0 .. EmptyRetries]
    BY <1>1, ReconcilerAssumption DEF Refetch, IndInv, TypeOK
  <2>3. /\ pc' \in [Procs -> PC] /\ left' \in [Procs -> 0 .. NumNodes]
        /\ zone' \in [Procs -> 0 .. NumZones]
    BY <1>1, <1>3, ReconcilerAssumption
    DEF Decide, AfterPass, PC, IndInv, TypeOK
  <2>. QED
    BY <2>1, <2>2, <2>3 DEF ListPods, IndInv, TypeOK, world
<1>5. OwnerKnown'
  BY DEF IndInv, OwnerKnown, ListPods, world
<1>6. OwesInPass'
  BY <1>1, <1>3, ReconcilerAssumption
  DEF IndInv, TypeOK, OwesInPass, ListPods, Decide, AfterPass
<1>7. BlindHarmless'
  <2>. SUFFICES ASSUME NEW q \in Procs, pc'[q] = "list", blind'[q] < attempt'[q]
       PROVE  Cardinality(OwnAlive(q)) <= back[q]
    BY <1>2 DEF BlindHarmless, ListPods, world
  <2>1. CASE q # p
    BY <1>1, <2>1 DEF IndInv, TypeOK, BlindHarmless, Glimpse, Decide
  <2>2. CASE q = p
    <3>1. Refetch(p, seen)
      BY <1>1, <2>2 DEF IndInv, TypeOK, Decide, AfterPass
    <3>2. CASE seen = Listed
      BY <2>2, <3>1, <3>2, NoneListed DEF Refetch, IndInv, TypeOK
    <3>3. CASE seen # Listed
      <4>1. blind'[p] = blind[p] + 1 /\ attempt'[p] = attempt[p] + 1
        BY <1>1, <3>1, <3>3 DEF Glimpse, IndInv, TypeOK
      <4>2. blind[p] < attempt[p]
        BY <2>2, <4>1, ReconcilerAssumption DEF IndInv, TypeOK
      <4>. QED
        BY <2>2, <4>2 DEF IndInv, BlindHarmless, ListPods
    <3>. QED
      BY <3>2, <3>3
  <2>. QED
    BY <2>1, <2>2
<1>8. SlotBudget'
  <2>. SUFFICES ASSUME NEW q \in Procs
       PROVE  Cardinality(OwnAlive(q)) + left'[q] <= NumNodes + back[q]
    BY <1>2 DEF SlotBudget, ListPods, world
  <2>1. CASE left'[q] = left[q]
    BY <2>1 DEF IndInv, SlotBudget
  <2>2. CASE left'[q] # left[q]
    <3>1. q = p
      BY <1>1, <2>2 DEF IndInv, TypeOK, Decide
    <3>. QED
      BY <2>2, <3>1, DecisionSound
  <2>. QED
    BY <2>1, <2>2
<1>. QED
  BY <1>4, <1>5, <1>6, <1>7, <1>8 DEF IndInv

-----------------------------------------------------------------------------
LEMMA LaunchOkStep ==
  ASSUME IndInv, NEW p \in Procs, NEW d \in Pods, LaunchOk(p, d)
  PROVE  IndInv'
<1>1. pod[d] = "none"
  BY NewIdFresh DEF LaunchOk
<1>2. /\ \A q \in Procs : q # p => OwnAlive(q)' = OwnAlive(q)
      /\ Cardinality(OwnAlive(p))' = Cardinality(OwnAlive(p)) + 1
  BY <1>1, PodUp DEF LaunchOk, IndInv
<1>3. left[p] > 0 /\ left'[p] = left[p] - 1
  BY DEF LaunchOk, IndInv, TypeOK, OwesInPass
<1>4. TypeOK'
  BY <1>3, ReconcilerAssumption DEF LaunchOk, IndInv, TypeOK, PodStatus, PC
<1>5. OwnerKnown' /\ OwesInPass'
  BY DEF LaunchOk, IndInv, TypeOK, OwnerKnown, OwesInPass
<1>6. BlindHarmless'
  BY <1>2 DEF LaunchOk, IndInv, TypeOK, BlindHarmless
<1>7. SlotBudget'
  <2>. SUFFICES ASSUME NEW q \in Procs
       PROVE  Cardinality(OwnAlive(q))' + left'[q] <= NumNodes + back[q]
    BY DEF SlotBudget, LaunchOk
  <2>1. CASE q # p
    BY <1>2, <2>1 DEF LaunchOk, IndInv, TypeOK, SlotBudget
  <2>2. CASE q = p
    <3>1. /\ Cardinality(OwnAlive(p)) \in Nat /\ left[p] \in Nat
          /\ back[p] \in Nat /\ NumNodes \in Nat
      BY OwnCard, ReconcilerAssumption DEF IndInv, TypeOK
    <3>2. Cardinality(OwnAlive(p)) + left[p] <= NumNodes + back[p]
      BY DEF IndInv, SlotBudget
    <3>. QED
      BY <1>2, <1>3, <2>2, <3>1, <3>2
  <2>. QED
    BY <2>1, <2>2
<1>. QED
  BY <1>4, <1>5, <1>6, <1>7 DEF IndInv

(* A pod that leaves the account's live ones, or never enters them, can    *)
(* only free slots, as long as no process owes more.                       *)
LEMMA FewerAlive ==
  ASSUME IndInv, NEW p \in Procs,
         \A q \in Procs : /\ Cardinality(OwnAlive(q))' <= Cardinality(OwnAlive(q))
                          /\ Cardinality(OwnAlive(q))' \in Nat,
         back' = back, attempt' = attempt, blind' = blind,
         left' = left \/ left' = [left EXCEPT ![p] = 0],
         pc' = pc \/ \E w \in PC \ {"list"} : pc' = [pc EXCEPT ![p] = w]
  PROVE  BlindHarmless' /\ SlotBudget'
<1>. SUFFICES ASSUME NEW q \in Procs
     PROVE  /\ pc'[q] = "list" /\ blind[q] < attempt[q]
               => Cardinality(OwnAlive(q))' <= back[q]
            /\ Cardinality(OwnAlive(q))' + left'[q] <= NumNodes + back[q]
  BY DEF BlindHarmless, SlotBudget
<1>1. /\ Cardinality(OwnAlive(q))' <= Cardinality(OwnAlive(q))
      /\ Cardinality(OwnAlive(q))' \in Nat /\ Cardinality(OwnAlive(q)) \in Nat
      /\ left[q] \in Nat /\ back[q] \in Nat /\ NumNodes \in Nat
  BY OwnCard, ReconcilerAssumption DEF IndInv, TypeOK
<1>2. Cardinality(OwnAlive(q)) + left[q] <= NumNodes + back[q]
  BY DEF IndInv, SlotBudget
<1>3. left'[q] = left[q] \/ left'[q] = 0
  BY DEF IndInv, TypeOK
<1>4. pc'[q] = "list" => pc[q] = "list"
  BY DEF IndInv, TypeOK
<1>5. pc[q] = "list" /\ blind[q] < attempt[q] => Cardinality(OwnAlive(q)) <= back[q]
  BY DEF IndInv, BlindHarmless
<1>. QED
  BY <1>1, <1>2, <1>3, <1>4, <1>5

LEMMA CutOffStep ==
  ASSUME IndInv, NEW p \in Procs, NEW d \in Pods, LaunchLost(p, d) \/ EndMidDeploy(p, d)
  PROVE  IndInv'
<1>1. pod[d] = "none"
  BY NewIdFresh DEF LaunchLost, EndMidDeploy
<1>2. \A q \in Procs : /\ Cardinality(OwnAlive(q))' <= Cardinality(OwnAlive(q))
                        /\ Cardinality(OwnAlive(q))' \in Nat
  <2>1. pod' = [pod EXCEPT ![d] = "pending"] /\ owner' = [owner EXCEPT ![d] = p]
    BY DEF LaunchLost, EndMidDeploy
  <2>. QED
    BY <1>1, <2>1, PodDown DEF IndInv
<1>3. TypeOK'
  BY ReconcilerAssumption
  DEF LaunchLost, EndMidDeploy, AfterError, Fault, IndInv, TypeOK, PodStatus, PC
<1>4. OwnerKnown' /\ OwesInPass'
  BY DEF LaunchLost, EndMidDeploy, AfterError, IndInv, TypeOK, OwnerKnown, OwesInPass
<1>5. BlindHarmless' /\ SlotBudget'
  BY <1>2, FewerAlive DEF LaunchLost, EndMidDeploy, AfterError, PC
<1>. QED
  BY <1>3, <1>4, <1>5 DEF IndInv

LEMMA PodLeavesStep ==
  ASSUME IndInv, NEW d \in Pods, PodOff(d) \/ PodGone(d)
  PROVE  IndInv'
<1>1. TypeOK'
  BY DEF PodOff, PodGone, Fault, local, IndInv, TypeOK, PodStatus
<1>2. OwnerKnown' /\ OwesInPass'
  BY DEF PodOff, PodGone, local, IndInv, TypeOK, OwnerKnown, OwesInPass
<1>3. \A q \in Procs : /\ Cardinality(OwnAlive(q))' <= Cardinality(OwnAlive(q))
                        /\ Cardinality(OwnAlive(q))' \in Nat
  <2>1. owner' = owner /\ \E st \in {"off", "gone"} : pod' = [pod EXCEPT ![d] = st]
    BY DEF PodOff, PodGone
  <2>. QED
    BY <2>1, PodDown DEF IndInv
<1>4. owner[d] \in Procs
  BY DEF PodOff, PodGone, IndInv, OwnerKnown
<1>5. BlindHarmless' /\ SlotBudget'
  BY <1>3, <1>4, FewerAlive DEF PodOff, PodGone, local
<1>. QED
  BY <1>1, <1>2, <1>5 DEF IndInv

(* A pod that comes into view is paid for by `back'.                       *)
LEMMA PodBackStep ==
  ASSUME IndInv, NEW d \in Pods, PodBack(d)
  PROVE  IndInv'
<1>0. PICK p \in Procs : p = owner[d]
  BY DEF PodBack, IndInv, OwnerKnown
<1>1. owner' = [owner EXCEPT ![d] = p]
  BY <1>0 DEF PodBack, IndInv, TypeOK
<1>2. /\ \A q \in Procs : q # p => OwnAlive(q)' = OwnAlive(q)
      /\ Cardinality(OwnAlive(p))' = Cardinality(OwnAlive(p)) + 1
  BY <1>1, PodUp DEF PodBack, IndInv
<1>3. back'[p] = back[p] + 1 /\ \A q \in Procs : q # p => back'[q] = back[q]
  BY <1>0 DEF PodBack, IndInv, TypeOK
<1>4. TypeOK'
  BY <1>0 DEF PodBack, local, IndInv, TypeOK, PodStatus
<1>5. OwnerKnown' /\ OwesInPass'
  BY <1>0 DEF PodBack, local, IndInv, TypeOK, OwnerKnown, OwesInPass
<1>6. BlindHarmless' /\ SlotBudget'
  <2>. SUFFICES ASSUME NEW q \in Procs
       PROVE  /\ pc[q] = "list" /\ blind[q] < attempt[q]
                 => Cardinality(OwnAlive(q))' <= back'[q]
              /\ Cardinality(OwnAlive(q))' + left[q] <= NumNodes + back'[q]
    BY DEF BlindHarmless, SlotBudget, PodBack, local
  <2>1. /\ Cardinality(OwnAlive(q)) \in Nat
        /\ left[q] \in Nat /\ back[q] \in Nat /\ NumNodes \in Nat
    BY OwnCard, ReconcilerAssumption DEF IndInv, TypeOK
  <2>2. /\ Cardinality(OwnAlive(q)) + left[q] <= NumNodes + back[q]
        /\ pc[q] = "list" /\ blind[q] < attempt[q] => Cardinality(OwnAlive(q)) <= back[q]
    BY DEF IndInv, SlotBudget, BlindHarmless
  <2>3. CASE q # p
    <3>1. OwnAlive(q)' = OwnAlive(q) /\ back'[q] = back[q]
      BY <1>2, <1>3, <2>3
    <3>. QED
      BY <2>1, <2>2, <3>1
  <2>4. CASE q = p
    BY <1>2, <1>3, <2>1, <2>2, <2>4
  <2>. QED
    BY <2>3, <2>4
<1>. QED
  BY <1>4, <1>5, <1>6 DEF IndInv

(* A process that ends, by itself or by a signal, cut off in a call or not.*)
LEMMA EndsStep ==
  ASSUME IndInv, NEW p \in Procs, Ends(p)
  PROVE  IndInv'
BY EndThreadStep, CutOffStep DEF Ends

-----------------------------------------------------------------------------
LEMMA IndInvStep ==
  ASSUME IndInv, [Next]_vars
  PROVE  IndInv'
<1>1. ASSUME NEW p \in Procs, Start(p) \/ SetStop(p)
      PROVE  IndInv'
  BY <1>1, StartsStep, SetStopStep
<1>2. ASSUME NEW p \in Procs, Exit(p)
      PROVE  IndInv'
  BY <1>2, EndsStep DEF Exit
<1>3. ASSUME NEW p \in Procs, Call(p)
      PROVE  IndInv'
  <2>1. ASSUME NEW d \in Pods, LaunchOk(p, d) \/ LaunchLost(p, d)
        PROVE  IndInv'
    BY <2>1, LaunchOkStep, CutOffStep
  <2>. QED
    BY <1>3, <2>1, ResolveGpuStep, ResolveGpuFailsStep, TouchStep, ListPodsStep,
       ListFailsStep, NoCapacityStep, LaunchRefusedStep, RecordStep, NextPassStep
    DEF Call
<1>4. CASE RunPodStep
  BY <1>4, PodLeavesStep, PodBackStep DEF RunPodStep
<1>5. CASE UNCHANGED vars
  <2>1. \A q : OwnAlive(q)' = OwnAlive(q)
    BY <1>5, PodSame DEF vars
  <2>. QED
    BY <1>5, <2>1
    DEF vars, IndInv, TypeOK, OwnerKnown, OwesInPass, BlindHarmless, SlotBudget
<1>. QED
  BY <1>1, <1>2, <1>3, <1>4, <1>5 DEF Next

(* Whatever processes reconcile the cluster and however RunPod fails, the  *)
(* inductive invariant holds ...                                           *)
THEOREM Induction == Spec => []IndInv
<1>1. Init => IndInv
  BY IndInvInit
<1>2. IndInv /\ [Next]_vars => IndInv'
  BY IndInvStep
<1>. QED
  BY <1>1, <1>2, PTL DEF Spec

(* ... and so every variable keeps its type ...                            *)
THEOREM TypeCorrect == Spec => []TypeOK
<1>1. IndInv => TypeOK
  BY DEF IndInv
<1>. QED
  BY <1>1, Induction, PTL

(* ... and no process launches beyond num_nodes, but for the pods that came*)
(* into view behind its back.                                              *)
THEOREM SlotBudgetHolds == Spec => []SlotBudget
<1>1. IndInv => SlotBudget
  BY DEF IndInv
<1>. QED
  BY <1>1, Induction, PTL

-----------------------------------------------------------------------------
(* The refinement: slots[p] is what p owns, slack is `back'.               *)
LEMMA SlotsSame ==
  ASSUME \A q \in Procs : OwnAlive(q)' = OwnAlive(q), back' = back
  PROVE  UNCHANGED RS!rsVars
BY DEF RS!rsVars

(* The abstract module counts as this one does.                            *)
LEMMA SameCount == \A S : RS!Cardinality(S) = Cardinality(S)
BY DEF RS!Cardinality, Cardinality

LEMMA LaunchFills ==
  ASSUME IndInv, NEW p \in Procs, NEW d \in Pods, LaunchOk(p, d)
  PROVE  RS!Fill(p, d)
<1>1. pod[d] = "none"
  BY NewIdFresh DEF LaunchOk
<1>2. /\ OwnAlive(p)' = OwnAlive(p) \cup {d}
      /\ \A q \in Procs : q # p => OwnAlive(q)' = OwnAlive(q)
  BY <1>1, PodUp DEF LaunchOk, IndInv
<1>3. \A q \in Procs : d \notin OwnAlive(q)
  BY <1>1 DEF OwnAlive, Alive
<1>4. Cardinality(OwnAlive(p)) < NumNodes + back[p]
  <2>1. /\ Cardinality(OwnAlive(p)) \in Nat /\ left[p] \in Nat
        /\ back[p] \in Nat /\ NumNodes \in Nat
    BY OwnCard, ReconcilerAssumption DEF IndInv, TypeOK
  <2>2. Cardinality(OwnAlive(p)) + left[p] <= NumNodes + back[p]
    BY DEF IndInv, SlotBudget
  <2>3. left[p] > 0
    BY DEF LaunchOk, IndInv, OwesInPass
  <2>. QED
    BY <2>1, <2>2, <2>3
<1>5. back' = back
  BY DEF LaunchOk
<1>6. [q \in Procs |-> OwnAlive(q)]'
        = [[q \in Procs |-> OwnAlive(q)] EXCEPT ![p] = @ \cup {d}]
  <2>1. [q \in Procs |-> OwnAlive(q)]'
          = [q \in Procs |-> IF q = p THEN OwnAlive(q) \cup {d} ELSE OwnAlive(q)]
    BY <1>2
  <2>. QED
    BY <2>1, Zenon
<1>7. /\ \A q \in Procs : d \notin [r \in Procs |-> OwnAlive(r)][q]
      /\ Cardinality([r \in Procs |-> OwnAlive(r)][p]) < NumNodes + back[p]
  BY <1>3, <1>4
<1>. QED
  BY <1>5, <1>6, <1>7, SameCount DEF RS!Fill

LEMMA CutOffFillsNone ==
  ASSUME IndInv, NEW p \in Procs, NEW d \in Pods, LaunchLost(p, d) \/ EndMidDeploy(p, d)
  PROVE  UNCHANGED RS!rsVars
<1>1. pod[d] = "none"
  BY NewIdFresh DEF LaunchLost, EndMidDeploy
<1>2. /\ pod' = [pod EXCEPT ![d] = "pending"] /\ owner' = [owner EXCEPT ![d] = p]
      /\ back' = back
  BY DEF LaunchLost, EndMidDeploy
<1>3. \A q \in Procs : OwnAlive(q)' = OwnAlive(q)
  <2>1. \A q \in Procs : OwnAlive(q)' = OwnAlive(q) \ {d}
    BY <1>1, <1>2, PodDown DEF IndInv
  <2>2. \A q \in Procs : d \notin OwnAlive(q)
    BY <1>1 DEF OwnAlive, Alive
  <2>. QED
    BY <2>1, <2>2
<1>. QED
  BY <1>2, <1>3, SlotsSame

LEMMA LeavingVacates ==
  ASSUME IndInv, NEW d \in Pods, PodOff(d) \/ PodGone(d)
  PROVE  \E p \in Procs : RS!Vacate(p, d)
<1>1. PICK p \in Procs : p = owner[d]
  BY DEF PodOff, PodGone, IndInv, OwnerKnown
<1>2. owner' = owner /\ back' = back /\ \E st \in {"off", "gone"} : pod' = [pod EXCEPT ![d] = st]
  BY DEF PodOff, PodGone
<1>3. \A q \in Procs : OwnAlive(q)' = OwnAlive(q) \ {d}
  BY <1>2, PodDown DEF IndInv
<1>4. \A q \in Procs : q # p => d \notin OwnAlive(q)
  BY <1>1 DEF OwnAlive
<1>5. [q \in Procs |-> OwnAlive(q)]'
        = [[q \in Procs |-> OwnAlive(q)] EXCEPT ![p] = @ \ {d}]
  <2>1. \A q \in Procs : OwnAlive(q)' = IF q = p THEN OwnAlive(q) \ {d} ELSE OwnAlive(q)
    BY <1>3, <1>4
  <2>. QED
    BY <2>1
<1>. QED
  BY <1>2, <1>5 DEF RS!Vacate

LEMMA BackSurfaces ==
  ASSUME IndInv, NEW d \in Pods, PodBack(d)
  PROVE  \E p \in Procs : RS!Surface(p, d)
<1>1. PICK p \in Procs : p = owner[d]
  BY DEF PodBack, IndInv, OwnerKnown
<1>2. owner' = [owner EXCEPT ![d] = p] /\ back' = [back EXCEPT ![p] = @ + 1]
  BY <1>1 DEF PodBack, IndInv, TypeOK
<1>3. /\ OwnAlive(p)' = OwnAlive(p) \cup {d}
      /\ \A q \in Procs : q # p => OwnAlive(q)' = OwnAlive(q)
  BY <1>2, PodUp DEF PodBack, IndInv
<1>4. \A q \in Procs : d \notin OwnAlive(q)
  BY DEF PodBack, OwnAlive, Alive
<1>. QED
  BY <1>2, <1>3, <1>4 DEF RS!Surface

LEMMA EndsRefines ==
  ASSUME IndInv, NEW p \in Procs, Ends(p)
  PROVE  UNCHANGED RS!rsVars
<1>1. ASSUME NEW d \in Pods, EndMidDeploy(p, d)
      PROVE  UNCHANGED RS!rsVars
  BY <1>1, CutOffFillsNone
<1>2. CASE EndThread(p)
  BY <1>2, PodSame, SlotsSame DEF EndThread, world
<1>. QED
  BY <1>1, <1>2 DEF Ends

LEMMA StepRefines ==
  ASSUME IndInv, [Next]_vars
  PROVE  [RS!RSNext]_(RS!rsVars)
<1>1. ASSUME NEW p \in Procs, NEW d \in Pods,
             LaunchOk(p, d) \/ LaunchLost(p, d)
      PROVE  [RS!RSNext]_(RS!rsVars)
  BY <1>1, LaunchFills, CutOffFillsNone DEF RS!RSNext
<1>2. CASE RunPodStep
  BY <1>2, LeavingVacates, BackSurfaces DEF RunPodStep, RS!RSNext
<1>3. CASE UNCHANGED world
  BY <1>3, PodSame, SlotsSame DEF world
<1>4. ASSUME NEW p \in Procs,
             \/ Start(p) \/ SetStop(p)
             \/ ResolveGpu(p) \/ ResolveGpuFails(p) \/ Touch(p) \/ ListPods(p)
             \/ ListFails(p) \/ NoCapacity(p) \/ LaunchRefused(p) \/ Record(p)
             \/ NextPass(p)
      PROVE  UNCHANGED world
  BY <1>4 DEF Start, SetStop, ResolveGpu, ResolveGpuFails, Touch, ListPods,
     ListFails, NoCapacity, LaunchRefused, Record, NextPass, world
<1>5. CASE UNCHANGED vars
  BY <1>3, <1>5 DEF vars, world
<1>6. ASSUME NEW p \in Procs, Exit(p)
      PROVE  UNCHANGED RS!rsVars
  BY <1>6, EndsRefines DEF Exit
<1>. QED
  BY <1>1, <1>2, <1>3, <1>4, <1>5, <1>6 DEF Next, Call

(* The reconcilers implement the replica set they promise.                 *)
THEOREM Implements == Spec => FillsFreeSlots
<1>1. Init => RS!RSInit
  <2>1. ASSUME Init PROVE \A p \in Procs : OwnAlive(p) = {}
    BY <2>1 DEF Init, OwnAlive, Alive
  <2>. QED
    BY <2>1 DEF Init, RS!RSInit
<1>2. IndInv /\ [Next]_vars => [RS!RSNext]_(RS!rsVars)
  BY StepRefines
<1>. QED
  BY <1>1, <1>2, Induction, PTL DEF Spec, FillsFreeSlots, RS!RSSpec
=============================================================================
