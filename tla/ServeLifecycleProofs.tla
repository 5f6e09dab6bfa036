------------------------- MODULE ServeLifecycleProofs -------------------------
(***************************************************************************)
(* ServeLifecycle, for any number of commands, daemons, pods and nodes.    *)
(* The reconcilers' invariant (IndInv of Reconciler) survives the commands,*)
(* and on it rest the types, the slot budget and the refinement of         *)
(* ReplicaSet here too.                                                    *)
(***************************************************************************)
EXTENDS ServeLifecycle, ReconcilerProofs

CmdTypes ==
  /\ kind \in [Cmds -> Kinds \cup {None}]
  /\ cpc \in [Cmds -> CPC]
  /\ host \in [Cmds -> Loops \cup {None}]
  /\ child \in [Cmds -> Loops \cup {None}]
  /\ todo \in [Cmds -> SUBSET Pods]

(* A command is inside its pass only at "pass", has a daemon to kill, and  *)
(* terminates what some process launched.                                  *)
InPass == \A c \in Cmds :
  /\ cpc[c] # "pass" => pc[c] \notin {"list", "deploy", "record"}
  /\ cpc[c] = "kill" => child[c] \in Loops
  /\ \A d \in todo[c] : owner[d] \in Procs

LInv == IndInv /\ CmdTypes /\ InPass

LEMMA Commands == Cmds \subseteq Procs /\ Loops \subseteq Procs /\ Cmds \cap Loops = {}
BY ReconcilerAssumption DEF Cmds, Procs

LEMMA LInvInit ==
  ASSUME LInit
  PROVE  LInv
<1>1. IndInv
  BY IndInvInit DEF LInit
<1>2. CmdTypes
  BY DEF LInit, CmdTypes, CPC
<1>3. InPass
  BY Commands DEF LInit, Init, InPass
<1> QED
  BY <1>1, <1>2, <1>3 DEF LInv

-----------------------------------------------------------------------------
(* Steps that leave Reconciler's variables alone but for the store's row.  *)
LEMMA RowStep ==
  ASSUME IndInv, UNCHANGED <<world, pc, stop, local>>,
         faults' \in Nat, db' \in StoreType
  PROVE  IndInv'
<1>1. TypeOK'
  BY DEF IndInv, TypeOK, world, local
<1>2. \A q : OwnAlive(q)' = OwnAlive(q)
  BY PodSame DEF world
<1>3. OwnerKnown' /\ OwesInPass' /\ BlindHarmless' /\ SlotBudget'
  BY <1>2 DEF IndInv, OwnerKnown, OwesInPass, BlindHarmless, SlotBudget, world, local
<1> QED
  BY <1>1, <1>3 DEF IndInv

(* The store's functions that only commands call keep its type, too.       *)
LEMMA MoreStoreTypes ==
  ASSUME NEW s \in StoreType, NEW p \in Loops \cup {None}
  PROVE  /\ DeleteClusterRecord(s) \in StoreType
         /\ DeleteServeDaemon(s) \in StoreType
         /\ RegisterServeDaemon(s, p) \in StoreType
         /\ UpsertServeLaunchPrefs(s) \in StoreType
         /\ s.daemon \in Loops \cup {None}
BY LifecycleAssumption
DEF StoreType, DeleteClusterRecord, DeleteServeDaemon, RegisterServeDaemon,
    UpsertServeLaunchPrefs, AcceptsChild

(* The calls of commands and daemons that are the reconcilers' own.        *)
LEMMA ReconcilerStep ==
  ASSUME LInv,
         \/ \E c \in Cmds : PassCall(c)
         \/ \E c \in Cmds, p \in Loops : Spawn(c, p)
         \/ \E c \in Cmds : SigKill(c)
         \/ \E p \in Loops : DaemonStep(p)
         \/ RunPodStep
  PROVE  ([Next]_vars \/ \E p \in Procs : Ends(p)) /\ IndInv'
<1>1. [Next]_vars \/ \E p \in Procs : Ends(p)
  BY Commands DEF PassCall, Spawn, SigKill, DaemonStep, Next, LInv, InPass, At
<1> QED
  BY <1>1, IndInvStep, EndsStep DEF LInv

-----------------------------------------------------------------------------
(* A listing outside the passes changes two locals of its process alone.   *)
LEMMA ListingStep ==
  ASSUME IndInv, NEW c \in Procs, pc[c] # "list",
         UNCHANGED <<world, faults, db, pc, stop, left, zone, last>>,
         attempt' \in [Procs -> 0 .. EmptyRetries], blind' \in [Procs -> 0 .. MaxGlitch],
         \A q \in Procs : q # c => attempt'[q] = attempt[q] /\ blind'[q] = blind[q]
  PROVE  IndInv'
<1>1. TypeOK'
  BY DEF IndInv, TypeOK, world
<1>2. \A q : OwnAlive(q)' = OwnAlive(q)
  BY PodSame DEF world
<1>3. OwnerKnown' /\ OwesInPass' /\ SlotBudget'
  BY <1>2 DEF IndInv, OwnerKnown, OwesInPass, SlotBudget, world
<1>4. BlindHarmless'
  BY <1>2 DEF IndInv, BlindHarmless, world
<1> QED
  BY <1>1, <1>3, <1>4 DEF IndInv

(* list_managed_pods of terminate_managed_pods is such a listing.          *)
LEMMA ListToTerminateStep ==
  ASSUME LInv, NEW c \in Cmds, ListToTerminate(c)
  PROVE  IndInv' /\ CmdTypes'
<1> USE Commands
<1>0. c \in Procs /\ pc[c] # "list"
  BY DEF ListToTerminate, At, LInv, InPass
<1>1. PICK seen \in Answers(c) :
        /\ Glimpse(c, seen)
        /\ IF Refetch(c, seen)
           THEN attempt' = [attempt EXCEPT ![c] = @ + 1] /\ UNCHANGED <<cpc, todo>>
           ELSE /\ todo' = [todo EXCEPT ![c] = seen]
                /\ Goto(c, "terminate")
                /\ UNCHANGED attempt
  BY DEF ListToTerminate
<1>2. /\ blind' \in [Procs -> 0 .. MaxGlitch] /\ seen \in SUBSET Pods
      /\ \A q \in Procs : q # c => blind'[q] = blind[q]
  BY <1>1, ReconcilerAssumption DEF Glimpse, Answers, Listed, LInv, IndInv, TypeOK
<1>3. /\ attempt' \in [Procs -> 0 .. EmptyRetries]
      /\ \A q \in Procs : q # c => attempt'[q] = attempt[q]
  BY <1>0, <1>1, ReconcilerAssumption DEF Refetch, LInv, IndInv, TypeOK
<1>4. IndInv'
  BY <1>0, <1>2, <1>3, ListingStep DEF ListToTerminate, LInv
<1>5. CmdTypes'
  BY <1>1, <1>2 DEF ListToTerminate, Goto, CmdTypes, CPC, LInv
<1> QED
  BY <1>4, <1>5

(* A terminated pod frees a slot, whoever launched it.                     *)
LEMMA TerminateStep ==
  ASSUME LInv, NEW c \in Cmds, NEW d \in Pods, Terminate(c, d)
  PROVE  IndInv'
<1> USE Commands
<1>1. TypeOK'
  BY DEF Terminate, local, LInv, IndInv, TypeOK, PodStatus
<1>2. OwnerKnown' /\ OwesInPass'
  <2>1. owner[d] \in Procs
    BY DEF Terminate, LInv, InPass
  <2> QED
    BY <2>1 DEF Terminate, local, LInv, IndInv, TypeOK, OwnerKnown, OwesInPass
<1>3. \A q \in Procs : /\ Cardinality(OwnAlive(q))' <= Cardinality(OwnAlive(q))
                        /\ Cardinality(OwnAlive(q))' \in Nat
  <2>1. owner' = owner /\ pod' = [pod EXCEPT ![d] = "gone"]
    BY DEF Terminate
  <2> QED
    BY <2>1, PodDown DEF LInv, IndInv
<1>4. BlindHarmless' /\ SlotBudget'
  BY <1>3, FewerAlive DEF Terminate, local, LInv
<1> QED
  BY <1>1, <1>2, <1>4 DEF IndInv

(* The start of a pass owes nothing yet.                                   *)
LEMMA PassBegins ==
  ASSUME IndInv, NEW c \in Procs, UNCHANGED <<world, faults, stop, local>>,
         pc[c] \notin {"list", "deploy", "record"},
         \E w \in {"resolve", "touch"} : pc' = [pc EXCEPT ![c] = w], db' \in StoreType
  PROVE  IndInv'
<1>1. TypeOK'
  BY DEF IndInv, TypeOK, world, local, PC
<1>2. OwesInPass'
  BY DEF IndInv, TypeOK, OwesInPass, local
<1>3. OwnerKnown' /\ BlindHarmless' /\ SlotBudget'
  BY QuietStep DEF local, PC
<1> QED
  BY <1>1, <1>2, <1>3 DEF IndInv

LEMMA SigTermStep ==
  ASSUME LInv, NEW c \in Cmds, SigTerm(c)
  PROVE  IndInv' /\ CmdTypes' /\ InPass'
<1>1. db.daemon \in Loops
  BY MoreStoreTypes DEF SigTerm, LInv, IndInv, TypeOK
<1>2. IndInv'
  BY IndInvStep DEF SigTerm, LInv
<1>3. CmdTypes'
  BY <1>1 DEF SigTerm, Goto, LInv, CmdTypes, CPC
<1>4. InPass'
  BY <1>1 DEF SigTerm, At, Goto, LInv, CmdTypes, InPass, vars
<1> QED
  BY <1>2, <1>3, <1>4

(* Steps of commands that leave Reconciler's variables alone.              *)
OwnStep(c) ==
  \/ \E k \in Kinds, h \in Loops \cup {None} : Invoke(c, k, h)
  \/ AllTerminated(c) \/ NoDaemonRow(c) \/ DaemonGone(c)
  \/ AlreadyRunning(c) \/ PassEnds(c) \/ Poll(c)

(* Steps of commands that change at most the row and count a failure.      *)
StoreStep(c) ==
  \/ TerminateFails(c) \/ DeleteCluster(c) \/ DeleteDaemonRow(c)
  \/ Register(c) \/ SavePrefs(c) \/ StoreFails(c) \/ PortBusy(c)

(* Steps of commands that begin their pass.                                *)
BeginPass(c) == CheckRow(c) \/ ForegroundPrefs(c)

LEMMA CommandActions ==
  ASSUME LNext
  PROVE  \/ \E c \in Cmds : \/ OwnStep(c) \/ StoreStep(c) \/ BeginPass(c)
                            \/ ListToTerminate(c) \/ SigTerm(c)
         \/ \E c \in Cmds, d \in Pods : Terminate(c, d)
         \/ \E c \in Cmds : PassCall(c)
         \/ \E c \in Cmds, p \in Loops : Spawn(c, p)
         \/ \E c \in Cmds : SigKill(c)
         \/ \E p \in Loops : DaemonStep(p)
         \/ RunPodStep /\ UNCHANGED cmdVars
BY DEF LNext, CmdStep, StopStep, StartStep, OwnStep, StoreStep, BeginPass

LEMMA StoreStepRow ==
  ASSUME LInv, NEW c \in Cmds, StoreStep(c)
  PROVE  IndInv'
<1>1. UNCHANGED <<world, pc, stop, local>>
  BY DEF StoreStep, TerminateFails, DeleteCluster, DeleteDaemonRow, Register, SavePrefs, StoreFails, PortBusy
<1>2. faults \in Nat /\ db \in StoreType
  BY DEF LInv, IndInv, TypeOK
<1>3. faults' \in Nat
  BY <1>2 DEF StoreStep, TerminateFails, DeleteCluster, DeleteDaemonRow, Register, SavePrefs,
     StoreFails, PortBusy, Fault
<1>4. db' \in StoreType
  BY <1>2, MoreStoreTypes DEF StoreStep, TerminateFails, DeleteCluster, DeleteDaemonRow,
     Register, SavePrefs, StoreFails, PortBusy, LInv, CmdTypes
<1> QED
  BY <1>1, <1>3, <1>4, RowStep DEF LInv

LEMMA OwnStepTypes ==
  ASSUME LInv, NEW c \in Cmds, OwnStep(c)
  PROVE  CmdTypes'
<1> USE DEF LInv, CmdTypes, Goto, CPC
<1>1. ASSUME NEW k \in Kinds, NEW h \in Loops \cup {None}, Invoke(c, k, h)
      PROVE  CmdTypes'
  BY <1>1 DEF Invoke, First
<1>2. CASE AllTerminated(c)
  BY <1>2 DEF AllTerminated
<1>3. CASE NoDaemonRow(c)
  BY <1>3 DEF NoDaemonRow, AfterStop, Ended
<1>4. CASE DaemonGone(c)
  BY <1>4 DEF DaemonGone
<1>5. CASE AlreadyRunning(c)
  BY <1>5 DEF AlreadyRunning, Ended
<1>6. CASE PassEnds(c)
  BY <1>6 DEF PassEnds, Ended
<1>7. CASE Poll(c)
  BY <1>7 DEF Poll, Ended
<1> QED
  BY <1>1, <1>2, <1>3, <1>4, <1>5, <1>6, <1>7 DEF OwnStep

LEMMA StoreStepTypes ==
  ASSUME LInv, NEW c \in Cmds, StoreStep(c)
  PROVE  CmdTypes'
<1> USE DEF LInv, CmdTypes, Goto, CPC, Ended
<1>1. CASE TerminateFails(c)
  BY <1>1 DEF TerminateFails
<1>2. CASE DeleteCluster(c)
  BY <1>2 DEF DeleteCluster, AfterDelete
<1>3. CASE DeleteDaemonRow(c)
  BY <1>3 DEF DeleteDaemonRow, AfterStop
<1>4. CASE Register(c)
  BY <1>4 DEF Register
<1>5. CASE SavePrefs(c)
  BY <1>5 DEF SavePrefs
<1>6. CASE StoreFails(c)
  BY <1>6 DEF StoreFails, PortBusy
<1>7. CASE PortBusy(c)
  BY <1>7 DEF PortBusy
<1> QED
  BY <1>1, <1>2, <1>3, <1>4, <1>5, <1>6, <1>7 DEF StoreStep

(* Of the commands only the one that steps changes its locals, and no step *)
(* but the pass itself leads into a pass or out of it unfinished.          *)
LEMMA OthersKeep ==
  ASSUME LInv, NEW c \in Cmds, NEW q \in Cmds, q # c,
         OwnStep(c) \/ StoreStep(c)
  PROVE  /\ cpc'[q] = cpc[q] /\ child'[q] = child[q] /\ todo'[q] = todo[q]
         /\ pc' = pc /\ owner' = owner
BY DEF OwnStep, StoreStep, Invoke, AllTerminated, NoDaemonRow, DaemonGone, AlreadyRunning,
   PassEnds, Poll, TerminateFails, DeleteCluster, DeleteDaemonRow, Register, SavePrefs,
   StoreFails, PortBusy, Goto, LInv, CmdTypes, vars, world, local

LEMMA StepperKeeps ==
  ASSUME LInv, NEW c \in Cmds, OwnStep(c) \/ StoreStep(c)
  PROVE  /\ cpc'[c] # "pass" => pc[c] \notin {"list", "deploy", "record"}
         /\ cpc'[c] # "kill"
         /\ todo'[c] = todo[c] /\ pc' = pc /\ owner' = owner
<1> USE DEF LInv, InPass, CmdTypes, Goto, At, vars, world, local
<1>1. CASE OwnStep(c)
  <2>1. ASSUME NEW k \in Kinds, NEW h \in Loops \cup {None}, Invoke(c, k, h)
        PROVE  /\ cpc'[c] # "kill" /\ cpc[c] # "pass"
               /\ todo' = todo /\ pc' = pc /\ owner' = owner
    BY <2>1 DEF Invoke, First, NewCmd
  <2>2. CASE AllTerminated(c) \/ NoDaemonRow(c) \/ DaemonGone(c) \/ AlreadyRunning(c) \/ Poll(c)
    BY <2>2 DEF AllTerminated, NoDaemonRow, DaemonGone, AlreadyRunning, Poll, AfterStop
  <2>3. CASE PassEnds(c)
    BY <2>3 DEF PassEnds
  <2> QED
    BY <1>1, <2>1, <2>2, <2>3 DEF OwnStep
<1>2. CASE StoreStep(c)
  BY <1>2 DEF StoreStep, TerminateFails, DeleteCluster, AfterDelete, DeleteDaemonRow, AfterStop,
     Register, SavePrefs, StoreFails, PortBusy
<1> QED
  BY <1>1, <1>2

LEMMA PlainStep ==
  ASSUME LInv, NEW c \in Cmds, OwnStep(c) \/ StoreStep(c)
  PROVE  LInv'
<1>1. IndInv'
  <2>1. CASE OwnStep(c)
    <3>1. UNCHANGED vars
      BY <2>1 DEF OwnStep, Invoke, AllTerminated, NoDaemonRow, DaemonGone, AlreadyRunning,
         PassEnds, Poll
    <3> QED
      BY <3>1, IndInvStep DEF LInv
  <2>2. CASE StoreStep(c)
    BY <2>2, StoreStepRow
  <2> QED
    BY <2>1, <2>2
<1>2. CmdTypes'
  BY OwnStepTypes, StoreStepTypes
<1>3. InPass'
  BY OthersKeep, StepperKeeps DEF LInv, InPass
<1> QED
  BY <1>1, <1>2, <1>3 DEF LInv

(* A process moves itself alone, and owns what it launches.                *)
LEMMA MovesItself ==
  ASSUME TypeOK, NEW p \in Procs, Call(p) \/ SetStop(p) \/ Ends(p)
  PROVE  /\ \A q \in Procs : q # p => pc'[q] = pc[q]
         /\ \A d \in Pods : owner'[d] = owner[d] \/ owner'[d] \in Procs
<1> USE DEF TypeOK, world
<1>1. CASE Call(p)
  <2>1. \A q \in Procs : q # p => pc'[q] = pc[q]
    BY <1>1 DEF Call, ResolveGpu, ResolveGpuFails, Touch, ListPods, Decide, ListFails,
       LaunchOk, LaunchLost, NoCapacity, LaunchRefused, Record, NextPass
  <2>2. \A d \in Pods : owner'[d] = owner[d] \/ owner'[d] \in Procs
    BY <1>1 DEF Call, ResolveGpu, ResolveGpuFails, Touch, ListPods, ListFails,
       LaunchOk, LaunchLost, NoCapacity, LaunchRefused, Record, NextPass
  <2> QED
    BY <2>1, <2>2
<1>2. CASE SetStop(p)
  BY <1>2 DEF SetStop
<1>3. CASE Ends(p)
  BY <1>3 DEF Ends, EndThread, EndMidDeploy
<1> QED
  BY <1>1, <1>2, <1>3

(* The steps that start or stop a process of Reconciler, or make its calls.*)
LEMMA PassStep ==
  ASSUME LInv, NEW c \in Cmds,
         PassCall(c) \/ SigKill(c) \/ \E p \in Loops : Spawn(c, p)
  PROVE  CmdTypes' /\ InPass'
<1> USE Commands DEF LInv, CmdTypes, InPass, At, Goto, IndInv, TypeOK
<1>1. CASE PassCall(c)
  BY <1>1, MovesItself DEF PassCall, cmdVars
<1>2. ASSUME NEW p \in Loops, Spawn(c, p) PROVE CmdTypes' /\ InPass'
  BY <1>2 DEF Spawn, Start, CPC, Ended, world
<1>3. CASE SigKill(c)
  <2>1. Ends(child[c]) /\ child[c] \in Procs
    BY <1>3 DEF SigKill
  <2> QED
    BY <1>3, <2>1, MovesItself DEF SigKill, CPC
<1> QED
  BY <1>1, <1>2, <1>3

(* So do a daemon's steps and RunPod's.                                    *)
LEMMA DaemonKeeps ==
  ASSUME LInv, (RunPodStep /\ UNCHANGED cmdVars) \/ \E p \in Loops : DaemonStep(p)
  PROVE  CmdTypes' /\ InPass'
<1> USE Commands DEF LInv, CmdTypes, InPass, cmdVars, IndInv, TypeOK
<1>1. ASSUME NEW p \in Loops, DaemonStep(p) PROVE CmdTypes' /\ InPass'
  BY <1>1, MovesItself DEF DaemonStep, Exit
<1>2. CASE RunPodStep /\ UNCHANGED cmdVars
  BY <1>2 DEF RunPodStep, PodOff, PodGone, PodBack
<1> QED
  BY <1>1, <1>2

LEMMA ListingKeeps ==
  ASSUME LInv, NEW c \in Cmds, ListToTerminate(c)
  PROVE  InPass'
<1>1. PICK seen \in Answers(c) :
        IF Refetch(c, seen)
        THEN UNCHANGED <<cpc, todo>>
        ELSE todo' = [todo EXCEPT ![c] = seen] /\ Goto(c, "terminate")
  BY DEF ListToTerminate
<1>2. \A d \in seen : owner[d] \in Procs
  BY DEF Answers, Listed, LInv, IndInv, OwnerKnown
<1> QED
  BY <1>1, <1>2 DEF ListToTerminate, Goto, At, world, LInv, CmdTypes, InPass

(* Every step of the system keeps the invariant.                           *)
LEMMA LInvStep ==
  ASSUME LInv, [LNext]_allVars
  PROVE  LInv'
<1>1. ASSUME NEW c \in Cmds, OwnStep(c) \/ StoreStep(c) PROVE LInv'
  BY <1>1, PlainStep
<1>2. ASSUME NEW c \in Cmds, BeginPass(c) PROVE LInv'
  <2> USE Commands DEF BeginPass, CheckRow, ForegroundPrefs, At
  <2>1. IndInv'
    <3>1. pc[c] \notin {"list", "deploy", "record"}
      BY <1>2 DEF LInv, InPass
    <3>2. db' \in StoreType /\ DeleteServeDaemon(db) \in StoreType
      BY <1>2, MoreStoreTypes DEF LInv, IndInv, TypeOK
    <3>3. CASE pc' = [pc EXCEPT ![c] = "resolve"]
      BY <1>2, <3>1, <3>2, <3>3, PassBegins DEF LInv
    <3>4. CASE UNCHANGED <<db, pc>>
      BY <1>2, <3>4, RowStep DEF LInv, IndInv, TypeOK
    <3> QED
      BY <1>2, <3>3, <3>4
  <2>2. CmdTypes'
    BY <1>2 DEF LInv, CmdTypes, Goto, CPC, Ended
  <2>3. InPass'
    BY <1>2 DEF LInv, CmdTypes, IndInv, TypeOK, InPass, Goto, world
  <2> QED
    BY <2>1, <2>2, <2>3 DEF LInv
<1>3. ASSUME NEW c \in Cmds, ListToTerminate(c) PROVE LInv'
  BY <1>3, ListToTerminateStep, ListingKeeps DEF LInv
<1>4. ASSUME NEW c \in Cmds, SigTerm(c) PROVE LInv'
  BY <1>4, SigTermStep DEF LInv
<1>5. ASSUME NEW c \in Cmds, NEW d \in Pods, Terminate(c, d) PROVE LInv'
  <2>1. CmdTypes' /\ InPass'
    BY <1>5 DEF Terminate, LInv, CmdTypes, InPass
  <2> QED
    BY <1>5, <2>1, TerminateStep DEF LInv
<1>6. ASSUME NEW c \in Cmds, PassCall(c) \/ SigKill(c) \/ \E p \in Loops : Spawn(c, p)
      PROVE  LInv'
  BY <1>6, PassStep, ReconcilerStep DEF LInv
<1>7. CASE (RunPodStep /\ UNCHANGED cmdVars) \/ \E p \in Loops : DaemonStep(p)
  BY <1>7, DaemonKeeps, ReconcilerStep DEF LInv
<1>8. CASE UNCHANGED allVars
  <2>1. IndInv'
    BY <1>8, IndInvStep DEF LInv, allVars
  <2> QED
    BY <1>8, <2>1 DEF allVars, cmdVars, vars, LInv, CmdTypes, InPass
<1> QED
  BY <1>1, <1>2, <1>3, <1>4, <1>5, <1>6, <1>7, <1>8, CommandActions

(* Commands and daemons together keep the invariant of the reconcilers.    *)
THEOREM LifecycleInduction == LSpec => []LInv
<1>1. LInit => LInv
  BY LInvInit
<1>2. LInv /\ [LNext]_allVars => LInv'
  BY LInvStep
<1> QED
  BY <1>1, <1>2, PTL DEF LSpec

(* Every variable of a command and of the daemons keeps its type.          *)
THEOREM LifecycleTypes == LSpec => []LTypeOK
<1>1. LInv => LTypeOK
  BY DEF LInv, IndInv, CmdTypes, LTypeOK
<1> QED
  BY <1>1, LifecycleInduction, PTL

(* Whatever is started, stopped, removed and refreshed, no pass of a       *)
(* command or of a daemon launches beyond num_nodes.                       *)
THEOREM LifecycleBudget == LSpec => []SlotBudget
<1>1. LInv => SlotBudget
  BY DEF LInv, IndInv
<1> QED
  BY <1>1, LifecycleInduction, PTL

-----------------------------------------------------------------------------
LEMMA TerminateVacates ==
  ASSUME LInv, NEW c \in Cmds, NEW d \in Pods, Terminate(c, d)
  PROVE  \E p \in Procs : RS!Vacate(p, d)
<1>1. PICK p \in Procs : p = owner[d]
  BY DEF Terminate, LInv, InPass
<1>2. owner' = owner /\ back' = back /\ pod' = [pod EXCEPT ![d] = "gone"]
  BY DEF Terminate
<1>3. \A q \in Procs : OwnAlive(q)' = OwnAlive(q) \ {d}
  BY <1>2, PodDown DEF LInv, IndInv
<1>4. \A q \in Procs : q # p => d \notin OwnAlive(q)
  BY <1>1 DEF OwnAlive
<1>5. [q \in Procs |-> OwnAlive(q)]'
        = [[q \in Procs |-> OwnAlive(q)] EXCEPT ![p] = @ \ {d}]
  <2>1. \A q \in Procs : OwnAlive(q)' = IF q = p THEN OwnAlive(q) \ {d} ELSE OwnAlive(q)
    BY <1>3, <1>4
  <2> QED
    BY <2>1
<1> QED
  BY <1>2, <1>5 DEF RS!Vacate

LEMMA LifecycleRefines ==
  ASSUME LInv, [LNext]_allVars
  PROVE  [RS!RSNext]_(RS!rsVars)
<1>1. CASE [Next]_vars
  BY <1>1, StepRefines DEF LInv
<1>6. CASE \E p \in Procs : Ends(p)
  BY <1>6, EndsRefines DEF LInv
<1>2. CASE UNCHANGED world
  BY <1>2, PodSame, SlotsSame DEF world
<1>3. ASSUME NEW c \in Cmds, OwnStep(c) \/ StoreStep(c) \/ BeginPass(c) \/ ListToTerminate(c)
                             \/ SigTerm(c)
      PROVE  UNCHANGED world
  BY <1>3 DEF OwnStep, StoreStep, BeginPass, ListToTerminate, SigTerm, Invoke, AllTerminated,
     NoDaemonRow, DaemonGone, AlreadyRunning, PassEnds, Poll, TerminateFails, DeleteCluster,
     DeleteDaemonRow, Register, SavePrefs, StoreFails, PortBusy, CheckRow, ForegroundPrefs, vars, world
<1>4. ASSUME NEW c \in Cmds, NEW d \in Pods, Terminate(c, d)
      PROVE  [RS!RSNext]_(RS!rsVars)
  BY <1>4, TerminateVacates DEF RS!RSNext
<1>5. CASE UNCHANGED allVars
  BY <1>1, <1>5 DEF allVars
<1> QED
  BY <1>1, <1>2, <1>3, <1>4, <1>5, <1>6, CommandActions, ReconcilerStep

(* Commands and daemons implement the replica set: what a command launches *)
(* or terminates, and what a daemon does meanwhile, fills free slots only. *)
THEOREM LifecycleImplements == LSpec => FillsFreeSlots
<1>1. LInit => RS!RSInit
  <2>1. ASSUME Init PROVE \A p \in Procs : OwnAlive(p) = {}
    BY <2>1 DEF Init, OwnAlive, Alive
  <2> QED
    BY <2>1 DEF LInit, Init, RS!RSInit
<1>2. LInv /\ [LNext]_allVars => [RS!RSNext]_(RS!rsVars)
  BY LifecycleRefines
<1> QED
  BY <1>1, <1>2, LifecycleInduction, PTL DEF LSpec, FillsFreeSlots, RS!RSSpec
=============================================================================
