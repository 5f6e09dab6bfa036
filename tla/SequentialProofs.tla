--------------------------- MODULE SequentialProofs ---------------------------
(***************************************************************************)
(* ServeLifecycle when no command is given while another one runs: no      *)
(* daemon goes astray, no pod of an earlier command survives a stop, a     *)
(* remove or a refresh that completes, a stop ends its daemon, and no      *)
(* surplus pods build up.                                                  *)
(***************************************************************************)
EXTENDS ServeLifecycleProofs

(* At most one command runs, and the daemon that serves it was started.    *)
Single ==
  /\ \A c, o \in Cmds : Active(c) /\ Active(o) => c = o
  /\ \A c \in Cmds : host[c] # None => pc[host[c]] # "idle"

(* Nobody who was started comes back to life.                              *)
NoRevival == \A q \in Loops : pc[q] # "idle" =>
  /\ pc'[q] # "idle"
  /\ PidAlive(q)' => PidAlive(q)

-----------------------------------------------------------------------------
(* The calls of a process revive nobody and leave the daemon's row alone.  *)
LEMMA CallsRevive ==
  ASSUME TypeOK, NEW p \in Procs, Call(p) \/ SetStop(p) \/ Ends(p)
  PROVE  /\ db'.daemon = db.daemon
         /\ \A q \in Procs : /\ pc[q] # "idle" => pc'[q] # "idle"
                             /\ PidAlive(q)' => PidAlive(q)
<1>1. db'.daemon = db.daemon
  <2>1. CASE Call(p)
    BY <2>1 DEF Call, ResolveGpu, ResolveGpuFails, Touch, ListPods, ListFails,
       LaunchOk, LaunchLost, NoCapacity, LaunchRefused, Record, NextPass, UpsertClusterTouch,
       RecordPodLaunch, TypeOK, StoreType
  <2>2. CASE SetStop(p) \/ Ends(p)
    BY <2>2 DEF SetStop, Ends, EndThread, EndMidDeploy
  <2> QED
    BY <2>1, <2>2
<1>2. \A q \in Procs : q # p => pc'[q] = pc[q]
  BY MovesItself
<1>3. /\ pc[p] # "idle" => pc'[p] # "idle"
      /\ PidAlive(p)' => PidAlive(p)
  <2> USE DEF PidAlive, TypeOK
  <2>1. CASE Call(p)
    BY <2>1 DEF Call, ResolveGpu, ResolveGpuFails, Touch, ListPods, Decide, ListFails, AfterPass,
       AfterError, LaunchOk, LaunchLost, NoCapacity, LaunchRefused, Record, NextPass
  <2>2. CASE SetStop(p) \/ Ends(p)
    BY <2>2 DEF SetStop, Ends, EndThread, EndMidDeploy
  <2> QED
    BY <2>1, <2>2
<1> QED
  BY <1>1, <1>2, <1>3 DEF PidAlive

(* A step that gives no command keeps Single.                              *)
LEMMA SingleKept ==
  ASSUME LInv, Single, NoRevival, host' = host,
         \A o \in Cmds : cpc[o] \in {"idle"} \cup Ended => cpc'[o] = cpc[o]
  PROVE  Single' /\ \A o \in Cmds : Active(o)' => Active(o)
<1>1. \A o \in Cmds : Active(o)' => Active(o)
  BY DEF Active, Lives, LInv, CmdTypes, Single, NoRevival
<1>2. \A o \in Cmds : host'[o] # None => pc'[host'[o]] # "idle"
  BY DEF LInv, CmdTypes, Single, NoRevival
<1> QED
  BY <1>1, <1>2 DEF Single

(* The steps a command takes, each of which needs that it is active.       *)
Acts(c) ==
  \/ AllTerminated(c) \/ NoDaemonRow(c) \/ DaemonGone(c)
  \/ AlreadyRunning(c) \/ PassEnds(c) \/ Poll(c)
  \/ StoreStep(c) \/ BeginPass(c) \/ ListToTerminate(c) \/ SigTerm(c)
  \/ (\E d \in Pods : Terminate(c, d)) \/ (\E p \in Loops : Spawn(c, p)) \/ SigKill(c)

LEMMA ActsFacts ==
  ASSUME LInv, NEW c \in Cmds, Acts(c)
  PROVE  /\ Active(c)
         /\ host' = host /\ kind' = kind
         /\ \A o \in Cmds : o # c => cpc'[o] = cpc[o] /\ child'[o] = child[o]
<1> USE Commands DEF Active, At, Ended, Goto, LInv, CmdTypes
<1>1. CASE StoreStep(c)
  BY <1>1 DEF StoreStep, TerminateFails, DeleteCluster, DeleteDaemonRow, Register, SavePrefs,
     StoreFails, PortBusy
<1>2. CASE BeginPass(c) \/ SigTerm(c) \/ SigKill(c) \/ ListToTerminate(c)
  BY <1>2 DEF BeginPass, CheckRow, ForegroundPrefs, SigTerm, SigKill, ListToTerminate
<1>3. ASSUME (\E d \in Pods : Terminate(c, d)) \/ (\E p \in Loops : Spawn(c, p))
      PROVE  /\ Active(c)
             /\ host' = host /\ kind' = kind
             /\ \A o \in Cmds : o # c => cpc'[o] = cpc[o] /\ child'[o] = child[o]
  BY <1>3 DEF Terminate, Spawn
<1>4. CASE \/ AllTerminated(c) \/ NoDaemonRow(c) \/ DaemonGone(c)
           \/ AlreadyRunning(c) \/ PassEnds(c) \/ Poll(c)
  BY <1>4 DEF AllTerminated, NoDaemonRow, DaemonGone, AlreadyRunning, PassEnds, Poll
<1> QED
  BY <1>1, <1>2, <1>3, <1>4 DEF Acts

LEMMA ActsRevive ==
  ASSUME LInv, NEW c \in Cmds, Acts(c)
  PROVE  NoRevival
<1> USE Commands DEF LInv, IndInv, TypeOK, NoRevival, PidAlive
<1>1. ASSUME NEW p \in Loops, Spawn(c, p) PROVE NoRevival
  BY <1>1 DEF Spawn, Start
<1>2. CASE SigKill(c)
  BY <1>2 DEF SigKill, Ends, EndThread, EndMidDeploy
<1>3. CASE BeginPass(c)
  BY <1>3 DEF BeginPass, CheckRow, ForegroundPrefs
<1>4. ASSUME ~ (\E p \in Loops : Spawn(c, p)), ~ SigKill(c), ~ BeginPass(c)
      PROVE  pc' = pc
  BY <1>4 DEF Acts, StoreStep, TerminateFails, DeleteCluster, DeleteDaemonRow, Register, SavePrefs,
     StoreFails, PortBusy, SigTerm, ListToTerminate, Terminate, AllTerminated, NoDaemonRow, DaemonGone,
     AlreadyRunning, PassEnds, Poll, vars
<1> QED
  BY <1>1, <1>2, <1>3, <1>4

(* What a step may be.                                                     *)
LEMMA SequentialActions ==
  ASSUME LInv, [LNext]_allVars
  PROVE  \/ \E c \in Cmds, k \in Kinds, h \in Loops \cup {None} : Invoke(c, k, h)
         \/ \E c \in Cmds : Acts(c)
         \/ /\ UNCHANGED cmdVars
            /\ \/ \E c \in Cmds : PassCall(c)
               \/ \E p \in Loops : Call(p) \/ SetStop(p) \/ Ends(p)
               \/ RunPodStep
               \/ UNCHANGED vars
BY CommandActions DEF OwnStep, Acts, PassCall, DaemonStep, Exit, allVars

LEMMA SingleStep ==
  ASSUME Sequential, LInv, Single, [LNext]_allVars
  PROVE  Single'
<1> USE Commands
<1>1. ASSUME NEW c \in Cmds, NEW k \in Kinds, NEW h \in Loops \cup {None}, Invoke(c, k, h)
      PROVE  Single'
  BY <1>1 DEF Invoke, Single, Active, Lives, PidAlive, Goto, LInv, CmdTypes, vars
<1>2. ASSUME NEW c \in Cmds, Acts(c) PROVE Single'
  BY <1>2, ActsFacts, ActsRevive, SingleKept DEF Active
<1>3. ASSUME UNCHANGED cmdVars, NEW p \in Procs, Call(p) \/ SetStop(p) \/ Ends(p) PROVE Single'
  BY <1>3, CallsRevive, SingleKept DEF cmdVars, NoRevival, LInv, IndInv
<1>4. ASSUME UNCHANGED cmdVars, RunPodStep \/ UNCHANGED vars PROVE Single'
  BY <1>4, SingleKept DEF cmdVars, vars, RunPodStep, PodOff, PodGone, PodBack, NoRevival, PidAlive
<1> QED
  BY <1>1, <1>2, <1>3, <1>4, SequentialActions DEF PassCall

-----------------------------------------------------------------------------
(* No daemon goes astray.                                                  *)

(* The commands this holds for: `serve --foreground' never registers, and  *)
(* a database that cascades forgets the daemon with its cluster, which     *)
(* remove and train delete.                                                *)
Orderly ==
  /\ Sequential
  /\ Kinds \subseteq {"start", "stop", "remove", "refresh", "train"}
  /\ ForeignKeys => Kinds \cap {"remove", "train"} = {}

(* A train deletes the cluster when it cleans and when it has completed.   *)
TrainDeletes(c) == kind[c] = "train" /\ (Cleaning(c) \/ db.daemon = None)

(* What a command knows of the daemon's row while it is the only one.      *)
Stages == \A c \in Cmds :
  /\ cpc[c] # "idle" => kind[c] \in Kinds
  /\ Active(c) =>
       /\ cpc[c] \in {"pass", "spawn", "poll", "register"} /\ kind[c] # "train" => db.daemon = None
       /\ cpc[c] \in {"spawn", "poll", "register", "check", "prefs"} => kind[c] # "train"
       /\ cpc[c] \in {"kill", "unrow"} => child[c] \in Loops /\ db.daemon = child[c]
       /\ cpc[c] = "unrow" => ~ PidAlive(child[c])
       /\ cpc[c] \in {"poll", "register"} => child[c] \in Loops
       /\ cpc[c] = "delete" => kind[c] = "remove" \/ TrainDeletes(c)

StrayInv == Single /\ Stages /\ NoStrayDaemon

(* Steps of processes and of RunPod                                        *)
LEMMA StrayQuiet ==
  ASSUME LInv, StrayInv, UNCHANGED cmdVars, db'.daemon = db.daemon,
         \A c \in Cmds : cpc[c] = "delete" => pc'[c] = pc[c],
         \A q \in Loops : /\ pc[q] # "idle" => pc'[q] # "idle"
                          /\ PidAlive(q)' => PidAlive(q)
  PROVE  Stages' /\ NoStrayDaemon'
<1>1. \A o \in Cmds : Active(o)' => Active(o)
  BY SingleKept DEF StrayInv, NoRevival, cmdVars
<1>2. Stages'
  BY <1>1 DEF StrayInv, Stages, Cleaning, TrainDeletes, cmdVars
<1>3. NoStrayDaemon'
  BY DEF StrayInv, NoStrayDaemon, Stray, cmdVars
<1> QED
  BY <1>2, <1>3

LEMMA StrayInvoke ==
  ASSUME Orderly, LInv, StrayInv,
         NEW c \in Cmds, NEW k \in Kinds, NEW h \in Loops \cup {None}, Invoke(c, k, h)
  PROVE  Stages' /\ NoStrayDaemon'
<1>1. /\ cpc[c] = "idle" /\ cpc' = [cpc EXCEPT ![c] = First(k)]
      /\ First(k) \in {"check", "list", "train"}
      /\ \A o \in Cmds : ~ Active(o)
  BY DEF Orderly, Invoke, NewCmd, Goto, First
<1>2. Stages'
  <2>1. \A o \in Cmds : o # c => ~ Active(o)'
    BY <1>1 DEF Invoke, Active, Lives, PidAlive, LInv, CmdTypes, vars
  <2> QED
    BY <1>1, <2>1 DEF Orderly, Invoke, First, StrayInv, Stages, LInv, CmdTypes
<1>3. NoStrayDaemon'
  BY <1>1 DEF Invoke, StrayInv, NoStrayDaemon, Stray, PidAlive, vars, LInv, CmdTypes
<1> QED
  BY <1>2, <1>3

(* A command's step concerns the command alone: the others are not active. *)
LEMMA StagesOfStepper ==
  ASSUME LInv, StrayInv, NEW c \in Cmds, Acts(c),
         Active(c)' =>
           /\ cpc'[c] \in {"pass", "spawn", "poll", "register"} /\ kind[c] # "train" => db'.daemon = None
           /\ cpc'[c] \in {"spawn", "poll", "register", "check", "prefs"} => kind[c] # "train"
           /\ cpc'[c] \in {"kill", "unrow"} => child'[c] \in Loops /\ db'.daemon = child'[c]
           /\ cpc'[c] = "unrow" => ~ PidAlive(child[c])'
           /\ cpc'[c] \in {"poll", "register"} => child'[c] \in Loops
           /\ cpc'[c] = "delete" => kind[c] = "remove" \/ TrainDeletes(c)'
  PROVE  Stages'
<1>1. \A o \in Cmds : Active(o)' => Active(o)
  BY ActsFacts, ActsRevive, SingleKept DEF StrayInv, Active
<1>2. \A o \in Cmds : o # c => ~ Active(o)'
  BY <1>1, ActsFacts DEF StrayInv, Single
<1>3. \A o \in Cmds : cpc'[o] # "idle" => kind'[o] \in Kinds
  BY ActsFacts DEF StrayInv, Stages, Active
<1> QED
  BY <1>2, <1>3, ActsFacts DEF Stages

LEMMA StagesStep ==
  ASSUME Orderly, LInv, StrayInv, NEW c \in Cmds, Acts(c)
  PROVE  Stages'
<1> USE Commands DEF Orderly, LInv, IndInv, TypeOK, CmdTypes, At, Goto, Ended
<1>0. /\ Active(c) /\ kind[c] \in Kinds /\ kind' = kind /\ None \notin Loops
      /\ kind[c] \in {"start", "stop", "remove", "refresh", "train"}
  BY ActsFacts, ReconcilerAssumption DEF StrayInv, Stages, Active, Procs
<1>1. CASE \/ AlreadyRunning(c) \/ TerminateFails(c) \/ SavePrefs(c) \/ StoreFails(c)
           \/ PortBusy(c) \/ ListToTerminate(c) \/ \E d \in Pods : Terminate(c, d)
  <2>1. cpc'[c] \in {"ok", "error", "list", "terminate"}
    BY <1>0, <1>1 DEF AlreadyRunning, TerminateFails, SavePrefs, StoreFails, PortBusy, ListToTerminate, Terminate
  <2> QED
    BY <2>1, <1>1, StagesOfStepper DEF Acts, StoreStep
<1>2. CASE AllTerminated(c)
  <2>1. /\ cpc'[c] \in {"daemon", "delete"} /\ pc' = pc
        /\ cpc'[c] = "delete" => kind[c] = "remove" \/ Cleaning(c)
    BY <1>0, <1>2 DEF AllTerminated, vars
  <2>2. cpc'[c] = "delete" => kind[c] = "remove" \/ TrainDeletes(c)'
    BY <1>0, <2>1 DEF Cleaning, TrainDeletes
  <2> QED
    BY <1>2, <2>1, <2>2, StagesOfStepper DEF Acts
<1>3. CASE DeleteCluster(c)
  <2>1. \/ cpc'[c] \in {"daemon", "ok"}
        \/ cpc'[c] = "pass" /\ kind[c] = "train"
    BY <1>0, <1>3 DEF DeleteCluster, AfterDelete, Cleaning
  <2> QED
    BY <1>3, <2>1, StagesOfStepper DEF Acts, StoreStep
<1>11. CASE NoDaemonRow(c) \/ DeleteDaemonRow(c)
  <2>1. db'.daemon = None
    BY <1>11 DEF NoDaemonRow, DeleteDaemonRow, DeleteServeDaemon, StoreType, vars
  <2>2. \/ cpc'[c] = "ok"
        \/ cpc'[c] = "check" /\ kind[c] = "refresh"
        \/ cpc'[c] = "delete" /\ kind[c] = "train"
    BY <1>0, <1>11 DEF NoDaemonRow, DeleteDaemonRow, AfterStop
  <2> QED
    BY <1>0, <1>11, <2>1, <2>2, StagesOfStepper DEF Acts, StoreStep, TrainDeletes
<1>4. CASE SigTerm(c)
  <2>1. cpc'[c] = "kill" /\ child'[c] = db.daemon /\ db' = db /\ db.daemon \in Loops
    BY <1>4, MoreStoreTypes DEF SigTerm, vars
  <2> QED
    BY <1>4, <2>1, StagesOfStepper DEF Acts
<1>5. CASE DaemonGone(c)
  <2>1. /\ cpc'[c] = "unrow" /\ child' = child /\ db' = db /\ ~ PidAlive(child[c])'
        /\ child[c] \in Loops /\ db.daemon = child[c]
    BY <1>0, <1>5 DEF DaemonGone, StrayInv, Stages, PidAlive, vars
  <2> QED
    BY <1>5, <2>1, StagesOfStepper DEF Acts
<1>6. CASE SigKill(c)
  <2>1. /\ cpc'[c] = "unrow" /\ child' = child /\ db' = db
        /\ child[c] \in Loops /\ db.daemon = child[c]
    BY <1>0, <1>6 DEF SigKill, Ends, EndThread, EndMidDeploy, StrayInv, Stages
  <2>2. ~ PidAlive(child[c])'
    BY <1>6, <2>1 DEF SigKill, Ends, EndThread, EndMidDeploy, PidAlive
  <2> QED
    BY <1>6, <2>1, <2>2, StagesOfStepper DEF Acts
<1>7. CASE BeginPass(c)
  <2>1. CASE CheckRow(c)
    <3>1. cpc'[c] = "pass" /\ db'.daemon = None
      BY <2>1 DEF CheckRow, DeleteServeDaemon, StoreType
    <3> QED
      BY <1>7, <3>1, StagesOfStepper DEF Acts
  <2>2. CASE ForegroundPrefs(c)
    BY <1>0, <2>2 DEF ForegroundPrefs
  <2> QED
    BY <1>7, <2>1, <2>2 DEF BeginPass
<1>8. CASE PassEnds(c)
  <2>1. cpc'[c] \in {"spawn", "error"} /\ db.daemon = None /\ db' = db /\ kind[c] # "train"
    BY <1>0, <1>8 DEF PassEnds, StrayInv, Stages, vars
  <2> QED
    BY <1>8, <2>1, StagesOfStepper DEF Acts
<1>9. ASSUME NEW p \in Loops, Spawn(c, p) PROVE Stages'
  <2>1. /\ cpc'[c] = "poll" /\ db.daemon = None /\ db' = db /\ child'[c] = p
        /\ kind[c] # "train"
    BY <1>0, <1>9 DEF Spawn, Start, StrayInv, Stages
  <2> QED
    BY <1>9, <2>1, StagesOfStepper DEF Acts
<1>10. CASE Poll(c)
  <2>1. /\ cpc'[c] \in {"register", "error"} /\ db.daemon = None /\ db' = db
        /\ child' = child /\ child[c] \in Loops /\ kind[c] # "train"
    BY <1>0, <1>10 DEF Poll, StrayInv, Stages, vars
  <2> QED
    BY <1>10, <2>1, StagesOfStepper DEF Acts
<1>12. CASE Register(c)
  <2>1. cpc'[c] \in {"prefs", "error"} /\ kind[c] # "train"
    BY <1>0, <1>12 DEF Register, StrayInv, Stages
  <2> QED
    BY <1>12, <2>1, StagesOfStepper DEF Acts, StoreStep
<1> QED
  BY <1>1, <1>2, <1>3, <1>4, <1>5, <1>6, <1>7, <1>8, <1>9, <1>10, <1>11, <1>12 DEF Acts, StoreStep

(* A step that leaves daemons and the row alone and keeps or enters a stage*)
(* that excuses a stray daemon.                                            *)
LEMMA StrayKept ==
  ASSUME LInv, StrayInv, NEW c \in Cmds, Acts(c), pc' = pc, db'.daemon = db.daemon,
         cpc[c] \in {"poll", "register", "error"} =>
            child'[c] = child[c] /\ cpc'[c] \in {"poll", "register", "error"}
  PROVE  NoStrayDaemon'
BY ActsFacts DEF StrayInv, NoStrayDaemon, Stray, PidAlive

LEMMA StrayStep ==
  ASSUME Orderly, LInv, StrayInv, NEW c \in Cmds, Acts(c)
  PROVE  NoStrayDaemon'
<1> USE Commands DEF Orderly, LInv, IndInv, TypeOK, CmdTypes, At, Goto, Ended
<1>0. /\ Active(c) /\ kind[c] \in Kinds /\ None \notin Loops
      /\ kind[c] \in {"start", "stop", "remove", "refresh", "train"}
      /\ \A o \in Cmds : o # c => cpc'[o] = cpc[o] /\ child'[o] = child[o]
  BY ActsFacts, ReconcilerAssumption DEF StrayInv, Stages, Active, Procs
<1>1. CASE \/ AllTerminated(c) \/ NoDaemonRow(c) \/ DaemonGone(c) \/ AlreadyRunning(c)
           \/ PassEnds(c) \/ TerminateFails(c) \/ SavePrefs(c) \/ StoreFails(c)
           \/ ListToTerminate(c) \/ SigTerm(c) \/ \E d \in Pods : Terminate(c, d)
  <2>1. pc' = pc /\ db'.daemon = db.daemon
    BY <1>1 DEF AllTerminated, NoDaemonRow, DaemonGone, AlreadyRunning, PassEnds, TerminateFails,
       SavePrefs, StoreFails, PortBusy, ListToTerminate, SigTerm, Terminate, vars, UpsertServeLaunchPrefs,
       StoreType
  <2>2. cpc[c] \in {"poll", "register", "error"} => cpc'[c] = "error" /\ child' = child
    BY <1>1 DEF AllTerminated, NoDaemonRow, DaemonGone, AlreadyRunning, PassEnds, TerminateFails,
       SavePrefs, StoreFails, PortBusy, ListToTerminate, SigTerm, Terminate
  <2> QED
    BY <1>1, <2>1, <2>2, StrayKept DEF Acts, StoreStep
<1>2. CASE DeleteCluster(c)
  <2>1. ~ ForeignKeys
    BY <1>0, <1>2 DEF DeleteCluster, StrayInv, Stages, TrainDeletes
  <2>2. pc' = pc /\ db'.daemon = db.daemon /\ cpc[c] = "delete"
    BY <1>2, <2>1 DEF DeleteCluster, DeleteClusterRecord, StoreType
  <2> QED
    BY <1>2, <2>2, StrayKept DEF Acts, StoreStep
<1>3. CASE Poll(c)
  BY <1>0, <1>3 DEF Poll, StrayInv, NoStrayDaemon, Stray, PidAlive, vars
<1>4. CASE DeleteDaemonRow(c)
  <2>1. db'.daemon = None /\ pc' = pc /\ ~ PidAlive(db.daemon) /\ cpc[c] = "unrow"
    BY <1>0, <1>4 DEF DeleteDaemonRow, DeleteServeDaemon, StoreType, StrayInv, Stages
  <2> QED
    BY <1>0, <2>1 DEF StrayInv, NoStrayDaemon, Stray, PidAlive
<1>5. CASE SigKill(c)
  <2>1. \A q \in Loops : PidAlive(q)' => PidAlive(q)
    BY <1>5 DEF SigKill, Ends, EndThread, EndMidDeploy, PidAlive
  <2>2. db' = db /\ cpc[c] = "kill"
    BY <1>5 DEF SigKill, Ends, EndThread, EndMidDeploy
  <2> QED
    BY <1>0, <2>1, <2>2 DEF StrayInv, NoStrayDaemon, Stray
<1>6. CASE BeginPass(c) \/ PortBusy(c)
  <2>1. CheckRow(c) \/ PortBusy(c)
    BY <1>0, <1>6 DEF BeginPass, ForegroundPrefs
  <2>2. /\ db'.daemon = None /\ cpc[c] = "check"
        /\ db.daemon \in Loops => ~ PidAlive(db.daemon)
    BY <1>0, <2>1 DEF CheckRow, PortBusy, DeleteServeDaemon, StoreType
  <2>3. \A q \in Loops : pc'[q] = pc[q]
    BY <2>1 DEF CheckRow, PortBusy
  <2> QED
    BY <1>0, <2>2, <2>3 DEF StrayInv, NoStrayDaemon, Stray, PidAlive
<1>7. ASSUME NEW p \in Loops, Spawn(c, p) PROVE NoStrayDaemon'
  <2>1. cpc'[c] = "poll" /\ cpc[c] = "spawn" /\ child'[c] = p /\ db' = db
    BY <1>0, <1>7 DEF Spawn, Start
  <2>2. \A q \in Loops : q # p => pc'[q] = pc[q]
    BY <1>7 DEF Spawn, Start
  <2> QED
    BY <1>0, <2>1, <2>2 DEF StrayInv, NoStrayDaemon, Stray, PidAlive
<1>8. CASE Register(c)
  <2>1. db.daemon = None /\ pc' = pc /\ cpc[c] = "register" /\ child' = child
    BY <1>0, <1>8 DEF Register, StrayInv, Stages
  <2>2. \/ db'.daemon = child[c]
        \/ cpc'[c] = "error" /\ db' = db
    BY <1>8 DEF Register, RegisterServeDaemon, StoreType
  <2> QED
    BY <1>0, <2>1, <2>2 DEF StrayInv, NoStrayDaemon, Stray, PidAlive
<1> QED
  BY <1>1, <1>2, <1>3, <1>4, <1>5, <1>6, <1>7, <1>8 DEF Acts, StoreStep

LEMMA StrayInvStep ==
  ASSUME Orderly, LInv, StrayInv, [LNext]_allVars
  PROVE  StrayInv'
<1> USE Commands
<1>1. Single'
  BY SingleStep DEF Orderly, StrayInv
<1>2. ASSUME NEW c \in Cmds, NEW k \in Kinds, NEW h \in Loops \cup {None}, Invoke(c, k, h)
      PROVE  Stages' /\ NoStrayDaemon'
  BY <1>2, StrayInvoke
<1>3. ASSUME NEW c \in Cmds, Acts(c) PROVE Stages' /\ NoStrayDaemon'
  BY <1>3, StagesStep, StrayStep
<1>4. ASSUME UNCHANGED cmdVars, NEW p \in Procs, Call(p) \/ SetStop(p) \/ Ends(p),
             p \in Loops \/ cpc[p] = "pass"
      PROVE  Stages' /\ NoStrayDaemon'
  <2>1. \A c \in Cmds : cpc[c] = "delete" => pc'[c] = pc[c]
    BY <1>4, MovesItself DEF LInv, IndInv
  <2> QED
    BY <1>4, <2>1, CallsRevive, StrayQuiet DEF LInv, IndInv
<1>5. ASSUME UNCHANGED cmdVars, RunPodStep \/ UNCHANGED vars
      PROVE  Stages' /\ NoStrayDaemon'
  BY <1>5, StrayQuiet DEF vars, RunPodStep, PodOff, PodGone, PodBack, PidAlive
<1> QED
  BY <1>1, <1>2, <1>3, <1>4, <1>5, SequentialActions DEF PassCall, At, StrayInv

LEMMA StrayInit ==
  ASSUME LInit
  PROVE  StrayInv
<1>1. \A c \in Cmds : ~ Active(c) /\ host[c] = None /\ cpc[c] = "idle"
  BY DEF LInit, Active
<1>2. \A p \in Loops : ~ PidAlive(p)
  BY Commands DEF LInit, Init, PidAlive
<1> QED
  BY <1>1, <1>2 DEF StrayInv, Single, Stages, NoStrayDaemon, Stray

(* Commands given one after the other, however they fail and wherever they *)
(* are cut off, leave no daemon that runs and is not the registered one,   *)
(* but for one a failed start left after its Popen.                        *)
THEOREM NoDaemonLost ==
  ASSUME Orderly
  PROVE  LSpec => []NoStrayDaemon
<1>1. LInit => StrayInv
  BY StrayInit
<1>2. LInv /\ StrayInv /\ [LNext]_allVars => StrayInv'
  BY StrayInvStep
<1>3. StrayInv => NoStrayDaemon
  BY DEF StrayInv
<1> QED
  BY <1>1, <1>2, <1>3, LifecycleInduction, PTL DEF LSpec

-----------------------------------------------------------------------------
(* Who stops a cluster ends its daemon.                                    *)

(* Only a train is where only trains go, only a stop has a host, and a stop*)
(* or remove never starts anything.                                        *)
Stopping == {"idle", "list", "terminate", "delete", "daemon", "kill", "unrow"} \cup Ended
Places ==
  /\ \A c \in Cmds : cpc[c] \in {"train", "wait", "export", "fetch"} => kind[c] = "train"
  /\ \A c \in Cmds : host[c] # None => kind[c] = "stop"
  /\ \A c \in Cmds : kind[c] \in {"stop", "remove"} => cpc[c] \in Stopping

LEMMA PlacesUnderCommands ==
  ASSUME LInv, Places, [LNext]_allVars
  PROVE  Places'
<1> USE Commands DEF LInv, CmdTypes, Places, Stopping, Goto, At, Ended
<1>1. ASSUME NEW c \in Cmds, NEW k \in Kinds, NEW h \in Loops \cup {None}, Invoke(c, k, h)
      PROVE  Places'
  BY <1>1 DEF Invoke, First
<1>2. ASSUME NEW c \in Cmds, Acts(c) PROVE Places'
  <2>1. /\ host' = host /\ kind' = kind
        /\ \A o \in Cmds : o # c => cpc'[o] = cpc[o]
    BY <1>2, ActsFacts
  <2>2. cpc'[c] \notin {"train", "wait", "export", "fetch"}
    BY <1>2 DEF Acts, StoreStep, TerminateFails, DeleteCluster, AfterDelete, DeleteDaemonRow, AfterStop,
       Register, SavePrefs, StoreFails, PortBusy, BeginPass, CheckRow, ForegroundPrefs, SigTerm, Spawn, SigKill,
       AllTerminated, NoDaemonRow, DaemonGone, AlreadyRunning, PassEnds, Poll, ListToTerminate, Terminate
  <2>3. kind[c] \in {"stop", "remove"} => cpc'[c] \in Stopping
    BY <1>2 DEF Acts, StoreStep, TerminateFails, DeleteCluster, AfterDelete, DeleteDaemonRow, AfterStop,
       Register, SavePrefs, StoreFails, PortBusy, BeginPass, CheckRow, ForegroundPrefs, SigTerm, Spawn, SigKill,
       AllTerminated, NoDaemonRow, DaemonGone, AlreadyRunning, PassEnds, Poll, ListToTerminate, Terminate,
       Cleaning
  <2> QED
    BY <2>1, <2>2, <2>3
<1>3. CASE UNCHANGED cmdVars
  BY <1>3 DEF cmdVars
<1> QED
  BY <1>1, <1>2, <1>3, SequentialActions

LEMMA PlacesInit == LInit => Places
BY DEF LInit, Places, Stopping

(* Who completes takes the last step itself.                               *)
LEMMA CompleterActs ==
  ASSUME LInv, LNext, NEW c \in Cmds, NEW k, Completes(c, k)
  PROVE  Acts(c)
<1> USE Commands DEF Completes, LInv, CmdTypes, Goto
<1>1. ASSUME NEW o \in Cmds, NEW j \in Kinds, NEW h \in Loops \cup {None}, Invoke(o, j, h) PROVE FALSE
  BY <1>1 DEF Invoke, First
<1>2. ASSUME NEW o \in Cmds, o # c, Acts(o) PROVE FALSE
  BY <1>2, ActsFacts
<1>3. ~ UNCHANGED cmdVars
  BY DEF cmdVars
<1> QED
  BY <1>1, <1>2, <1>3, SequentialActions

(* A stop or remove completes where it finds no row or deletes the row of a*)
(* daemon that is gone.                                                    *)
LEMMA StopCompletes ==
  ASSUME LInv, StrayInv, Places, LNext,
         NEW c \in Cmds, NEW k \in {"stop", "remove"}, Completes(c, k)
  PROVE  /\ Active(c) /\ cpc[c] \in {"daemon", "unrow"} /\ pc' = pc
         /\ \A p \in Loops : PidAlive(p) => db.daemon # p
<1> USE Commands DEF Completes, LInv, CmdTypes, Goto, At
<1>1. Acts(c)
  BY CompleterActs
<1>2. Active(c) /\ kind[c] = k /\ cpc[c] \in Stopping
  BY <1>1, ActsFacts DEF Places
<1>3. NoDaemonRow(c) \/ DeleteDaemonRow(c)
  BY <1>1, <1>2 DEF Acts, StoreStep, TerminateFails, DeleteCluster, AfterDelete, Register,
     SavePrefs, StoreFails, PortBusy, BeginPass, CheckRow, ForegroundPrefs, SigTerm, Spawn, SigKill,
     AllTerminated, DaemonGone, AlreadyRunning, PassEnds, Poll, ListToTerminate,
     Terminate, Stopping, Ended
<1>4. CASE NoDaemonRow(c)
  <2>1. None \notin Loops
    BY ReconcilerAssumption DEF Procs
  <2> QED
    BY <1>2, <1>4, <2>1 DEF NoDaemonRow, vars
<1>5. CASE DeleteDaemonRow(c)
  BY <1>2, <1>5 DEF DeleteDaemonRow, StrayInv, Stages
<1> QED
  BY <1>3, <1>4, <1>5

(* While one command stops a cluster nobody else starts its daemon.        *)
LEMMA OnlyLeftBehind ==
  ASSUME StrayInv, Places, NEW c \in Cmds, Active(c), cpc[c] \notin {"poll", "register"},
         NEW p \in Loops, PidAlive(p), db.daemon # p
  PROVE  \E o \in Cmds : child[o] = p /\ LeftBehind(o)
<1>1. None \notin Loops
  BY ReconcilerAssumption DEF Procs
<1>2. PICK o \in Cmds : child[o] = p /\ cpc[o] \in {"poll", "register", "error"}
  BY DEF StrayInv, NoStrayDaemon, Stray
<1>3. cpc[o] \in {"poll", "register"} => Active(o)
  BY DEF Places, Stopping, Active, Lives, Ended
<1>4. cpc[o] = "error"
  BY <1>2, <1>3 DEF StrayInv, Single
<1> QED
  BY <1>1, <1>2, <1>4 DEF LeftBehind

(* So a daemon that outlives a stop or remove was left behind.             *)
LEMMA StopEndsItStep ==
  ASSUME LInv, StrayInv, Places, LNext, NEW c \in Cmds, NEW k \in {"stop", "remove"},
         Completes(c, k), NEW p \in Loops, PidAlive(p)'
  PROVE  \E o \in Cmds : child[o] = p /\ LeftBehind(o)
<1>1. /\ Active(c) /\ cpc[c] \in {"daemon", "unrow"}
      /\ PidAlive(p) /\ db.daemon # p
  BY StopCompletes DEF PidAlive
<1> QED
  BY <1>1, OnlyLeftBehind

(* Commands given one after the other: a stop or remove that completes     *)
(* leaves no daemon of the cluster alive, whichever commands failed or died*)
(* before it, except one that a failed start left unregistered.            *)
THEOREM StopEndsIt ==
  ASSUME Orderly
  PROVE  LSpec => StopEndsDaemon
<1> DEFINE Inv == StrayInv /\ Places
<1>1. LInit => Inv
  BY StrayInit, PlacesInit
<1>2. LInv /\ Inv /\ [LNext]_allVars => Inv'
  BY StrayInvStep, PlacesUnderCommands
<1>3. LInv /\ Inv /\ [LNext]_allVars =>
        [\A c \in Cmds, k \in {"stop", "remove"} : Completes(c, k) =>
           \A p \in Loops : PidAlive(p)' =>
              \E o \in Cmds : child[o] = p /\ LeftBehind(o)]_allVars
  <2> SUFFICES ASSUME LInv, Inv, LNext, NEW c \in Cmds, NEW k \in {"stop", "remove"},
                      Completes(c, k), NEW p \in Loops, PidAlive(p)'
               PROVE  \E o \in Cmds : child[o] = p /\ LeftBehind(o)
    BY DEF Completes, allVars, cmdVars
  <2> QED
    BY StopEndsItStep
<1> QED
  BY <1>1, <1>2, <1>3, LifecycleInduction, PTL DEF LSpec, StopEndsDaemon

-----------------------------------------------------------------------------
(* No pod of an earlier command survives.                                  *)

(* A train terminates for good after its own pass, whose pods it owes too. *)
Terminates(c) == \/ kind[c] \in {"stop", "remove", "refresh"}
                 \/ kind[c] = "train" /\ pc[c] # "touch"
Relaunches(c) == IF kind[c] = "train" THEN Loops ELSE Loops \cup {c}
Excused(c, d) == owner[d] \in Relaunches(c) \/ back[owner[d]] > 0
Cleared(c) == IF kind[c] = "train" THEN cpc[c] \in {"daemon", "kill", "unrow", "delete"}
              ELSE cpc[c] \notin {"idle", "list", "terminate"} \cup Ended

(* Before a listing's last answer: either it was never truly empty so far, *)
(* or nothing was alive then.  Afterwards what is alive is on the list, and*)
(* when all of that is terminated nothing old is left.                     *)
Gone(c) ==
  /\ cpc[c] = "list" /\ blind[c] < attempt[c] => \A d \in Alive : Excused(c, d)
  /\ cpc[c] = "terminate" => \A d \in Alive \ todo[c] : Excused(c, d)
  /\ Cleared(c) => \A d \in Alive : Excused(c, d)
GoneInv ==
  /\ Single
  /\ \A c \in Cmds :
       /\ cpc[c] \in {"idle", "export", "fetch"} => attempt[c] = 0
       /\ Active(c) /\ Terminates(c) => Gone(c)

(* Calls of processes and RunPod make alive only what is excused.          *)
WorldKeeps(c) ==
  /\ \A d \in Pods : Excused(c, d) => Excused(c, d)'
  /\ \A d \in Alive' : d \in Alive \/ Excused(c, d)'

LEMMA CallKeepsWorld ==
  ASSUME LInv, NEW c \in Cmds, NEW p \in Relaunches(c), Call(p) \/ SetStop(p) \/ Ends(p),
         kind' = kind
  PROVE  WorldKeeps(c)
<1> USE Commands DEF LInv, IndInv, TypeOK, OwnerKnown, WorldKeeps, Excused, Alive
<1>0. p \in Procs /\ Relaunches(c)' = Relaunches(c)
  BY DEF Relaunches
<1>1. ASSUME NEW d \in Pods, LaunchOk(p, d) PROVE WorldKeeps(c)
  <2>1. pod[d] = "none" /\ back' = back
    BY <1>1, NewIdFresh DEF LaunchOk
  <2> QED
    BY <1>0, <1>1, <2>1 DEF LaunchOk
<1>2. ASSUME NEW d \in Pods, LaunchLost(p, d) \/ EndMidDeploy(p, d) PROVE WorldKeeps(c)
  <2>1. pod[d] = "none" /\ back' = back
    BY <1>2, NewIdFresh DEF LaunchLost, EndMidDeploy
  <2> QED
    BY <1>0, <1>2, <2>1 DEF LaunchLost, EndMidDeploy
<1>3. CASE UNCHANGED world
  BY <1>0, <1>3 DEF world
<1>4. UNCHANGED world \/ \E d \in Pods : LaunchOk(p, d) \/ LaunchLost(p, d) \/ EndMidDeploy(p, d)
  BY DEF Call, ResolveGpu, ResolveGpuFails, Touch, ListPods, ListFails, NoCapacity,
     LaunchRefused, Record, NextPass, SetStop, Ends, EndThread, world
<1> QED
  BY <1>1, <1>2, <1>3, <1>4

LEMMA RunPodKeepsWorld ==
  ASSUME LInv, NEW c \in Cmds, RunPodStep, kind' = kind
  PROVE  WorldKeeps(c)
<1> USE DEF LInv, IndInv, TypeOK, OwnerKnown, WorldKeeps, Excused, Alive
<1>0. Relaunches(c)' = Relaunches(c) /\ Relaunches(c) \subseteq Procs
  BY Commands DEF Relaunches
<1>1. ASSUME NEW d \in Pods, PodOff(d) \/ PodGone(d) PROVE WorldKeeps(c)
  BY <1>0, <1>1 DEF PodOff, PodGone
<1>2. ASSUME NEW d \in Pods, PodBack(d) PROVE WorldKeeps(c)
  <2>1. owner[d] \in Procs /\ back[owner[d]] \in Nat
    BY <1>2 DEF PodBack
  <2>2. back'[owner[d]] > 0 /\ owner' = owner /\ \A q \in Procs : back[q] > 0 => back'[q] > 0
    BY <1>2, <2>1 DEF PodBack
  <2>3. \A e \in Pods : pod'[e] = "alive" => pod[e] = "alive" \/ e = d
    BY <1>2 DEF PodBack
  <2>4. ASSUME NEW e \in Pods, Excused(c, e) PROVE Excused(c, e)'
    <3>1. CASE owner[e] \in Procs
      BY <1>0, <2>2, <2>4, <3>1
    <3>2. CASE owner[e] \notin Procs
      BY <1>0, <1>2, <2>1, <2>4, <3>2 DEF PodBack
    <3> QED
      BY <3>1, <3>2
  <2> QED
    BY <2>2, <2>3, <2>4
<1> QED
  BY <1>1, <1>2 DEF RunPodStep

LEMMA ListsAlone ==
  ASSUME TypeOK, NEW p \in Procs, Call(p) \/ SetStop(p) \/ Ends(p), NEW q \in Procs, q # p
  PROVE  attempt'[q] = attempt[q] /\ blind'[q] = blind[q]
<1> USE DEF TypeOK
<1>1. CASE ListPods(p)
  <2>1. /\ attempt' = attempt \/ attempt' = [attempt EXCEPT ![p] = @ + 1]
        /\ \E b : blind' = [blind EXCEPT ![p] = b]
    BY <1>1 DEF ListPods, Glimpse
  <2> QED
    BY <2>1
<1>2. CASE Touch(p)
  BY <1>2 DEF Touch
<1>3. ASSUME ~ ListPods(p), ~ Touch(p) PROVE attempt' = attempt /\ blind' = blind
  BY <1>3 DEF Call, ResolveGpu, ResolveGpuFails, ListFails, LaunchOk, LaunchLost, NoCapacity,
     LaunchRefused, Record, NextPass, SetStop, Ends, EndThread, EndMidDeploy, local
<1> QED
  BY <1>1, <1>2, <1>3

LEMMA SameExcuse ==
  ASSUME NEW c \in Cmds, kind' = kind, owner' = owner, back' = back
  PROVE  \A d : Excused(c, d)' <=> Excused(c, d)
BY DEF Excused, Relaunches

LEMMA GoneKept ==
  ASSUME LInv, NEW c \in Cmds, Gone(c), WorldKeeps(c), UNCHANGED cmdVars,
         cpc[c] = "list" => attempt'[c] = attempt[c] /\ blind'[c] = blind[c]
  PROVE  Gone(c)'
BY DEF Gone, Cleared, WorldKeeps, cmdVars, Alive

(* A train's own pass comes before what it terminates for good.            *)
InOwnPass(c) == kind[c] = "train" /\ cpc[c] = "pass"

(* Steps of processes and of RunPod, while at most one command is active.  *)
LEMMA GoneQuiet ==
  ASSUME LInv, GoneInv, UNCHANGED cmdVars, NoRevival,
         \A c \in Cmds : Active(c) => InOwnPass(c) \/ WorldKeeps(c),
         \A c \in Cmds : kind[c] # "train" \/ cpc[c] = "pass" \/ pc'[c] = pc[c],
         \A c \in Cmds : cpc[c] \in {"idle", "list", "export", "fetch"} =>
            attempt'[c] = attempt[c] /\ blind'[c] = blind[c]
  PROVE  \A c \in Cmds : /\ cpc'[c] \in {"idle", "export", "fetch"} => attempt'[c] = 0
                         /\ Active(c)' /\ Terminates(c)' => Gone(c)'
<1>1. \A o \in Cmds : Active(o)' => Active(o)
  BY SingleKept DEF GoneInv, cmdVars
<1>2. ASSUME NEW c \in Cmds, Active(c)', Terminates(c)' PROVE Gone(c)'
  <2>1. CASE InOwnPass(c)
    BY <2>1 DEF InOwnPass, Gone, Cleared, cmdVars
  <2>2. CASE ~ InOwnPass(c)
    <3>1. Terminates(c)
      BY <1>2, <2>2 DEF Terminates, InOwnPass, cmdVars
    <3> QED
      BY <1>1, <1>2, <2>2, <3>1, GoneKept DEF GoneInv
  <2> QED
    BY <2>1, <2>2
<1> QED
  BY <1>2 DEF GoneInv, cmdVars

(* The last answer of a listing, false or true, lets no old pod slip by.   *)
LEMMA GoneListing ==
  ASSUME LInv, NEW c \in Cmds, Gone(c), ListToTerminate(c)
  PROVE  Gone(c)'
<1> USE Commands DEF LInv, IndInv, TypeOK, CmdTypes, Goto, At
<1>1. PICK seen \in Answers(c) :
        /\ Glimpse(c, seen)
        /\ IF Refetch(c, seen)
           THEN attempt' = [attempt EXCEPT ![c] = @ + 1] /\ UNCHANGED <<cpc, todo>>
           ELSE /\ todo' = [todo EXCEPT ![c] = seen]
                /\ Goto(c, "terminate")
                /\ UNCHANGED attempt
  BY DEF ListToTerminate
<1>2. /\ cpc[c] = "list" /\ Alive' = Alive
      /\ \A d : Excused(c, d)' <=> Excused(c, d)
      /\ attempt[c] \in Nat /\ blind[c] \in Nat
  BY ReconcilerAssumption, SameExcuse DEF ListToTerminate, Alive, world
<1>5. ~ Cleared(c)'
  BY <1>1, <1>2 DEF ListToTerminate, Cleared
<1>3. CASE Refetch(c, seen)
  <2>1. cpc'[c] = "list" /\ attempt'[c] = attempt[c] + 1
    BY <1>1, <1>2, <1>3
  <2>2. CASE seen = Listed
    <3>1. Alive = {}
      BY <1>3, <2>2 DEF Refetch, Listed, Alive
    <3> QED
      BY <1>2, <2>1, <3>1, <1>5 DEF Gone
  <2>3. CASE seen # Listed
    <3>1. blind'[c] = blind[c] + 1
      BY <1>1, <2>3 DEF Glimpse
    <3> QED
      BY <1>2, <2>1, <3>1, <1>5 DEF Gone
  <2> QED
    BY <2>2, <2>3
<1>4. CASE ~ Refetch(c, seen)
  <2>1. cpc'[c] = "terminate" /\ todo'[c] = seen
    BY <1>1, <1>4
  <2>2. CASE seen = Listed
    <3>1. Alive \subseteq seen
      BY <2>2 DEF Listed, Alive
    <3> QED
      BY <1>2, <2>1, <3>1, <1>5 DEF Gone
  <2>3. CASE seen = {} /\ blind[c] < MaxGlitch
    <3>1. attempt[c] = EmptyRetries
      BY <1>4, <2>3, ReconcilerAssumption DEF Refetch
    <3>2. blind[c] < attempt[c]
      BY <1>2, <2>3, <3>1, GlitchAssumption, ReconcilerAssumption
    <3> QED
      BY <1>2, <2>1, <3>2, <1>5 DEF Gone
  <2> QED
    BY <2>2, <2>3 DEF Answers
<1> QED
  BY <1>3, <1>4

LEMMA GoneActs ==
  ASSUME LInv, NEW c \in Cmds, Terminates(c) => Gone(c), Acts(c)
  PROVE  /\ Terminates(c)' => Gone(c)'
         /\ cpc'[c] \notin {"idle", "export", "fetch"}
         /\ \A o \in Cmds : o # c => attempt'[o] = attempt[o]
<1> USE Commands DEF LInv, IndInv, TypeOK, CmdTypes, At, Goto
<1>0. kind' = kind
  BY ActsFacts
<1>1. CASE ListToTerminate(c)
  <2>1. \A o \in Cmds : o # c => attempt'[o] = attempt[o]
    BY <1>1 DEF ListToTerminate
  <2>2. cpc'[c] \notin {"idle", "export", "fetch"}
    BY <1>1 DEF ListToTerminate
  <2> QED
    BY <1>0, <1>1, <2>1, <2>2, GoneListing DEF Terminates, ListToTerminate
<1>2. ASSUME NEW d \in Pods, Terminate(c, d)
      PROVE  (Terminates(c)' => Gone(c)') /\ cpc'[c] \notin {"idle", "export", "fetch"} /\ attempt' = attempt
  <2>1. Alive' = Alive \ {d} /\ todo'[c] = todo[c] \ {d} /\ cpc' = cpc /\ cpc[c] = "terminate"
    BY <1>2 DEF Terminate, Alive
  <2>2. owner' = owner /\ back' = back /\ attempt' = attempt
    BY <1>2 DEF Terminate, local
  <2>3. Terminates(c)' => Terminates(c)
    BY <1>0, <1>2 DEF Terminate, Terminates
  <2>4. ~ Cleared(c)'
    BY <2>1 DEF Cleared
  <2> QED
    BY <1>0, <2>1, <2>2, <2>3, <2>4, SameExcuse DEF Gone
<1>3. ASSUME ~ ListToTerminate(c), ~ SigKill(c), \A d \in Pods : ~ Terminate(c, d)
      PROVE  (Terminates(c)' => Gone(c)') /\ cpc'[c] \notin {"idle", "export", "fetch"} /\ attempt' = attempt
  <2>1. UNCHANGED <<world, local>> \/ (UNCHANGED world /\ attempt' = attempt)
    BY <1>3 DEF Acts, StoreStep, TerminateFails, DeleteCluster, DeleteDaemonRow, Register,
       SavePrefs, StoreFails, PortBusy, BeginPass, CheckRow, ForegroundPrefs, SigTerm, Spawn, Start,
       AllTerminated, NoDaemonRow, DaemonGone, AlreadyRunning, PassEnds, Poll, vars, world, local
  <2>2. Alive' = Alive /\ owner' = owner /\ back' = back /\ attempt' = attempt
    BY <2>1 DEF world, local, Alive
  <2>3. cpc'[c] \notin {"idle", "list", "terminate", "export", "fetch"}
    BY <1>3 DEF Acts, StoreStep, TerminateFails, DeleteCluster, AfterDelete, DeleteDaemonRow, AfterStop,
       Register, SavePrefs, StoreFails, PortBusy, BeginPass, CheckRow, ForegroundPrefs, SigTerm, Spawn,
       AllTerminated, NoDaemonRow, DaemonGone, AlreadyRunning, PassEnds, Poll, Ended
  <2>4. CASE kind[c] = "train"
    <3>1. \/ cpc'[c] \notin {"daemon", "kill", "unrow", "delete"}
          \/ pc'[c] = pc[c] /\ cpc[c] \in {"daemon", "kill", "unrow", "delete"}
          \/ pc'[c] = pc[c] /\ cpc[c] = "terminate" /\ todo[c] = {}
      BY <1>3, <2>4 DEF Acts, StoreStep, TerminateFails, DeleteCluster, AfterDelete,
         DeleteDaemonRow, AfterStop, Register, SavePrefs, StoreFails, PortBusy, BeginPass, CheckRow,
         ForegroundPrefs, SigTerm, Spawn, AllTerminated, NoDaemonRow, DaemonGone, AlreadyRunning,
         PassEnds, Poll, vars
    <3> QED
      BY <1>0, <2>2, <2>3, <2>4, <3>1, SameExcuse DEF Terminates, Gone, Cleared
  <2>5. CASE kind[c] # "train"
    <3>1. \/ cpc'[c] \in Ended
          \/ cpc[c] \notin {"idle", "list", "terminate"} \cup Ended
          \/ cpc[c] = "terminate" /\ todo[c] = {}
      BY <1>3 DEF Acts, StoreStep, TerminateFails, DeleteCluster, AfterDelete, DeleteDaemonRow, AfterStop,
         Register, SavePrefs, StoreFails, PortBusy, BeginPass, CheckRow, ForegroundPrefs, SigTerm, Spawn,
         AllTerminated, NoDaemonRow, DaemonGone, AlreadyRunning, PassEnds, Poll, Ended
    <3> QED
      BY <1>0, <2>2, <2>3, <2>5, <3>1, SameExcuse DEF Terminates, Gone, Cleared
  <2> QED
    BY <2>2, <2>3, <2>4, <2>5
<1>4. CASE SigKill(c)
  <2>1. Ends(child[c]) /\ child[c] \in Loops /\ cpc[c] = "kill" /\ cpc'[c] = "unrow"
    BY <1>4 DEF SigKill, InPass
  <2>2. WorldKeeps(c)
    BY <1>0, <2>1, CallKeepsWorld DEF Relaunches
  <2>3. pc'[c] = pc[c] /\ attempt' = attempt
    BY <2>1, MovesItself DEF Ends, EndThread, EndMidDeploy
  <2>4. (Terminates(c)' => Terminates(c)) /\ Cleared(c)
    BY <1>0, <2>1, <2>3 DEF Terminates, Cleared, Ended
  <2> QED
    BY <2>1, <2>2, <2>3, <2>4 DEF Gone, WorldKeeps, Alive
<1> QED
  BY <1>1, <1>2, <1>3, <1>4

LEMMA GoneInvStep ==
  ASSUME Sequential, LInv, GoneInv, [LNext]_allVars
  PROVE  GoneInv'
<1> USE Commands
<1>0. Single' /\ LInv'
  BY SingleStep, LInvStep DEF GoneInv
<1> SUFFICES \A c \in Cmds : /\ cpc'[c] \in {"idle", "export", "fetch"} => attempt'[c] = 0
                             /\ Active(c)' /\ Terminates(c)' => Gone(c)'
  BY <1>0 DEF GoneInv
<1>1. ASSUME NEW c \in Cmds, NEW k \in Kinds, NEW h \in Loops \cup {None}, Invoke(c, k, h),
             NEW o \in Cmds
      PROVE  /\ cpc'[o] \in {"idle", "export", "fetch"} => attempt'[o] = 0
             /\ Active(o)' /\ Terminates(o)' => Gone(o)'
  <2>1. /\ cpc[c] = "idle" /\ attempt' = attempt /\ attempt[c] = 0 /\ blind'[c] \in Nat
        /\ cpc' = [cpc EXCEPT ![c] = First(k)] /\ kind' = [kind EXCEPT ![c] = k]
    BY <1>1, ReconcilerAssumption DEF Invoke, NewCmd, Goto, GoneInv, vars, LInv, IndInv, TypeOK
  <2>2. o # c => ~ Active(o)'
    BY <1>1 DEF Invoke, Active, Lives, PidAlive, Goto, LInv, CmdTypes, vars
  <2>3. cpc'[c] \notin {"idle", "export", "fetch"}
    BY <2>1 DEF First, LInv, CmdTypes
  <2>4. Terminates(c)' => cpc'[c] \in {"list", "train"} /\ (cpc'[c] = "train" => kind'[c] = "train")
    BY <2>1 DEF Terminates, First, LInv, CmdTypes
  <2>5. Terminates(c)' => Gone(c)'
    <3>1. attempt'[c] = 0
      BY <2>1
    <3> QED
      BY <2>1, <2>4, <3>1 DEF Gone, Cleared, Ended
  <2> QED
    BY <2>1, <2>2, <2>3, <2>5 DEF GoneInv, LInv, CmdTypes
<1>2. ASSUME NEW c \in Cmds, Acts(c), NEW o \in Cmds
      PROVE  /\ cpc'[o] \in {"idle", "export", "fetch"} => attempt'[o] = 0
             /\ Active(o)' /\ Terminates(o)' => Gone(o)'
  <2>1. Active(c) /\ (o # c => cpc'[o] = cpc[o])
    BY <1>2, ActsFacts
  <2>2. o # c => ~ Active(o)'
    BY <1>2, <2>1, ActsFacts, ActsRevive, SingleKept DEF GoneInv, Single, Active
  <2> QED
    BY <1>2, <2>1, <2>2, GoneActs DEF GoneInv
<1>3. ASSUME NEW c \in Cmds, PassCall(c), NEW o \in Cmds
      PROVE  /\ cpc'[o] \in {"idle", "export", "fetch"} => attempt'[o] = 0
             /\ Active(o)' /\ Terminates(o)' => Gone(o)'
  <2>1. cpc[c] = "pass" /\ Active(c) /\ Call(c) /\ UNCHANGED cmdVars
    BY <1>3 DEF PassCall, At, Active, Ended
  <2>2. \A q \in Cmds : Active(q) => InOwnPass(q) \/ WorldKeeps(q)
    BY <2>1, CallKeepsWorld DEF GoneInv, Single, InOwnPass, Relaunches, cmdVars
  <2>5. \A q \in Cmds : cpc[q] = "pass" \/ pc'[q] = pc[q]
    BY <2>1, MovesItself DEF LInv, IndInv
  <2>3. \A q \in Cmds : q # c => attempt'[q] = attempt[q] /\ blind'[q] = blind[q]
    BY <2>1, ListsAlone DEF LInv, IndInv
  <2>4. NoRevival
    BY <2>1, CallsRevive DEF NoRevival, LInv, IndInv
  <2> QED
    BY <2>1, <2>2, <2>3, <2>4, <2>5, GoneQuiet
<1>4. ASSUME UNCHANGED cmdVars, NEW p \in Loops, Call(p) \/ SetStop(p) \/ Ends(p), NEW o \in Cmds
      PROVE  /\ cpc'[o] \in {"idle", "export", "fetch"} => attempt'[o] = 0
             /\ Active(o)' /\ Terminates(o)' => Gone(o)'
  <2>1. \A q \in Cmds : attempt'[q] = attempt[q] /\ blind'[q] = blind[q]
    BY <1>4, ListsAlone DEF LInv, IndInv
  <2>2. NoRevival
    BY <1>4, CallsRevive DEF NoRevival, LInv, IndInv
  <2>3. \A q \in Cmds : pc'[q] = pc[q] /\ WorldKeeps(q)
    BY <1>4, MovesItself, CallKeepsWorld DEF LInv, IndInv, Relaunches, cmdVars
  <2> QED
    BY <1>4, <2>1, <2>2, <2>3, GoneQuiet
<1>5. ASSUME UNCHANGED cmdVars, RunPodStep \/ UNCHANGED vars, NEW o \in Cmds
      PROVE  /\ cpc'[o] \in {"idle", "export", "fetch"} => attempt'[o] = 0
             /\ Active(o)' /\ Terminates(o)' => Gone(o)'
  <2>1. attempt' = attempt /\ blind' = blind /\ pc' = pc /\ NoRevival
    BY <1>5 DEF RunPodStep, PodOff, PodGone, PodBack, vars, local, NoRevival, PidAlive
  <2>2. \A q \in Cmds : WorldKeeps(q)
    BY <1>5, RunPodKeepsWorld DEF vars, WorldKeeps, Excused, Relaunches, Alive, cmdVars
  <2> QED
    BY <1>5, <2>1, <2>2, GoneQuiet
<1> QED
  BY <1>1, <1>2, <1>3, <1>4, <1>5, SequentialActions

LEMMA OldPodsGoneStep ==
  ASSUME LInv, GoneInv, LNext,
         NEW c \in Cmds, NEW k \in {"stop", "remove", "refresh"}, Completes(c, k),
         NEW d \in Alive'
  PROVE  owner[d] \in Loops \cup {c} \/ back[owner[d]] > 0
<1> USE Commands DEF Completes, LInv, CmdTypes, Goto
<1>1. Acts(c)
  BY CompleterActs
<1>2. /\ cpc[c] \notin {"idle", "list", "terminate"} \cup Ended
      /\ Alive' = Alive
  BY <1>1 DEF Acts, StoreStep, TerminateFails, DeleteCluster, AfterDelete, DeleteDaemonRow, AfterStop,
     Register, SavePrefs, StoreFails, PortBusy, BeginPass, CheckRow, ForegroundPrefs, SigTerm, Spawn, SigKill,
     AllTerminated, NoDaemonRow, DaemonGone, AlreadyRunning, PassEnds, Poll, Ended, At,
     ListToTerminate, Terminate, Cleaning, Alive, vars, world
<1>3. Active(c) /\ Terminates(c)
  BY <1>1, ActsFacts DEF Terminates
<1>4. kind[c] = k /\ Cleared(c)
  BY <1>2 DEF Cleared
<1> QED
  BY <1>2, <1>3, <1>4 DEF GoneInv, Gone, Excused, Relaunches

LEMMA GoneInit ==
  ASSUME LInit
  PROVE  GoneInv
<1>1. \A c \in Cmds : ~ Active(c) /\ host[c] = None /\ attempt[c] = 0
  BY Commands DEF LInit, Init, Active
<1> QED
  BY <1>1 DEF GoneInv, Single

(* A stop, remove or refresh that completes, given when no other command   *)
(* runs, has ended every pod of the commands before it, however RunPod's   *)
(* listings and calls failed.                                              *)
THEOREM OldPodsEnd ==
  ASSUME Sequential
  PROVE  LSpec => OldPodsGone
<1>1. LInit => GoneInv
  BY GoneInit
<1>2. LInv /\ GoneInv /\ [LNext]_allVars => GoneInv'
  BY GoneInvStep
<1>3. LInv /\ GoneInv /\ [LNext]_allVars =>
        [\A c \in Cmds, k \in {"stop", "remove", "refresh"} : Completes(c, k) =>
           \A d \in Alive' : owner[d] \in Loops \cup {c} \/ back[owner[d]] > 0]_allVars
  BY OldPodsGoneStep
<1> QED
  BY <1>1, <1>2, <1>3, LifecycleInduction, PTL DEF LSpec, OldPodsGone

-----------------------------------------------------------------------------
(* No surplus pods build up.                                               *)

(* A process that counts or launches.                                      *)
Works(p) == pc[p] \in {"list", "deploy", "record"}
SomeLeft == \E c \in Cmds : LeftBehind(c)

(* Whoever counts and launches does so alone: of the daemons only the      *)
(* registered one lives, and a command that makes a pass has seen to it    *)
(* that none is registered.                                                *)
LEMMA OneWorks ==
  ASSUME Orderly, "train" \notin Kinds, LInv, StrayInv, Places, ~ SomeLeft,
         NEW p \in Procs, NEW q \in Procs, Works(p), Works(q)
  PROVE  p = q
<1> USE Commands DEF LInv, CmdTypes, StrayInv
<1>1. ASSUME NEW c \in Cmds, Works(c)
      PROVE  Active(c) /\ cpc[c] = "pass" /\ db.daemon = None
  <2>1. cpc[c] = "pass" /\ kind[c] \in Kinds
    BY <1>1 DEF InPass, Works, Stages
  <2>2. Active(c)
    BY <2>1 DEF Places, Stopping, Active, Lives, Ended
  <2> QED
    BY <2>1, <2>2 DEF Stages
<1>2. ASSUME NEW l \in Loops, Works(l), db.daemon # l
      PROVE  \E c \in Cmds : /\ child[c] = l /\ cpc[c] \in {"poll", "register"}
                              /\ Active(c) /\ db.daemon = None
  <2>1. None \notin Loops
    BY ReconcilerAssumption
  <2>2. PICK c \in Cmds : child[c] = l /\ cpc[c] \in {"poll", "register", "error"}
    BY <1>2 DEF NoStrayDaemon, Stray, PidAlive, Works
  <2>3. cpc[c] \in {"poll", "register"} /\ kind[c] \in Kinds
    BY <2>1, <2>2 DEF SomeLeft, LeftBehind, Stages
  <2>4. Active(c)
    BY <2>3 DEF Places, Stopping, Active, Lives, Ended
  <2>5. db.daemon = None
    BY <2>3, <2>4 DEF Stages
  <2> QED
    BY <2>2, <2>3, <2>4, <2>5
<1>3. ASSUME NEW c \in Cmds, NEW l \in Loops, Works(c), Works(l) PROVE FALSE
  <2>1. Active(c) /\ cpc[c] = "pass" /\ db.daemon = None /\ None \notin Loops
    BY <1>1, <1>3, ReconcilerAssumption
  <2>2. PICK o \in Cmds : Active(o) /\ cpc[o] \in {"poll", "register"}
    BY <1>2, <1>3, <2>1
  <2> QED
    BY <2>1, <2>2 DEF Single
<1>4. CASE p \in Cmds /\ q \in Cmds
  BY <1>1, <1>4 DEF Single
<1>5. CASE p \in Loops /\ q \in Loops
  <2>1. CASE db.daemon = p /\ db.daemon = q
    BY <2>1
  <2>2. CASE db.daemon # p \/ db.daemon # q
    <3>1. db.daemon # p /\ db.daemon # q
      BY <1>2, <1>5, <2>2, ReconcilerAssumption
    <3> QED
      BY <1>2, <1>5, <3>1 DEF Single
  <2> QED
    BY <2>1, <2>2
<1> QED
  BY <1>3, <1>4, <1>5 DEF Procs, Cmds

(* What is alive and what is owed fits, and a listing that is blind on its *)
(* last attempt overlooks only what came into view since it was truly empty*)
Fits(p) == Cardinality(Alive) + left[p] <= NumNodes + Cardinality(Comebacks)
SeesEnough(p) == pc[p] = "list" /\ blind[p] < attempt[p] =>
                   Cardinality(Alive) <= Cardinality(Comebacks)
Room ==
  /\ IsFiniteSet(Comebacks)
  /\ SomeLeft \/ \A p \in Procs : Fits(p) /\ SeesEnough(p)

LEMMA AliveCard == IsFiniteSet(Alive) /\ Cardinality(Alive) \in Nat
BY PodsFinite DEF Alive

LEMMA AliveCardNext == IsFiniteSet(Alive') /\ Cardinality(Alive') \in Nat
<1>1. Alive' \in SUBSET Pods
  BY DEF Alive
<1> QED
  BY <1>1, PodsFinite

(* A step that launches nothing, decides nothing and brings back as many   *)
(* pods as it counts.                                                      *)
LEMMA RoomKept ==
  ASSUME LInv, LInv', Room, SomeLeft => SomeLeft', IsFiniteSet(Comebacks'),
         Cardinality(Alive') + Cardinality(Comebacks)
           <= Cardinality(Alive) + Cardinality(Comebacks'),
         \A p \in Procs : left'[p] <= left[p],
         \A p \in Procs : pc'[p] = "list" /\ blind'[p] < attempt'[p] =>
            pc[p] = "list" /\ blind[p] < attempt[p]
  PROVE  Room'
<1>1. /\ Cardinality(Alive) \in Nat /\ Cardinality(Alive') \in Nat
      /\ Cardinality(Comebacks) \in Nat /\ Cardinality(Comebacks') \in Nat /\ NumNodes \in Nat
  BY AliveCard, AliveCardNext, FS_CardinalityType, ReconcilerAssumption DEF Room
<1>2. ASSUME NEW p \in Procs, Fits(p), SeesEnough(p) PROVE Fits(p)' /\ SeesEnough(p)'
  <2>1. left[p] \in Nat /\ left'[p] \in Nat
    BY ReconcilerAssumption DEF LInv, IndInv, TypeOK
  <2> QED
    BY <1>1, <1>2, <2>1 DEF Fits, SeesEnough
<1> QED
  BY <1>2 DEF Room

(* The same where the pods that are alive are so before the step.          *)
LEMMA RoomShrinks ==
  ASSUME LInv, LInv', Room, SomeLeft => SomeLeft', back' = back, Alive' \subseteq Alive,
         \A p \in Procs : left'[p] <= left[p],
         \A p \in Procs : pc'[p] = "list" /\ blind'[p] < attempt'[p] =>
            pc[p] = "list" /\ blind[p] < attempt[p]
  PROVE  Room'
<1>1. Cardinality(Alive') <= Cardinality(Alive)
  BY AliveCard, FS_Subset
<1>2. Comebacks' = Comebacks
  BY DEF Comebacks
<1>3. Cardinality(Comebacks) \in Nat /\ Cardinality(Alive) \in Nat /\ Cardinality(Alive') \in Nat
  BY AliveCard, AliveCardNext, FS_CardinalityType DEF Room
<1> QED
  BY <1>1, <1>2, <1>3, RoomKept DEF Room

(* A daemon that was left behind stays that.                               *)
LEMMA LeftStays ==
  ASSUME LInv, [LNext]_allVars, SomeLeft
  PROVE  SomeLeft'
<1> USE DEF SomeLeft, LeftBehind
<1>1. PICK c \in Cmds : cpc[c] = "error" /\ child[c] # None
  OBVIOUS
<1>2. ASSUME NEW o \in Cmds, NEW k \in Kinds, NEW h \in Loops \cup {None}, Invoke(o, k, h)
      PROVE  SomeLeft'
  BY <1>1, <1>2 DEF Invoke, NewCmd, Goto, LInv, CmdTypes
<1>3. ASSUME NEW o \in Cmds, Acts(o) PROVE SomeLeft'
  BY <1>1, <1>3, ActsFacts DEF Active, Ended
<1>4. CASE UNCHANGED cmdVars
  BY <1>1, <1>4 DEF cmdVars
<1> QED
  BY <1>2, <1>3, <1>4, SequentialActions

(* Commands launch nothing outside their pass.                             *)
LEMMA ActsLeaveRoom ==
  ASSUME LInv, LInv', Room, SomeLeft => SomeLeft', NEW c \in Cmds, Acts(c)
  PROVE  Room'
<1> USE Commands DEF LInv, IndInv, TypeOK, CmdTypes
<1>0. \A p \in Procs : left[p] \in Nat
  BY ReconcilerAssumption
<1>1. ASSUME NEW d \in Pods, Terminate(c, d) PROVE Room'
  <2>1. Alive' \subseteq Alive /\ back' = back /\ UNCHANGED <<local, pc>>
    BY <1>1 DEF Terminate, Alive
  <2> QED
    BY <1>0, <2>1, RoomShrinks DEF local
<1>2. CASE ListToTerminate(c)
  <2>1. /\ UNCHANGED <<pod, back, left, pc>> /\ pc[c] # "list"
        /\ \A q \in Procs : q # c => blind'[q] = blind[q] /\ attempt'[q] = attempt[q]
    BY <1>2 DEF ListToTerminate, Glimpse, At, InPass, world
  <2>2. \A q \in Procs : left'[q] <= left[q]
    BY <1>0, <2>1
  <2>3. \A q \in Procs : pc'[q] = "list" /\ blind'[q] < attempt'[q] =>
           pc[q] = "list" /\ blind[q] < attempt[q]
    <3>1. TAKE q \in Procs
    <3>2. CASE q = c
      BY <2>1, <3>2
    <3>3. CASE q # c
      BY <2>1, <3>3
    <3> QED
      BY <3>2, <3>3
  <2>4. back' = back /\ Alive' \subseteq Alive
    BY <2>1 DEF Alive
  <2> HIDE DEF LInv, IndInv, TypeOK, CmdTypes
  <2> QED
    BY <2>2, <2>3, <2>4, RoomShrinks
<1>3. CASE SigKill(c)
  <2>1. /\ UNCHANGED <<back, attempt, blind>>
        /\ left' = [left EXCEPT ![child[c]] = 0] /\ pc' = [pc EXCEPT ![child[c]] = "done"]
        /\ pod' = pod \/ \E d \in Pods : pod' = [pod EXCEPT ![d] = "pending"]
    BY <1>3 DEF SigKill, Ends, EndThread, EndMidDeploy, world
  <2>2. Alive' \subseteq Alive
    BY <2>1 DEF Alive
  <2> QED
    BY <1>0, <2>1, <2>2, RoomShrinks
<1>4. ASSUME NEW p \in Loops, Spawn(c, p) PROVE Room'
  <2>1. /\ UNCHANGED <<pod, back, left, attempt, blind>> /\ pc' = [pc EXCEPT ![p] = "resolve"]
    BY <1>4 DEF Spawn, Start, world, local
  <2> QED
    BY <1>0, <2>1, RoomShrinks DEF Alive
<1>5. CASE BeginPass(c)
  <2>1. /\ UNCHANGED <<pod, back, left, attempt, blind>>
        /\ pc' = pc \/ pc' = [pc EXCEPT ![c] = "resolve"]
    BY <1>5 DEF BeginPass, CheckRow, ForegroundPrefs, world, local
  <2> QED
    BY <1>0, <2>1, RoomShrinks DEF Alive
<1>6. ASSUME UNCHANGED <<pod, back, left, attempt, blind, pc>> PROVE Room'
  BY <1>0, <1>6, RoomShrinks DEF Alive
<1>7. CASE \/ AllTerminated(c) \/ NoDaemonRow(c) \/ DaemonGone(c)
           \/ AlreadyRunning(c) \/ PassEnds(c) \/ Poll(c) \/ StoreStep(c) \/ SigTerm(c)
  BY <1>6, <1>7 DEF AllTerminated, NoDaemonRow, DaemonGone, AlreadyRunning, PassEnds, Poll,
     StoreStep, TerminateFails, DeleteCluster, DeleteDaemonRow, Register, SavePrefs, StoreFails, PortBusy,
     SigTerm, vars, world, local
<1> QED
  BY <1>1, <1>2, <1>3, <1>4, <1>5, <1>7 DEF Acts

(* The decision of a pass that counts alone fills the cluster up, and no   *)
(* more: it sees all that is alive, or what it overlooks is excused.       *)
LEMMA DecideLeavesRoom ==
  ASSUME LInv, Room, ~ SomeLeft, NEW p \in Procs, ListPods(p),
         \A q \in Procs : q # p => ~ Works(q)
  PROVE  Room'
<1> DEFINE alive == Cardinality(Alive)
           late  == Cardinality(Comebacks)
<1>1. PICK seen \in Answers(p) :
        /\ Glimpse(p, seen)
        /\ IF Refetch(p, seen)
           THEN /\ attempt' = [attempt EXCEPT ![p] = @ + 1]
                /\ UNCHANGED <<pc, left, zone>>
           ELSE /\ Decide(p, Cardinality(seen \cap Alive))
                /\ UNCHANGED attempt
  BY DEF ListPods
<1>2. /\ Alive' = Alive /\ Comebacks' = Comebacks /\ pc[p] = "list"
  BY DEF ListPods, world, Alive, Comebacks
<1>3. alive \in Nat /\ late \in Nat /\ NumNodes \in Nat /\ NumNodes # 0
  BY AliveCard, FS_CardinalityType, ReconcilerAssumption DEF Room
<1>4. /\ attempt[p] \in Nat /\ blind[p] \in Nat /\ left[p] \in Nat
      /\ attempt[p] <= EmptyRetries /\ blind[p] <= MaxGlitch
      /\ EmptyRetries \in Nat /\ MaxGlitch \in Nat
  BY ReconcilerAssumption DEF LInv, IndInv, TypeOK
<1>5. /\ alive + left[p] <= NumNodes + late
      /\ blind[p] < attempt[p] => alive <= late
  BY <1>2 DEF Room, Fits, SeesEnough
<1>6. ASSUME NEW q \in Procs, q # p PROVE Fits(q)' /\ SeesEnough(q)'
  <2>1. pc'[q] = pc[q] /\ left'[q] = left[q] /\ pc[q] # "list"
    BY <1>1, <1>6 DEF Decide, Works, LInv, IndInv, TypeOK
  <2> QED
    BY <1>2, <1>6, <2>1 DEF Room, Fits, SeesEnough
<1>7. /\ alive + left'[p] <= NumNodes + late => Fits(p)'
      /\ (pc'[p] = "list" /\ blind'[p] < attempt'[p] => alive <= late) => SeesEnough(p)'
  BY <1>2 DEF Fits, SeesEnough
<1> SUFFICES /\ alive + left'[p] <= NumNodes + late
             /\ pc'[p] = "list" /\ blind'[p] < attempt'[p] => alive <= late
  BY <1>2, <1>6, <1>7 DEF Room
<1> HIDE DEF late
<1>8. CASE Refetch(p, seen)
  <2>1. left'[p] = left[p] /\ attempt'[p] = attempt[p] + 1
    BY <1>1, <1>8 DEF LInv, IndInv, TypeOK
  <2>2. CASE seen = Listed
    <3>1. alive = 0
      BY <1>8, <2>2, NoneListed DEF Refetch
    <3> QED
      BY <1>3, <1>5, <2>1, <3>1
  <2>3. CASE seen # Listed
    <3>1. blind'[p] = blind[p] + 1
      BY <1>1, <2>3 DEF Glimpse, LInv, IndInv, TypeOK
    <3>2. blind'[p] < attempt'[p] => blind[p] < attempt[p]
      BY <1>4, <2>1, <3>1
    <3> QED
      BY <1>5, <2>1, <3>2
  <2> QED
    BY <2>2, <2>3
<1>9. CASE ~ Refetch(p, seen)
  <2>1. Decide(p, Cardinality(seen \cap Alive))
    BY <1>1, <1>9
  <2>2. pc'[p] # "list"
    BY <2>1 DEF Decide, AfterPass, LInv, IndInv, TypeOK
  <2>3. CASE seen = Listed
    <3>1. seen \cap Alive = Alive
      BY <2>3 DEF Listed, Alive
    <3>0. Decide(p, alive)
      BY <2>1, <3>1
    <3>2. left'[p] = left[p] \/ left'[p] = NumNodes - alive
      <4> HIDE DEF alive
      <4> QED
        BY <3>0 DEF Decide, LInv, IndInv, TypeOK
    <3>3. CASE left'[p] = left[p]
      BY <1>5, <2>2, <3>3
    <3>4. CASE left'[p] = NumNodes - alive
      BY <1>3, <2>2, <3>4
    <3> QED
      BY <3>2, <3>3, <3>4
  <2>4. CASE seen = {} /\ blind[p] < MaxGlitch
    <3>1. attempt[p] = EmptyRetries
      BY <1>4, <1>9, <2>4 DEF Refetch
    <3>2. alive <= late
      BY <1>4, <1>5, <2>4, <3>1, GlitchAssumption
    <3>3. Cardinality(seen \cap Alive) = 0
      BY <2>4, FS_EmptySet
    <3>4. left'[p] = NumNodes
      BY <1>3, <2>1, <3>3 DEF Decide, LInv, IndInv, TypeOK
    <3> QED
      BY <1>3, <2>2, <3>2, <3>4
  <2> QED
    BY <2>3, <2>4 DEF Answers
<1> QED
  BY <1>8, <1>9

(* A launch turns what is owed into what is alive.                         *)
LEMMA LaunchLeavesRoom ==
  ASSUME LInv, LInv', Room, ~ SomeLeft, NEW p \in Procs, NEW d \in Pods, LaunchOk(p, d),
         \A q \in Procs : q # p => ~ Works(q)
  PROVE  Room'
<1> USE DEF LInv, IndInv, TypeOK
<1>1. /\ Comebacks' = Comebacks /\ pc[p] = "deploy" /\ left'[p] = left[p] - 1 /\ left[p] \in Nat
      /\ left[p] > 0 /\ pc'[p] = "record"
  BY ReconcilerAssumption DEF LaunchOk, Comebacks, OwesInPass
<1>2. Cardinality(Alive') = Cardinality(Alive) + 1
  <2>1. Alive' = Alive \cup {d} /\ d \notin Alive
    BY NewIdFresh DEF LaunchOk, Alive
  <2> QED
    BY <2>1, AliveCard, FS_AddElement
<1>3. Cardinality(Alive) \in Nat /\ Cardinality(Comebacks) \in Nat /\ NumNodes \in Nat
  BY AliveCard, FS_CardinalityType, ReconcilerAssumption DEF Room
<1>4. ASSUME NEW q \in Procs PROVE Fits(q)' /\ SeesEnough(q)'
  <2>1. CASE q = p
    BY <1>1, <1>2, <1>3, <2>1 DEF Room, Fits, SeesEnough
  <2>2. CASE q # p
    <3>1. pc'[q] = pc[q] /\ left'[q] = 0 /\ pc[q] # "list"
      BY <2>2 DEF LaunchOk, OwesInPass, Works
    <3>2. Fits(p)
      BY DEF Room
    <3> QED
      BY <1>1, <1>2, <1>3, <3>1, <3>2 DEF Fits, SeesEnough
  <2> QED
    BY <2>1, <2>2
<1> QED
  BY <1>1, <1>4 DEF Room

(* Every other call of a process launches nothing and counts nothing.      *)
LEMMA CallLeavesRoom ==
  ASSUME LInv, LInv', Room, SomeLeft => SomeLeft', NEW p \in Procs,
         Call(p) \/ SetStop(p) \/ Ends(p), ~ ListPods(p), \A d \in Pods : ~ LaunchOk(p, d)
  PROVE  Room'
<1> USE ReconcilerAssumption DEF LInv, IndInv, TypeOK
<1>1. ASSUME NEW d \in Pods, LaunchLost(p, d) \/ EndMidDeploy(p, d)
      PROVE  /\ Alive' \subseteq Alive /\ back' = back
             /\ left' = [left EXCEPT ![p] = 0] /\ UNCHANGED <<attempt, blind>>
             /\ \E w \in PC \ {"list"} : pc' = [pc EXCEPT ![p] = w]
  BY <1>1 DEF LaunchLost, EndMidDeploy, AfterError, Alive, PC
<1>2. CASE Touch(p)
  <2>1. /\ UNCHANGED <<pod, back, left>> /\ attempt'[p] = 0 /\ blind'[p] = 0
        /\ \A q \in Procs : q # p => /\ pc'[q] = pc[q]
                                       /\ attempt'[q] = attempt[q] /\ blind'[q] = blind[q]
    BY <1>2 DEF Touch, world
  <2> QED
    BY <2>1, RoomShrinks DEF Alive
<1>3. ASSUME ~ Touch(p), \A d \in Pods : ~ LaunchLost(p, d) /\ ~ EndMidDeploy(p, d)
      PROVE  /\ Alive' \subseteq Alive /\ back' = back
             /\ left' = left \/ left' = [left EXCEPT ![p] = 0]
             /\ UNCHANGED <<attempt, blind>>
             /\ pc' = pc \/ \E w \in PC \ {"list"} : pc' = [pc EXCEPT ![p] = w]
  <2>1. UNCHANGED <<pod, back, attempt, blind>> /\ (left' = left \/ left' = [left EXCEPT ![p] = 0])
    BY <1>3 DEF Call, ResolveGpu, ResolveGpuFails, ListFails, NoCapacity, LaunchRefused, Record,
       NextPass, SetStop, Ends, EndThread, world, local
  <2>2. pc' = pc \/ \E w \in PC \ {"list"} : pc' = [pc EXCEPT ![p] = w]
    BY <1>3 DEF Call, ResolveGpu, ResolveGpuFails, ListFails, NoCapacity, LaunchRefused, Record,
       NextPass, SetStop, Ends, EndThread, AfterPass, AfterError, PC
  <2> QED
    BY <2>1, <2>2 DEF Alive
<1>4. CASE ~ Touch(p)
  <2>1. /\ Alive' \subseteq Alive /\ back' = back
        /\ left' = left \/ left' = [left EXCEPT ![p] = 0]
        /\ UNCHANGED <<attempt, blind>>
        /\ pc' = pc \/ \E w \in PC \ {"list"} : pc' = [pc EXCEPT ![p] = w]
    BY <1>1, <1>3, <1>4
  <2>2. \A q \in Procs : left'[q] <= left[q]
    BY <2>1
  <2>3. \A q \in Procs : pc'[q] = "list" => pc[q] = "list"
    BY <2>1
  <2> QED
    BY <2>1, <2>2, <2>3, RoomShrinks
<1> QED
  BY <1>2, <1>4

(* RunPod brings a pod into view, and that counts as one.                  *)
LEMMA BackLeavesRoom ==
  ASSUME LInv, LInv', Room, SomeLeft => SomeLeft', NEW d \in Pods, PodBack(d)
  PROVE  Room'
<1> USE DEF LInv, IndInv, TypeOK
<1> DEFINE p == owner[d]
           b == back[p] + 1
<1>1. p \in Procs /\ back[p] \in Nat
  BY DEF PodBack, OwnerKnown
<1>2. Cardinality(Alive') = Cardinality(Alive) + 1
  <2>1. Alive' = Alive \cup {d} /\ d \notin Alive
    BY DEF PodBack, Alive
  <2> QED
    BY <2>1, AliveCard, FS_AddElement
<1>3. Comebacks' = Comebacks \cup {<<p, b>>} /\ <<p, b>> \notin Comebacks
  <2>1. 1 .. b = (1 .. back[p]) \cup {b} /\ b \notin 1 .. back[p]
    BY <1>1
  <2>2. back' = [back EXCEPT ![p] = b]
    BY DEF PodBack
  <2>3. back'[p] = b /\ \A q \in Procs : q # p => back'[q] = back[q]
    BY <1>1, <2>2
  <2> HIDE DEF p, b
  <2>4. \A q \in Procs : {q} \X (1 .. back'[q]) =
          ({q} \X (1 .. back[q])) \cup (IF q = p THEN {<<p, b>>} ELSE {})
    BY <2>1, <2>3
  <2> QED
    BY <1>1, <2>1, <2>4 DEF Comebacks
<1>4. IsFiniteSet(Comebacks') /\ Cardinality(Comebacks') = Cardinality(Comebacks) + 1
  BY <1>3, FS_AddElement DEF Room
<1>5. Cardinality(Comebacks) \in Nat /\ Cardinality(Alive) \in Nat
  BY AliveCard, FS_CardinalityType DEF Room
<1>6. UNCHANGED <<left, pc, attempt, blind>> /\ \A q \in Procs : left[q] \in Nat
  BY ReconcilerAssumption DEF PodBack, local
<1> QED
  BY <1>2, <1>4, <1>5, <1>6, RoomKept

LEMMA RoomStep ==
  ASSUME Orderly, "train" \notin Kinds, LInv, LInv', StrayInv, Places, Room, [LNext]_allVars
  PROVE  Room'
<1> USE Commands
<1>0. /\ SomeLeft => SomeLeft'
      /\ \A q \in Procs : left[q] \in Nat
  BY LeftStays, ReconcilerAssumption DEF LInv, IndInv, TypeOK
<1>1. CASE UNCHANGED vars
  BY <1>0, <1>1, RoomShrinks DEF vars, Alive
<1>2. ASSUME NEW c \in Cmds, Acts(c) PROVE Room'
  BY <1>0, <1>2, ActsLeaveRoom
<1>3. ASSUME NEW p \in Procs, Call(p) \/ SetStop(p) \/ Ends(p) PROVE Room'
  <2>1. CASE ListPods(p) \/ \E d \in Pods : LaunchOk(p, d)
    <3>1. Works(p)
      BY <2>1 DEF ListPods, LaunchOk, Works
    <3>2. CASE SomeLeft
      <4>1. back' = back
        BY <2>1 DEF ListPods, LaunchOk, world
      <4> QED
        BY <1>0, <3>2, <4>1 DEF Room, Comebacks
    <3>3. CASE ~ SomeLeft
      <4>1. \A q \in Procs : q # p => ~ Works(q)
        BY <3>1, <3>3, OneWorks
      <4> QED
        BY <2>1, <3>3, <4>1, DecideLeavesRoom, LaunchLeavesRoom
    <3> QED
      BY <3>2, <3>3
  <2>2. CASE ~ ListPods(p) /\ \A d \in Pods : ~ LaunchOk(p, d)
    BY <1>0, <1>3, <2>2, CallLeavesRoom
  <2> QED
    BY <2>1, <2>2
<1>4. ASSUME NEW d \in Pods, PodOff(d) \/ PodGone(d) PROVE Room'
  <2>1. Alive' \subseteq Alive /\ back' = back /\ UNCHANGED <<pc, local>>
    BY <1>4 DEF PodOff, PodGone, Alive, LInv, IndInv, TypeOK
  <2> QED
    BY <1>0, <2>1, RoomShrinks DEF local
<1>5. ASSUME NEW d \in Pods, PodBack(d) PROVE Room'
  BY <1>0, <1>5, BackLeavesRoom
<1>6. ASSUME NEW c \in Cmds, NEW k \in Kinds, NEW h \in Loops \cup {None}, Invoke(c, k, h)
      PROVE  UNCHANGED vars
  BY <1>6 DEF Invoke
<1> QED
  BY <1>1, <1>2, <1>3, <1>4, <1>5, <1>6, SequentialActions DEF PassCall, RunPodStep

(* However often a cluster is stopped, removed, refreshed and started again*)
(* by commands given one after the other, whatever fails meanwhile, it has *)
(* no more pods than nodes but for those RunPod brought into view late,    *)
(* unless a failed start left a daemon behind.  The budget of each process *)
(* (SlotBudget) does not say so: it counts a process's own pods, while a   *)
(* pass here makes up for the pods of all.                                 *)
THEOREM NoSurplusPods ==
  ASSUME Orderly, "train" \notin Kinds
  PROVE  LSpec => []NoSurplus
<1> DEFINE Inv == StrayInv /\ Places /\ Room
<1>1. LInit => Inv
  <2> SUFFICES ASSUME LInit PROVE Inv
    OBVIOUS
  <2>1. StrayInv
    BY StrayInit
  <2>2. Places
    BY PlacesInit
  <2>3. Alive = {} /\ Comebacks = {} /\ \A p \in Procs : left[p] = 0 /\ pc[p] # "list"
    BY DEF LInit, Init, Alive, Comebacks
  <2>4. Room
    BY <2>3, FS_EmptySet, ReconcilerAssumption DEF Room, Fits, SeesEnough
  <2> QED
    BY <2>1, <2>2, <2>4
<1>2. LInv /\ LInv' /\ Inv /\ [LNext]_allVars => Inv'
  BY StrayInvStep, PlacesUnderCommands, RoomStep
<1>3. LInv /\ Inv => NoSurplus
  <2> SUFFICES ASSUME LInv, Room, ~ SomeLeft
               PROVE  Cardinality(Alive) <= NumNodes + Cardinality(Comebacks)
    BY DEF NoSurplus, SomeLeft
  <2>1. /\ Cardinality(Alive) \in Nat /\ Cardinality(Comebacks) \in Nat /\ NumNodes \in Nat
        /\ \A p \in Procs : left[p] \in Nat
    BY AliveCard, FS_CardinalityType, ReconcilerAssumption DEF Room, LInv, IndInv, TypeOK
  <2>2. CASE Alive = {}
    BY <2>1, <2>2, FS_EmptySet
  <2>3. ASSUME NEW d \in Alive PROVE Cardinality(Alive) <= NumNodes + Cardinality(Comebacks)
    <3>1. owner[d] \in Procs
      BY DEF Alive, LInv, IndInv, OwnerKnown
    <3>2. Fits(owner[d])
      BY <3>1 DEF Room
    <3> QED
      BY <2>1, <3>1, <3>2 DEF Fits
  <2> QED
    BY <2>2, <2>3
<1> QED
  BY <1>1, <1>2, <1>3, LifecycleInduction, PTL DEF LSpec
=============================================================================
