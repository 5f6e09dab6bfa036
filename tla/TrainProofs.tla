----------------------------- MODULE TrainProofs -----------------------------
(***************************************************************************)
(* Train, for any number of commands, daemons, pods and nodes: its types,  *)
(* that no train tears down what it has not downloaded, that the           *)
(* reconcilers keep their promise beside it, and, when commands are given  *)
(* one after the other, which daemons and pods outlive it.                 *)
(***************************************************************************)
EXTENDS Train, SequentialProofs

TrainTypes ==
  /\ running \in [Cmds -> SUBSET Pods]
  /\ primary \in [Cmds -> Pods \cup {None}]
  /\ export \in [Pods -> Archive]
  /\ disk \in [Pods -> Archive]

TrInv == LInv /\ TrainTypes

-----------------------------------------------------------------------------
(* Where a train leaves Reconciler's variables alone.                      *)
Watches(c) ==
  \/ TimesOut(c) \/ ExportReady(c) \/ TearDown(c)
  \/ \E d \in Pods : Fetch(c, d) \/ FetchRefused(c, d)

(* Where it lists outside its pass.                                        *)
Lists(c) == Reconciled(c) \/ AskAgain(c) \/ TooFew(c) \/ \E up \in SUBSET Pods : Enlisted(c, up)

LEMMA TrainActions ==
  ASSUME NEW c \in Cmds, TrainStep(c)
  PROVE  Resolve(c) \/ CallFails(c) \/ Lists(c) \/ Watches(c)
BY DEF TrainStep, Lists, Watches

LEMMA ResolveKeeps ==
  ASSUME TrInv, NEW c \in Cmds, Resolve(c)
  PROVE  TrInv'
<1> USE Commands DEF Resolve, At
<1>1. IndInv'
  <2>1. pc[c] \notin {"list", "deploy", "record"} /\ db' \in StoreType
    BY DEF TrInv, LInv, InPass, IndInv, TypeOK
  <2> QED
    BY <2>1, PassBegins DEF TrInv, LInv
<1>2. CmdTypes'
  BY DEF TrInv, LInv, CmdTypes, Goto, CPC
<1>3. InPass'
  <2>1. PICK w \in {"list", "pass"} : cpc' = [cpc EXCEPT ![c] = w]
    BY DEF Goto
  <2> QED
    BY <2>1 DEF TrInv, LInv, CmdTypes, IndInv, TypeOK, InPass, world
<1>4. TrainTypes'
  BY DEF TrInv, TrainTypes, trainVars
<1> QED
  BY <1>1, <1>2, <1>3, <1>4 DEF TrInv, LInv

LEMMA CallFailsKeeps ==
  ASSUME TrInv, NEW c \in Cmds, CallFails(c)
  PROVE  TrInv'
<1> USE DEF CallFails, At
<1>1. IndInv'
  BY RowStep DEF TrInv, LInv, IndInv, TypeOK, Fault
<1>2. CmdTypes' /\ InPass'
  BY DEF TrInv, LInv, CmdTypes, InPass, Goto, CPC, Ended, world
<1>3. TrainTypes'
  BY DEF TrInv, TrainTypes, trainVars
<1> QED
  BY <1>1, <1>2, <1>3 DEF TrInv, LInv

LEMMA WatchesKeeps ==
  ASSUME TrInv, NEW c \in Cmds, Watches(c)
  PROVE  TrInv'
<1>1. UNCHANGED vars
  BY DEF Watches, TimesOut, ExportReady, TearDown, Fetch, FetchRefused, Extract
<1>2. IndInv'
  BY <1>1, IndInvStep DEF TrInv, LInv
<1>3. CmdTypes' /\ InPass'
  <2>1. /\ host' = host /\ child' = child /\ kind' = kind
        /\ cpc' = cpc \/ \E w \in {"error", "fetch", "list"} : cpc' = [cpc EXCEPT ![c] = w]
        /\ cpc[c] # "pass"
        /\ todo' = todo \/ \E d \in Pods : todo' = [todo EXCEPT ![c] = @ \ {d}]
    BY DEF Watches, TimesOut, ExportReady, TearDown, Fetch, FetchRefused, Extract, NextFetch,
       Goto, At
  <2> QED
    BY <1>1, <2>1 DEF TrInv, LInv, CmdTypes, InPass, CPC, Ended, vars
<1>4. TrainTypes'
  BY DEF TrInv, TrainTypes, Watches, TimesOut, ExportReady, TearDown, Fetch, FetchRefused, Extract,
     trainVars
<1> QED
  BY <1>2, <1>3, <1>4 DEF TrInv, LInv

LEMMA ListsKeeps ==
  ASSUME TrInv, NEW c \in Cmds, Lists(c)
  PROVE  TrInv'
<1> USE Commands DEF TrInv, LInv, IndInv, TypeOK, CmdTypes
<1>1. /\ pc[c] # "list" /\ UNCHANGED <<world, faults, db, pc, stop, left, zone, last>>
      /\ host' = host /\ child' = child /\ kind' = kind
      /\ cpc' = cpc \/ \E w \in {"wait", "error", "export"} : cpc' = [cpc EXCEPT ![c] = w]
      /\ pc[c] \notin {"list", "deploy", "record"}
  BY DEF Lists, Reconciled, AskAgain, TooFew, Enlisted, InPass, At, Goto, cmdVars
<1>2. todo' = todo \/ \E up \in SUBSET Alive : todo' = [todo EXCEPT ![c] = up]
  BY DEF Lists, Reconciled, AskAgain, TooFew, Enlisted, Alive, cmdVars
<1>3. /\ attempt' \in [Procs -> 0 .. EmptyRetries]
      /\ blind' \in [Procs -> 0 .. MaxGlitch]
      /\ \A q \in Procs : q # c => attempt'[q] = attempt[q] /\ blind'[q] = blind[q]
  <2>1. CASE AskAgain(c)
    BY <2>1, ReconcilerAssumption DEF AskAgain, Refetch, Glimpse, Answers
  <2>2. CASE FreshListing(c)
    BY <2>2, ReconcilerAssumption DEF FreshListing
  <2> QED
    BY <2>1, <2>2 DEF Lists, Reconciled, TooFew, Enlisted
<1>4. IndInv'
  BY <1>1, <1>3, ListingStep
<1>5. CmdTypes'
  BY <1>1, <1>2 DEF CPC, Ended, Alive
<1>6. InPass'
  <2>1. \A d \in Alive : owner[d] \in Procs
    BY DEF OwnerKnown, Alive
  <2> QED
    BY <1>1, <1>2, <2>1 DEF InPass, world
<1>7. TrainTypes'
  BY DEF TrainTypes, Lists, Reconciled, AskAgain, TooFew, Enlisted, trainVars
<1> QED
  BY <1>4, <1>5, <1>6, <1>7

LEMMA WritesKeeps ==
  ASSUME TrInv, NEW d \in Pods, NEW what \in Archive, Writes(d, what)
  PROVE  TrInv'
<1>1. LInv'
  BY LInvStep DEF Writes, TrInv
<1>2. TrainTypes'
  BY DEF TrInv, TrainTypes, Writes
<1> QED
  BY <1>1, <1>2 DEF TrInv

LEMMA TrInvStep ==
  ASSUME TrInv, [TrNext]_<<allVars, trainVars>>
  PROVE  TrInv'
<1>1. CASE [LNext]_allVars /\ UNCHANGED trainVars
  BY <1>1, LInvStep DEF TrInv, TrainTypes, trainVars
<1>2. ASSUME NEW c \in Cmds, TrainStep(c) PROVE TrInv'
  BY <1>2, TrainActions, ResolveKeeps, CallFailsKeeps, ListsKeeps, WatchesKeeps
<1> QED
  BY <1>1, <1>2, WritesKeeps DEF TrNext

(* The inductive invariant of the lifecycle survives the trains.           *)
THEOREM TrainInduction == TrSpec => []TrInv
<1>1. TrInit => TrInv
  BY LInvInit DEF TrInit, TrInv, TrainTypes, Archive
<1>2. TrInv /\ [TrNext]_<<allVars, trainVars>> => TrInv'
  BY TrInvStep
<1> QED
  BY <1>1, <1>2, PTL DEF TrSpec

(* Every variable of a train keeps its type, as do those of the commands   *)
(* and daemons beside it.                                                  *)
THEOREM TrainTyped == TrSpec => []TrTypeOK
<1>1. TrInv => TrTypeOK
  BY DEF TrInv, TrainTypes, LInv, IndInv, CmdTypes, LTypeOK, TrTypeOK
<1> QED
  BY <1>1, TrainInduction, PTL

(* Trains, too, launch into free slots only.                               *)
THEOREM TrainBudget == TrSpec => []SlotBudget
<1>1. TrInv => SlotBudget
  BY DEF TrInv, LInv, IndInv
<1> QED
  BY <1>1, TrainInduction, PTL

-----------------------------------------------------------------------------
(* What is torn down has been downloaded.                                  *)

Closing == {"list", "terminate", "daemon", "kill", "unrow", "delete", "ok"}
TrainStages == Closing \cup {"idle", "train", "pass", "wait", "export", "fetch", "error"}

(* An archive that was complete stays so.  A train takes its own stages,   *)
(* and what it has ticked off its list is on disk.                         *)
Saved(c) == \A d \in running[c] \ todo[c] : disk[d] = "complete"
CkInv ==
  /\ \A d \in Pods : disk[d] = "complete" => export[d] = "complete"
  /\ \A c \in Cmds : kind[c] = "train" =>
       /\ cpc[c] \in TrainStages
       /\ cpc[c] \in {"export", "fetch"} => Saved(c)
  /\ CheckpointsKept

(* A step that is not the train's own leads it from one closing stage to   *)
(* another, or to where it owes nothing.                                   *)
Passes(c) ==
  \/ cpc'[c] \in {"train", "error", "pass"}
  \/ /\ kind[c] = "train" /\ pc'[c] = pc[c] /\ cpc'[c] = cpc[c]
     /\ cpc[c] \in {"export", "fetch"} => todo'[c] = todo[c]
  \/ /\ kind[c] = "train" /\ pc'[c] = pc[c]
     /\ cpc[c] \in Closing /\ cpc'[c] \in Closing

LEMMA OwnStepPasses ==
  ASSUME TrInv, CkInv, NEW c \in Cmds, OwnStep(c), kind'[c] = "train"
  PROVE  Passes(c)
<1> USE DEF TrInv, LInv, CmdTypes, CkInv, TrainStages, Closing, Passes, Goto, At, vars
<1>1. ASSUME NEW k \in Kinds, NEW h \in Loops \cup {None}, Invoke(c, k, h)
      PROVE  Passes(c)
  BY <1>1 DEF Invoke, First
<1>2. CASE AllTerminated(c)
  BY <1>2 DEF AllTerminated
<1>3. CASE NoDaemonRow(c)
  BY <1>3 DEF NoDaemonRow, AfterStop
<1>4. CASE DaemonGone(c) \/ AlreadyRunning(c) \/ PassEnds(c) \/ Poll(c)
  BY <1>4 DEF DaemonGone, AlreadyRunning, PassEnds, Poll
<1> QED
  BY <1>1, <1>2, <1>3, <1>4 DEF OwnStep

LEMMA StoreStepPasses ==
  ASSUME TrInv, CkInv, NEW c \in Cmds, StoreStep(c), kind'[c] = "train"
  PROVE  Passes(c)
<1> USE DEF TrInv, LInv, CmdTypes, CkInv, TrainStages, Closing, Passes, Goto, At
<1>1. CASE DeleteCluster(c)
  BY <1>1 DEF DeleteCluster, AfterDelete
<1>2. CASE DeleteDaemonRow(c)
  BY <1>2 DEF DeleteDaemonRow, AfterStop
<1>3. CASE TerminateFails(c) \/ Register(c) \/ SavePrefs(c) \/ StoreFails(c) \/ PortBusy(c)
  BY <1>3 DEF TerminateFails, Register, SavePrefs, StoreFails, PortBusy
<1> QED
  BY <1>1, <1>2, <1>3 DEF StoreStep

LEMMA CommandPasses ==
  ASSUME TrInv, CkInv, [LNext]_allVars, NEW c \in Cmds, kind'[c] = "train"
  PROVE  Passes(c)
<1> USE Commands DEF TrInv, LInv, CmdTypes, IndInv, TypeOK
<1>1. ASSUME NEW o \in Cmds, OwnStep(o) \/ StoreStep(o) PROVE Passes(c)
  <2>1. CASE o = c
    BY <1>1, <2>1, OwnStepPasses, StoreStepPasses
  <2>2. CASE o # c
    <3>1. kind'[c] = kind[c]
      BY <1>1, <2>2 DEF OwnStep, StoreStep, Invoke, AllTerminated, NoDaemonRow, DaemonGone,
         AlreadyRunning, PassEnds, Poll, TerminateFails, DeleteCluster, DeleteDaemonRow, Register,
         SavePrefs, StoreFails, PortBusy
    <3> QED
      BY <1>1, <2>2, <3>1, OthersKeep DEF Passes
  <2> QED
    BY <2>1, <2>2
<1>2. ASSUME NEW o \in Cmds, BeginPass(o) PROVE Passes(c)
  BY <1>2 DEF BeginPass, CheckRow, ForegroundPrefs, Goto, At, Passes, CkInv, TrainStages, Closing
<1>3. ASSUME NEW o \in Cmds, ListToTerminate(o) \/ \E d \in Pods : Terminate(o, d) PROVE Passes(c)
  BY <1>3 DEF ListToTerminate, Terminate, Goto, At, Passes, Closing
<1>4. ASSUME NEW o \in Cmds, SigTerm(o) PROVE Passes(c)
  BY <1>4 DEF SigTerm, vars, Goto, At, Passes, Closing
<1>5. ASSUME NEW o \in Cmds, PassCall(o) PROVE Passes(c)
  <2>1. UNCHANGED cmdVars /\ (o # c => pc'[c] = pc[c]) /\ cpc[o] = "pass"
    BY <1>5, MovesItself DEF PassCall, At
  <2> QED
    BY <2>1 DEF cmdVars, Passes
<1>6. ASSUME NEW o \in Cmds, NEW p \in Loops, Spawn(o, p) PROVE Passes(c)
  BY <1>6 DEF Spawn, Start, Goto, At, Passes, CkInv, TrainStages, Closing
<1>7. ASSUME NEW o \in Cmds, SigKill(o) PROVE Passes(c)
  <2>1. child[o] \in Loops
    BY <1>7 DEF SigKill, At, InPass
  <2> QED
    BY <1>7, <2>1 DEF SigKill, Ends, EndThread, EndMidDeploy, Goto, At, Passes, Closing
<1>8. CASE UNCHANGED cmdVars /\ ((\E p \in Loops : DaemonStep(p)) \/ RunPodStep)
  <2>1. pc'[c] = pc[c]
    BY <1>8, MovesItself DEF DaemonStep, Exit, RunPodStep, PodOff, PodGone, PodBack
  <2> QED
    BY <1>8, <2>1 DEF cmdVars, Passes
<1>9. CASE UNCHANGED allVars
  BY <1>9 DEF allVars, cmdVars, vars, Passes
<1> QED
  BY <1>1, <1>2, <1>3, <1>4, <1>5, <1>6, <1>7, <1>8, <1>9, CommandActions DEF DaemonStep

LEMMA CkUnderCommands ==
  ASSUME TrInv, CkInv, [LNext]_allVars, UNCHANGED trainVars
  PROVE  CkInv'
<1> SUFFICES ASSUME NEW c \in Cmds, kind'[c] = "train"
    PROVE  /\ cpc'[c] \in TrainStages
           /\ cpc'[c] \in {"export", "fetch"} => Saved(c)'
           /\ Finishing(c)' => \A d \in running[c] : disk[d] = "complete"
  BY DEF CkInv, CheckpointsKept, Finishing, trainVars
<1> QED
  BY CommandPasses DEF Passes, CkInv, TrainStages, Closing, Saved, CheckpointsKept, Finishing, trainVars

LEMMA CkUnderTrain ==
  ASSUME TrInv, CkInv, NEW o \in Cmds, TrainStep(o)
  PROVE  CkInv'
<1> USE Commands DEF TrInv, LInv, CmdTypes, TrainTypes, IndInv, TypeOK
<1>1. \A d \in Pods : /\ disk'[d] = "complete" => export'[d] = "complete"
                      /\ disk[d] = "complete" => disk'[d] = "complete"
  BY DEF CkInv, TrainStep, Resolve, CallFails, Reconciled, AskAgain, TooFew, Enlisted, TimesOut,
     ExportReady, Fetch, FetchRefused, Extract, TearDown, trainVars
<1>2. /\ kind' = kind
      /\ \A c \in Cmds : c # o => /\ cpc'[c] = cpc[c] /\ pc'[c] = pc[c]
                                  /\ todo'[c] = todo[c] /\ running'[c] = running[c]
  BY DEF TrainStep, Resolve, CallFails, Reconciled, AskAgain, TooFew, Enlisted, TimesOut,
     ExportReady, Fetch, FetchRefused, Extract, TearDown, trainVars, cmdVars, vars, Goto
<1>3. ASSUME NEW c \in Cmds, kind[c] = "train", c # o
      PROVE  /\ cpc'[c] \in TrainStages
             /\ cpc'[c] \in {"export", "fetch"} => Saved(c)'
             /\ Finishing(c)' => \A d \in running'[c] : disk'[d] = "complete"
  <2>1. running[c] \subseteq Pods
    OBVIOUS
  <2> QED
    BY <1>1, <1>2, <1>3, <2>1 DEF CkInv, Saved, CheckpointsKept, Finishing
<1>4. ASSUME kind[o] = "train"
      PROVE  /\ cpc'[o] \in TrainStages
             /\ cpc'[o] \in {"export", "fetch"} => Saved(o)'
             /\ Finishing(o)' => \A d \in running'[o] : disk'[d] = "complete"
  <2> USE DEF Goto, At, TrainStages, Closing, Finishing, Saved, CkInv
  <2>1. CASE Resolve(o)
    BY <2>1 DEF Resolve
  <2>2. CASE CallFails(o) \/ TimesOut(o)
    BY <2>2 DEF CallFails, TimesOut
  <2>3. CASE Reconciled(o) \/ AskAgain(o) \/ TooFew(o)
    BY <2>3 DEF Reconciled, AskAgain, TooFew, cmdVars
  <2>4. ASSUME NEW up \in SUBSET Pods, Enlisted(o, up)
        PROVE  cpc'[o] = "export" /\ todo'[o] = running'[o]
    BY <2>4 DEF Enlisted
  <2>5. CASE ExportReady(o)
    BY <1>4, <2>5 DEF ExportReady, trainVars
  <2>6. ASSUME NEW d \in Pods, Fetch(o, d)
        PROVE  \/ cpc'[o] = "error"
               \/ cpc'[o] = "fetch" /\ Saved(o)'
    <3>1. CASE export[d] = "complete"
      <4>1. /\ disk'[d] = "complete" /\ todo'[o] = todo[o] \ {d} /\ running' = running
            /\ cpc[o] = "fetch" /\ cpc' = cpc
        BY <2>6, <3>1 DEF Fetch, Extract, NextFetch
      <4>2. \A e \in running[o] \ todo[o] : disk'[e] = "complete"
        BY <1>1, <1>4, <4>1
      <4> QED
        BY <4>1, <4>2
    <3>2. CASE export[d] # "complete"
      BY <2>6, <3>2 DEF Fetch, Extract, NextFetch
    <3> QED
      BY <3>1, <3>2
  <2>7. ASSUME NEW d \in Pods, FetchRefused(o, d)
        PROVE  cpc'[o] = "error"
    BY <2>7 DEF FetchRefused
  <2>8. CASE TearDown(o)
    <3>1. /\ cpc[o] = "fetch" /\ todo[o] = {} /\ cpc'[o] = "list"
          /\ running' = running /\ disk' = disk
      BY <2>8 DEF TearDown, trainVars
    <3>2. \A e \in running[o] : disk[e] = "complete"
      BY <1>4, <3>1
    <3> QED
      BY <3>1, <3>2
  <2> QED
    BY <2>1, <2>2, <2>3, <2>4, <2>5, <2>6, <2>7, <2>8 DEF TrainStep
<1> QED
  BY <1>1, <1>2, <1>3, <1>4 DEF CkInv, CheckpointsKept, Finishing

LEMMA CkUnderWrites ==
  ASSUME TrInv, CkInv, NEW d \in Pods, NEW what \in Archive, Writes(d, what)
  PROVE  CkInv'
<1>1. \A e \in Pods : export[e] = "complete" => export'[e] = "complete"
  BY DEF Writes, TrInv, TrainTypes
<1> QED
  BY <1>1 DEF Writes, allVars, cmdVars, vars, CkInv, Saved, CheckpointsKept, Finishing

(* No train that tears its cluster down leaves behind a replica it waited  *)
(* for whose complete archive is not on this machine.                      *)
THEOREM CheckpointsSafe == TrSpec => []CheckpointsKept
<1>1. TrInit => CkInv
  BY DEF TrInit, LInit, CkInv, CheckpointsKept, Finishing, TrainStages
<1>2. TrInv /\ CkInv /\ [TrNext]_<<allVars, trainVars>> => CkInv'
  BY CkUnderCommands, CkUnderTrain, CkUnderWrites DEF TrNext
<1>3. CkInv => CheckpointsKept
  BY DEF CkInv
<1> QED
  BY <1>1, <1>2, <1>3, TrainInduction, PTL DEF TrSpec
-----------------------------------------------------------------------------
(* What outlives a train that completes, when no command is given while    *)
(* another one runs.                                                       *)

(* A train's own step moves the train alone, and touches no pod, no daemon *)
(* and no row.                                                             *)
LEMMA TrainStepFacts ==
  ASSUME TrInv, Places, NEW c \in Cmds, TrainStep(c)
  PROVE  /\ Active(c) /\ kind[c] = "train"
         /\ UNCHANGED <<world, db, kind, host, child>>
         /\ cpc[c] \in {"train", "pass", "wait", "export", "fetch"}
         /\ cpc'[c] \in {"list", "pass", "error", "wait", "export", "fetch"}
         /\ cpc'[c] = "list" => pc'[c] = "touch" \/ (cpc[c] = "fetch" /\ attempt' = attempt)
         /\ cpc'[c] \in {"export", "fetch"} =>
              attempt'[c] = 0 \/ (cpc[c] \in {"export", "fetch"} /\ attempt' = attempt)
         /\ \A q \in Procs : q # c => pc'[q] = pc[q] /\ attempt'[q] = attempt[q]
         /\ \A o \in Cmds : o # c => cpc'[o] = cpc[o]
<1> USE Commands DEF TrInv, LInv, CmdTypes, IndInv, TypeOK, Places, At, Goto, Active, Ended
<1>1. CASE Resolve(c)
  BY <1>1 DEF Resolve, local
<1>2. CASE CallFails(c)
  BY <1>2 DEF CallFails, local
<1>3. CASE Lists(c)
  BY <1>3 DEF Lists, Reconciled, AskAgain, TooFew, Enlisted, FreshListing, Glimpse, cmdVars
<1>4. CASE Watches(c)
  BY <1>4 DEF Watches, TimesOut, ExportReady, TearDown, Fetch, FetchRefused, Extract, NextFetch,
     vars, world, local
<1> QED
  BY <1>1, <1>2, <1>3, <1>4, TrainActions

LEMMA PlacesUnderTrain ==
  ASSUME TrInv, Places, NEW c \in Cmds, TrainStep(c)
  PROVE  Places'
BY TrainStepFacts DEF Places, Stopping, Ended

LEMMA SingleUnderTrain ==
  ASSUME TrInv, Places, Single, NEW c \in Cmds, TrainStep(c)
  PROVE  Single' /\ \A o \in Cmds : Active(o)' => o = c
<1>1. NoRevival
  BY TrainStepFacts, Commands DEF NoRevival, PidAlive
<1> QED
  BY <1>1, TrainStepFacts, SingleKept DEF TrInv, Single, Active, Ended

LEMMA StrayUnderTrain ==
  ASSUME TrInv, Places, StrayInv, NEW c \in Cmds, TrainStep(c)
  PROVE  StrayInv'
<1>1. Single' /\ \A o \in Cmds : Active(o)' => o = c
  BY SingleUnderTrain DEF StrayInv
<1>2. Stages'
  BY <1>1, TrainStepFacts DEF StrayInv, Stages
<1>3. NoStrayDaemon'
  <2>1. \A p \in Loops : PidAlive(p)' <=> PidAlive(p)
    BY TrainStepFacts, Commands DEF PidAlive
  <2> QED
    BY <2>1, TrainStepFacts DEF StrayInv, NoStrayDaemon, Stray
<1> QED
  BY <1>1, <1>2, <1>3 DEF StrayInv

LEMMA GoneUnderTrain ==
  ASSUME TrInv, Places, GoneInv, NEW c \in Cmds, TrainStep(c)
  PROVE  GoneInv'
<1> USE Commands
<1>1. Single' /\ \A o \in Cmds : Active(o)' => o = c
  BY SingleUnderTrain DEF GoneInv
<1>2. \A o \in Cmds : cpc'[o] \in {"idle", "export", "fetch"} => attempt'[o] = 0
  BY TrainStepFacts DEF GoneInv
<1>3. Terminates(c)' => Gone(c)'
  <2>1. blind'[c] \in Nat
    <3>1. TrInv'
      BY TrInvStep DEF TrNext
    <3> QED
      BY <3>1, ReconcilerAssumption DEF TrInv, LInv, IndInv, TypeOK
  <2>2. cpc'[c] = "list" /\ pc'[c] # "touch" => attempt'[c] = 0
    BY TrainStepFacts DEF GoneInv
  <2> QED
    BY <2>1, <2>2, TrainStepFacts DEF Terminates, Gone, Cleared
<1> QED
  BY <1>1, <1>2, <1>3 DEF GoneInv

(* A train ends in an error or with a command's step.                      *)
LEMMA CommandCompletes ==
  ASSUME TrInv, Places, TrNext, NEW c \in Cmds, NEW k, Completes(c, k)
  PROVE  LNext
<1> USE DEF Completes
<1>1. ASSUME NEW o \in Cmds, TrainStep(o) PROVE FALSE
  BY <1>1, TrainStepFacts
<1>2. ASSUME NEW d \in Pods, NEW what \in Archive, Writes(d, what) PROVE FALSE
  BY <1>2 DEF Writes, allVars, cmdVars
<1> QED
  BY <1>1, <1>2 DEF TrNext

(* A train completes when it deletes the cluster for good.                 *)
LEMMA Completing ==
  ASSUME TrInv, Places, CkInv, TrNext, NEW c \in Cmds, Completes(c, "train")
  PROVE  /\ Active(c) /\ kind[c] = "train" /\ cpc[c] = "delete" /\ ~ Cleaning(c)
         /\ UNCHANGED <<world, pc>>
<1> USE Commands DEF Completes, TrInv, LInv, CmdTypes, Goto, At
<1>1. Acts(c)
  BY CommandCompletes, CompleterActs
<1>2. kind[c] = "train" /\ cpc[c] \in TrainStages /\ Active(c)
  BY <1>1, ActsFacts DEF CkInv
<1>3. DeleteCluster(c)
  BY <1>1, <1>2 DEF Acts, StoreStep, TerminateFails, DeleteDaemonRow, AfterStop, Register,
     SavePrefs, StoreFails, PortBusy, BeginPass, CheckRow, ForegroundPrefs, SigTerm, Spawn, SigKill,
     AllTerminated, NoDaemonRow, DaemonGone, AlreadyRunning, PassEnds, Poll, ListToTerminate,
     Terminate, TrainStages, Closing
<1> QED
  BY <1>2, <1>3 DEF DeleteCluster, AfterDelete

(* What SequentialProofs keeps for commands is kept beside trains, too:    *)
(* what is known of the daemons ...                                        *)
DaemonInv == Places /\ CkInv /\ StrayInv
THEOREM DaemonInduction ==
  ASSUME Orderly
  PROVE  TrSpec => [](TrInv /\ DaemonInv)
<1> USE DEF DaemonInv
<1>1. TrInit => DaemonInv
  <2>1. TrInit => CkInv
    BY DEF TrInit, LInit, CkInv, CheckpointsKept, Finishing, TrainStages
  <2> QED
    BY <2>1, PlacesInit, StrayInit DEF TrInit
<1>2. TrInv /\ DaemonInv /\ [TrNext]_<<allVars, trainVars>> => DaemonInv'
  <2> SUFFICES ASSUME TrInv, DaemonInv, [TrNext]_<<allVars, trainVars>> PROVE DaemonInv'
    OBVIOUS
  <2>1. CASE [LNext]_allVars /\ UNCHANGED trainVars
    BY <2>1, PlacesUnderCommands, CkUnderCommands, StrayInvStep DEF TrInv
  <2>2. ASSUME NEW c \in Cmds, TrainStep(c) PROVE DaemonInv'
    BY <2>2, PlacesUnderTrain, CkUnderTrain, StrayUnderTrain
  <2>3. ASSUME NEW d \in Pods, NEW what \in Archive, Writes(d, what) PROVE DaemonInv'
    BY <2>3, CkUnderWrites, PlacesUnderCommands, StrayInvStep DEF Writes, TrInv
  <2> QED
    BY <2>1, <2>2, <2>3 DEF TrNext
<1> QED
  BY <1>1, <1>2, TrainInduction, PTL DEF TrSpec

(* ... and of the pods of earlier commands.                                *)
PodInv == Places /\ CkInv /\ GoneInv
THEOREM PodInduction ==
  ASSUME Sequential
  PROVE  TrSpec => [](TrInv /\ PodInv)
<1> USE DEF PodInv
<1>1. TrInit => PodInv
  <2>1. TrInit => CkInv
    BY DEF TrInit, LInit, CkInv, CheckpointsKept, Finishing, TrainStages
  <2> QED
    BY <2>1, PlacesInit, GoneInit DEF TrInit
<1>2. TrInv /\ PodInv /\ [TrNext]_<<allVars, trainVars>> => PodInv'
  <2> SUFFICES ASSUME TrInv, PodInv, [TrNext]_<<allVars, trainVars>> PROVE PodInv'
    OBVIOUS
  <2>1. CASE [LNext]_allVars /\ UNCHANGED trainVars
    BY <2>1, PlacesUnderCommands, CkUnderCommands, GoneInvStep DEF TrInv
  <2>2. ASSUME NEW c \in Cmds, TrainStep(c) PROVE PodInv'
    BY <2>2, PlacesUnderTrain, CkUnderTrain, GoneUnderTrain
  <2>3. ASSUME NEW d \in Pods, NEW what \in Archive, Writes(d, what) PROVE PodInv'
    BY <2>3, CkUnderWrites, PlacesUnderCommands, GoneInvStep DEF Writes, TrInv
  <2> QED
    BY <2>1, <2>2, <2>3 DEF TrNext
<1> QED
  BY <1>1, <1>2, TrainInduction, PTL DEF TrSpec

(* Trains lose no daemon either, nor do the commands before and after them.*)
THEOREM TrainsLoseNoDaemon ==
  ASSUME Orderly
  PROVE  TrSpec => []NoStrayDaemon
<1>1. DaemonInv => NoStrayDaemon
  BY DEF DaemonInv, StrayInv
<1> QED
  BY <1>1, DaemonInduction, PTL

(* With trains among the commands, too, no daemon of the cluster outlives a*)
(* stop or remove that completes, except one a failed start left behind.   *)
THEOREM StopEndsItBesideTrains ==
  ASSUME Orderly
  PROVE  TrSpec => StopEndsDaemon
<1>1. TrInv /\ DaemonInv /\ [TrNext]_<<allVars, trainVars>> =>
        [\A c \in Cmds, k \in {"stop", "remove"} : Completes(c, k) =>
           \A p \in Loops : PidAlive(p)' =>
              \E o \in Cmds : child[o] = p /\ LeftBehind(o)]_allVars
  <2> SUFFICES ASSUME TrInv, DaemonInv, TrNext, NEW c \in Cmds, NEW k \in {"stop", "remove"},
                      Completes(c, k), NEW p \in Loops, PidAlive(p)'
               PROVE  \E o \in Cmds : child[o] = p /\ LeftBehind(o)
    BY DEF Completes, allVars, cmdVars
  <2> QED
    BY CommandCompletes, StopEndsItStep DEF DaemonInv, TrInv
<1> QED
  BY <1>1, DaemonInduction, PTL DEF TrSpec, StopEndsDaemon

(* Commands and trains given one after the other: no daemon of the cluster *)
(* outlives a train that completes, except one that a failed start left    *)
(* unregistered.                                                           *)
THEOREM TrainStopsIt ==
  ASSUME Orderly
  PROVE  TrSpec => TrainStopsDaemon
<1>1. TrInv /\ DaemonInv /\ [TrNext]_<<allVars, trainVars>> =>
        [\A c \in Cmds : Completes(c, "train") =>
           \A p \in Loops : PidAlive(p)' =>
              \E o \in Cmds : child[o] = p /\ LeftBehind(o)]_allVars
  <2> SUFFICES ASSUME TrInv, DaemonInv, TrNext, NEW c \in Cmds, Completes(c, "train"),
                      NEW p \in Loops, PidAlive(p)'
               PROVE  \E o \in Cmds : child[o] = p /\ LeftBehind(o)
    BY DEF Completes, allVars, cmdVars
  <2>1. Active(c) /\ cpc[c] = "delete" /\ db.daemon = None /\ PidAlive(p)
    BY Completing DEF DaemonInv, StrayInv, Stages, TrainDeletes, PidAlive
  <2>2. None \notin Loops
    BY ReconcilerAssumption DEF Procs
  <2> QED
    BY <2>1, <2>2, OnlyLeftBehind DEF DaemonInv
<1> QED
  BY <1>1, DaemonInduction, PTL DEF TrSpec, TrainStopsDaemon

(* Commands and trains given one after the other: what still runs when a   *)
(* train has completed came into view late, or a daemon launched it.       *)
THEOREM StragglersOnly ==
  ASSUME Sequential
  PROVE  TrSpec => OnlyStragglers
<1>1. TrInv /\ PodInv /\ [TrNext]_<<allVars, trainVars>> =>
        [\A c \in Cmds : Completes(c, "train") =>
           \A d \in Alive' : back[owner[d]] > 0 \/ owner[d] \in Loops]_allVars
  <2> SUFFICES ASSUME TrInv, PodInv, TrNext, NEW c \in Cmds, Completes(c, "train"), NEW d \in Alive'
               PROVE  back[owner[d]] > 0 \/ owner[d] \in Loops
    BY DEF Completes, allVars, cmdVars
  <2>1. Active(c) /\ kind[c] = "train" /\ Terminates(c) /\ Cleared(c)
    BY Completing DEF PodInv, Terminates, Cleared, Cleaning
  <2>2. d \in Alive
    BY Completing DEF PodInv, Alive, world
  <2> QED
    BY <2>1, <2>2 DEF PodInv, GoneInv, Gone, Excused, Relaunches
<1> QED
  BY <1>1, PodInduction, PTL DEF TrSpec, OnlyStragglers

(* With trains among the commands, a stop, remove or refresh that completes*)
(* has still ended every pod of the commands before it, the trains' too.   *)
THEOREM OldPodsEndBesideTrains ==
  ASSUME Sequential
  PROVE  TrSpec => OldPodsGone
<1>1. TrInv /\ PodInv /\ [TrNext]_<<allVars, trainVars>> =>
        [\A c \in Cmds, k \in {"stop", "remove", "refresh"} : Completes(c, k) =>
           \A d \in Alive' : owner[d] \in Loops \cup {c} \/ back[owner[d]] > 0]_allVars
  <2> SUFFICES ASSUME TrInv, PodInv, TrNext, NEW c \in Cmds,
                      NEW k \in {"stop", "remove", "refresh"}, Completes(c, k), NEW d \in Alive'
               PROVE  owner[d] \in Loops \cup {c} \/ back[owner[d]] > 0
    BY DEF Completes, allVars, cmdVars
  <2> QED
    BY CommandCompletes, OldPodsGoneStep DEF PodInv, TrInv
<1> QED
  BY <1>1, PodInduction, PTL DEF TrSpec, OldPodsGone

-----------------------------------------------------------------------------
(* Trains implement the replica set, too: their passes fill free slots, and*)
(* what they do outside them neither launches nor terminates.              *)
THEOREM TrainImplements == TrSpec => FillsFreeSlots
<1>1. TrInit => RS!RSInit
  <2>1. ASSUME Init PROVE \A p \in Procs : OwnAlive(p) = {}
    BY <2>1 DEF Init, OwnAlive, Alive
  <2> QED
    BY <2>1 DEF TrInit, LInit, Init, RS!RSInit
<1>2. TrInv /\ [TrNext]_<<allVars, trainVars>> => [RS!RSNext]_(RS!rsVars)
  <2> SUFFICES ASSUME TrInv, [TrNext]_<<allVars, trainVars>> PROVE [RS!RSNext]_(RS!rsVars)
    OBVIOUS
  <2>1. CASE [LNext]_allVars
    BY <2>1, LifecycleRefines DEF TrInv
  <2>2. ASSUME UNCHANGED world PROVE UNCHANGED RS!rsVars
    BY <2>2, PodSame, SlotsSame DEF world
  <2>3. ASSUME NEW c \in Cmds, TrainStep(c) PROVE UNCHANGED world
    BY <2>3 DEF TrainStep, Resolve, CallFails, Reconciled, AskAgain, TooFew, Enlisted, TimesOut,
       ExportReady, Fetch, FetchRefused, Extract, TearDown, vars, world
  <2>4. ASSUME NEW d \in Pods, NEW what \in Archive, Writes(d, what) PROVE UNCHANGED world
    BY <2>4 DEF Writes, allVars, vars, world
  <2> QED
    BY <2>1, <2>2, <2>3, <2>4 DEF TrNext
<1> QED
  BY <1>1, <1>2, TrainInduction, PTL DEF TrSpec, FillsFreeSlots, RS!RSSpec
=============================================================================
