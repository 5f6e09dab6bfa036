--------------------------- MODULE MtlsFilesProofs ---------------------------
(***************************************************************************)
(* Theorems about MtlsFiles, for any number of threads, materials and      *)
(* directories.                                                            *)
(***************************************************************************)
EXTENDS MtlsFiles, TLAPS

(* Who refers to which directory, by where the threads are.                *)
MinesInv == \A t \in Threads :
  /\ mine[t] # None <=> fpc[t] \in {"publish", "name", "write", "rest"}
  /\ mine[t] # None =>
       /\ files[mine[t]] # "none"
       /\ \A u \in Threads \ {t} : mine[u] # mine[t]
  /\ fpc[t] = "rest" => files[mine[t]] # "empty"

DoomedInv == \A t \in Threads :
  /\ doomed[t] # None => fpc[t] \in {"remove", "make", "publish"}
  /\ fpc[t] = "remove" => doomed[t] # None
  /\ doomed[t] # None => files[doomed[t]] # "none"

(* Nobody removes a directory before the global names it.                  *)
UnpublishedInv == \A t \in Threads : fpc[t] = "publish" =>
  /\ mine[t] # dir
  /\ \A u \in Threads : doomed[u] # mine[t]
  /\ files[mine[t]] = "empty"

(* The directory the global names has its files, or its maker is writing   *)
(* them, or a thread that removes it has yet to set the global.            *)
Writes(t) == /\ mine[t] = dir
             /\ fpc[t] \in {"name", "write", "rest"}
             /\ files[dir] \in {"empty", "some"}
Replaces(t) == doomed[t] = dir /\ fpc[t] \in {"make", "publish"}

GlobalInv == dir # None =>
  /\ files[dir] # "none"
  /\ \/ files[dir] \in {"all", "spoiled"}
     \/ \E t \in Threads : Writes(t) \/ Replaces(t)

FilesInv == FTypeOK /\ MinesInv /\ DoomedInv /\ UnpublishedInv /\ GlobalInv

-----------------------------------------------------------------------------
(* Every step keeps the types.                                             *)
LEMMA FTypeStep ==
  ASSUME FTypeOK, [FNext]_fileVars
  PROVE  FTypeOK'
<1> USE FilesAssumption, MaterialsAssumption
<1> USE DEF FTypeOK, FPC, Rebuilding, Contents, Outcomes
<1>1. ASSUME NEW t \in Threads, NEW m \in Materials, BeginFiles(t, m)
      PROVE  FTypeOK'
  BY <1>1 DEF BeginFiles, FAt, FGoto, globals, disk, refs
<1>2. ASSUME NEW t \in Threads, Check(t)
      PROVE  FTypeOK'
  BY <1>2 DEF Check, FAt, FGoto, globals, disk, refs
<1>3. ASSUME NEW t \in Threads, Clear(t)
      PROVE  FTypeOK'
  BY <1>3 DEF Clear, FAt, FGoto, globals, disk, ghosts
<1>4. ASSUME NEW t \in Threads, Remove(t)
      PROVE  FTypeOK'
  BY <1>4 DEF Remove, FAt, FGoto, globals, refs, ghosts
<1>5. ASSUME NEW t \in Threads, Make(t)
      PROVE  FTypeOK'
  BY <1>5 DEF Make, FAt, FGoto, globals, ghosts
<1>6. ASSUME NEW t \in Threads, MakeFails(t)
      PROVE  FTypeOK'
  BY <1>6 DEF MakeFails, FAt, FGoto, Finish, Disk, globals, ghosts
<1>7. ASSUME NEW t \in Threads, Publish(t)
      PROVE  FTypeOK'
  BY <1>7 DEF Publish, FAt, FGoto, Disk, ghosts
<1>8. ASSUME NEW t \in Threads, Name(t)
      PROVE  FTypeOK'
  BY <1>8 DEF Name, FAt, FGoto, disk, refs, ghosts
<1>9. ASSUME NEW t \in Threads, Write(t)
      PROVE  FTypeOK'
  BY <1>9 DEF Write, Writable, FAt, FGoto, globals, refs, ghosts
<1>10. ASSUME NEW t \in Threads, WriteRest(t)
       PROVE  FTypeOK'
  BY <1>10 DEF WriteRest, Writable, FAt, FGoto, Disk, globals, ghosts
<1>11. ASSUME NEW t \in Threads, WriteLost(t) \/ WriteFails(t)
       PROVE  FTypeOK'
  BY <1>11 DEF WriteLost, WriteFails, FGoto, Finish, Disk, globals, ghosts
<1>12. ASSUME NEW t \in Threads, Take(t)
       PROVE  FTypeOK'
  BY <1>12 DEF Take, FAt, FGoto, globals, disk, ghosts
<1>13. ASSUME NEW t \in Threads, LoadFiles(t)
       PROVE  FTypeOK'
  <2>1. Loaded(t) \in Outcomes
    BY DEF Loaded
  <2> QED
    BY <1>13, <2>1 DEF LoadFiles, FAt, FGoto, Finish, Disk, globals, ghosts
<1>14. ASSUME NEW t \in Threads, Done(t)
       PROVE  FTypeOK'
  BY <1>14 DEF Done, FAt, FGoto, globals, disk, refs
<1>15. CASE UNCHANGED fileVars
  BY <1>15 DEF fileVars, globals, disk, refs, ghosts
<1> QED
  BY <1>1, <1>2, <1>3, <1>4, <1>5, <1>6, <1>7, <1>8, <1>9, <1>10, <1>11, <1>12,
     <1>13, <1>14, <1>15 DEF FNext, FilesStep

-----------------------------------------------------------------------------
(* Every step keeps who refers to which directory.                         *)

LEMMA MinesStep ==
  ASSUME FilesInv, FTypeOK', [FNext]_fileVars
  PROVE  MinesInv'
<1> USE FilesAssumption
<1> USE DEF FilesInv, FTypeOK, MinesInv, DoomedInv, UnpublishedInv, GlobalInv, Writes, Replaces, FPC, Rebuilding, Contents
<1>1. ASSUME NEW t \in Threads, NEW m \in Materials, BeginFiles(t, m)
      PROVE  MinesInv'
  BY <1>1 DEF BeginFiles, FAt, FGoto, globals, disk, refs
<1>2. ASSUME NEW t \in Threads, Check(t)
      PROVE  MinesInv'
  BY <1>2 DEF Check, FAt, FGoto, globals, disk, refs
<1>3. ASSUME NEW t \in Threads, Clear(t)
      PROVE  MinesInv'
  BY <1>3 DEF Clear, FAt, FGoto, globals, disk, ghosts
<1>4. ASSUME NEW t \in Threads, Remove(t)
      PROVE  MinesInv'
  BY <1>4 DEF Remove, FAt, FGoto, globals, refs, ghosts
<1>5. ASSUME NEW t \in Threads, Make(t)
      PROVE  MinesInv'
  BY <1>5 DEF Make, FAt, FGoto, globals, ghosts
<1>6. ASSUME NEW t \in Threads, MakeFails(t)
      PROVE  MinesInv'
  BY <1>6 DEF MakeFails, FAt, FGoto, Finish, Disk, Used, globals, ghosts
<1>7. ASSUME NEW t \in Threads, Publish(t)
      PROVE  MinesInv'
  BY <1>7 DEF Publish, FAt, FGoto, Disk, Used, ghosts
<1>8. ASSUME NEW t \in Threads, Name(t)
      PROVE  MinesInv'
  BY <1>8 DEF Name, FAt, FGoto, disk, refs, ghosts
<1>9. ASSUME NEW t \in Threads, Write(t)
      PROVE  MinesInv'
  BY <1>9 DEF Write, Writable, FAt, FGoto, globals, refs, ghosts
<1>10. ASSUME NEW t \in Threads, WriteRest(t)
       PROVE  MinesInv'
  BY <1>10 DEF WriteRest, Writable, FAt, FGoto, Disk, Used, globals, ghosts
<1>11. ASSUME NEW t \in Threads, WriteLost(t)
       PROVE  MinesInv'
  BY <1>11 DEF WriteLost, Lost, FGoto, Finish, Disk, Used, globals, ghosts
<1>12. ASSUME NEW t \in Threads, WriteFails(t)
       PROVE  MinesInv'
  BY <1>12 DEF WriteFails, Writable, FGoto, Finish, Disk, Used, globals, ghosts
<1>13. ASSUME NEW t \in Threads, Take(t)
       PROVE  MinesInv'
  BY <1>13 DEF Take, FAt, FGoto, globals, disk, ghosts
<1>14. ASSUME NEW t \in Threads, LoadFiles(t)
       PROVE  MinesInv'
  BY <1>14 DEF LoadFiles, FAt, FGoto, Finish, Disk, Used, globals, ghosts
<1>15. ASSUME NEW t \in Threads, Done(t)
       PROVE  MinesInv'
  BY <1>15 DEF Done, FAt, FGoto, globals, disk, refs
<1>16. CASE UNCHANGED fileVars
  BY <1>16 DEF fileVars, globals, disk, refs, ghosts
<1> QED
  BY <1>1, <1>2, <1>3, <1>4, <1>5, <1>6, <1>7, <1>8,
     <1>9, <1>10, <1>11, <1>12, <1>13, <1>14, <1>15, <1>16 DEF FNext, FilesStep

LEMMA DoomedStep ==
  ASSUME FilesInv, FTypeOK', [FNext]_fileVars
  PROVE  DoomedInv'
<1> USE FilesAssumption
<1> USE DEF FilesInv, FTypeOK, MinesInv, DoomedInv, UnpublishedInv, GlobalInv, Writes, Replaces, FPC, Rebuilding, Contents
<1>1. ASSUME NEW t \in Threads, NEW m \in Materials, BeginFiles(t, m)
      PROVE  DoomedInv'
  BY <1>1 DEF BeginFiles, FAt, FGoto, globals, disk, refs
<1>2. ASSUME NEW t \in Threads, Check(t)
      PROVE  DoomedInv'
  BY <1>2 DEF Check, FAt, FGoto, globals, disk, refs
<1>3. ASSUME NEW t \in Threads, Clear(t)
      PROVE  DoomedInv'
  BY <1>3 DEF Clear, FAt, FGoto, globals, disk, ghosts
<1>4. ASSUME NEW t \in Threads, Remove(t)
      PROVE  DoomedInv'
  BY <1>4 DEF Remove, FAt, FGoto, globals, refs, ghosts
<1>5. ASSUME NEW t \in Threads, Make(t)
      PROVE  DoomedInv'
  BY <1>5 DEF Make, FAt, FGoto, globals, ghosts
<1>6. ASSUME NEW t \in Threads, MakeFails(t)
      PROVE  DoomedInv'
  BY <1>6 DEF MakeFails, FAt, FGoto, Finish, Disk, Used, globals, ghosts
<1>7. ASSUME NEW t \in Threads, Publish(t)
      PROVE  DoomedInv'
  BY <1>7 DEF Publish, FAt, FGoto, Disk, Used, ghosts
<1>8. ASSUME NEW t \in Threads, Name(t)
      PROVE  DoomedInv'
  BY <1>8 DEF Name, FAt, FGoto, disk, refs, ghosts
<1>9. ASSUME NEW t \in Threads, Write(t)
      PROVE  DoomedInv'
  BY <1>9 DEF Write, Writable, FAt, FGoto, globals, refs, ghosts
<1>10. ASSUME NEW t \in Threads, WriteRest(t)
       PROVE  DoomedInv'
  BY <1>10 DEF WriteRest, Writable, FAt, FGoto, Disk, Used, globals, ghosts
<1>11. ASSUME NEW t \in Threads, WriteLost(t)
       PROVE  DoomedInv'
  BY <1>11 DEF WriteLost, Lost, FGoto, Finish, Disk, Used, globals, ghosts
<1>12. ASSUME NEW t \in Threads, WriteFails(t)
       PROVE  DoomedInv'
  BY <1>12 DEF WriteFails, Writable, FGoto, Finish, Disk, Used, globals, ghosts
<1>13. ASSUME NEW t \in Threads, Take(t)
       PROVE  DoomedInv'
  BY <1>13 DEF Take, FAt, FGoto, globals, disk, ghosts
<1>14. ASSUME NEW t \in Threads, LoadFiles(t)
       PROVE  DoomedInv'
  BY <1>14 DEF LoadFiles, FAt, FGoto, Finish, Disk, Used, globals, ghosts
<1>15. ASSUME NEW t \in Threads, Done(t)
       PROVE  DoomedInv'
  BY <1>15 DEF Done, FAt, FGoto, globals, disk, refs
<1>16. CASE UNCHANGED fileVars
  BY <1>16 DEF fileVars, globals, disk, refs, ghosts
<1> QED
  BY <1>1, <1>2, <1>3, <1>4, <1>5, <1>6, <1>7, <1>8,
     <1>9, <1>10, <1>11, <1>12, <1>13, <1>14, <1>15, <1>16 DEF FNext, FilesStep

LEMMA UnpublishedStep ==
  ASSUME FilesInv, FTypeOK', [FNext]_fileVars
  PROVE  UnpublishedInv'
<1> USE FilesAssumption
<1> USE DEF FilesInv, FTypeOK, MinesInv, DoomedInv, UnpublishedInv, GlobalInv, Writes, Replaces, FPC, Rebuilding, Contents
<1>1. ASSUME NEW t \in Threads, NEW m \in Materials, BeginFiles(t, m)
      PROVE  UnpublishedInv'
  BY <1>1 DEF BeginFiles, FAt, FGoto, globals, disk, refs
<1>2. ASSUME NEW t \in Threads, Check(t)
      PROVE  UnpublishedInv'
  BY <1>2 DEF Check, FAt, FGoto, globals, disk, refs
<1>3. ASSUME NEW t \in Threads, Clear(t)
      PROVE  UnpublishedInv'
  BY <1>3 DEF Clear, FAt, FGoto, globals, disk, ghosts
<1>4. ASSUME NEW t \in Threads, Remove(t)
      PROVE  UnpublishedInv'
  BY <1>4 DEF Remove, FAt, FGoto, globals, refs, ghosts
<1>5. ASSUME NEW t \in Threads, Make(t)
      PROVE  UnpublishedInv'
  BY <1>5 DEF Make, FAt, FGoto, globals, ghosts
<1>6. ASSUME NEW t \in Threads, MakeFails(t)
      PROVE  UnpublishedInv'
  BY <1>6 DEF MakeFails, FAt, FGoto, Finish, Disk, Used, globals, ghosts
<1>7. ASSUME NEW t \in Threads, Publish(t)
      PROVE  UnpublishedInv'
  BY <1>7 DEF Publish, FAt, FGoto, Disk, Used, ghosts
<1>8. ASSUME NEW t \in Threads, Name(t)
      PROVE  UnpublishedInv'
  BY <1>8 DEF Name, FAt, FGoto, disk, refs, ghosts
<1>9. ASSUME NEW t \in Threads, Write(t)
      PROVE  UnpublishedInv'
  BY <1>9 DEF Write, Writable, FAt, FGoto, globals, refs, ghosts
<1>10. ASSUME NEW t \in Threads, WriteRest(t)
       PROVE  UnpublishedInv'
  BY <1>10 DEF WriteRest, Writable, FAt, FGoto, Disk, Used, globals, ghosts
<1>11. ASSUME NEW t \in Threads, WriteLost(t)
       PROVE  UnpublishedInv'
  BY <1>11 DEF WriteLost, Lost, FGoto, Finish, Disk, Used, globals, ghosts
<1>12. ASSUME NEW t \in Threads, WriteFails(t)
       PROVE  UnpublishedInv'
  BY <1>12 DEF WriteFails, Writable, FGoto, Finish, Disk, Used, globals, ghosts
<1>13. ASSUME NEW t \in Threads, Take(t)
       PROVE  UnpublishedInv'
  BY <1>13 DEF Take, FAt, FGoto, globals, disk, ghosts
<1>14. ASSUME NEW t \in Threads, LoadFiles(t)
       PROVE  UnpublishedInv'
  BY <1>14 DEF LoadFiles, FAt, FGoto, Finish, Disk, Used, globals, ghosts
<1>15. ASSUME NEW t \in Threads, Done(t)
       PROVE  UnpublishedInv'
  BY <1>15 DEF Done, FAt, FGoto, globals, disk, refs
<1>16. CASE UNCHANGED fileVars
  BY <1>16 DEF fileVars, globals, disk, refs, ghosts
<1> QED
  BY <1>1, <1>2, <1>3, <1>4, <1>5, <1>6, <1>7, <1>8,
     <1>9, <1>10, <1>11, <1>12, <1>13, <1>14, <1>15, <1>16 DEF FNext, FilesStep

LEMMA GlobalStep ==
  ASSUME FilesInv, FTypeOK', [FNext]_fileVars
  PROVE  GlobalInv'
<1> USE FilesAssumption
<1> USE DEF FilesInv, FTypeOK, MinesInv, DoomedInv, UnpublishedInv, GlobalInv, Writes, Replaces, FPC, Rebuilding, Contents
<1>1. ASSUME NEW t \in Threads, NEW m \in Materials, BeginFiles(t, m)
      PROVE  GlobalInv'
  BY <1>1 DEF BeginFiles, FAt, FGoto, globals, disk, refs
<1>2. ASSUME NEW t \in Threads, Check(t)
      PROVE  GlobalInv'
  BY <1>2 DEF Check, FAt, FGoto, globals, disk, refs
<1>3. ASSUME NEW t \in Threads, Clear(t)
      PROVE  GlobalInv'
  BY <1>3 DEF Clear, FAt, FGoto, globals, disk, ghosts
<1>4. ASSUME NEW t \in Threads, Remove(t)
      PROVE  GlobalInv'
  BY <1>4 DEF Remove, FAt, FGoto, globals, refs, ghosts
<1>5. ASSUME NEW t \in Threads, Make(t)
      PROVE  GlobalInv'
  BY <1>5 DEF Make, FAt, FGoto, globals, ghosts
<1>6. ASSUME NEW t \in Threads, MakeFails(t)
      PROVE  GlobalInv'
  BY <1>6 DEF MakeFails, FAt, FGoto, Finish, Disk, Used, globals, ghosts
<1>7. ASSUME NEW t \in Threads, Publish(t)
      PROVE  GlobalInv'
  BY <1>7 DEF Publish, FAt, FGoto, Disk, Used, ghosts
<1>8. ASSUME NEW t \in Threads, Name(t)
      PROVE  GlobalInv'
  BY <1>8 DEF Name, FAt, FGoto, disk, refs, ghosts
<1>9. ASSUME NEW t \in Threads, Write(t)
      PROVE  GlobalInv'
  BY <1>9 DEF Write, Writable, FAt, FGoto, globals, refs, ghosts
<1>10. ASSUME NEW t \in Threads, WriteRest(t)
       PROVE  GlobalInv'
  <2> SUFFICES ASSUME dir # None
               PROVE  GlobalInv'
    BY <1>10 DEF WriteRest, globals
  <2>1. /\ dir' = dir
        /\ dir \in Dirs
        /\ fpc[t] = "rest" /\ mine[t] \in Dirs
        /\ \A u \in Threads \ {t} : mine'[u] = mine[u] /\ fpc'[u] = fpc[u]
        /\ doomed' = doomed
    BY <1>10 DEF WriteRest, FAt, FGoto, globals
  <2>2. files'[dir] = IF mine[t] = dir /\ files[dir] = "some" THEN "all" ELSE files[dir]
    BY <1>10, <2>1 DEF WriteRest, Disk, Used
  <2>3. CASE files[dir] \in {"all", "spoiled"}
    BY <2>1, <2>2, <2>3
  <2>4. CASE \E u \in Threads : Replaces(u)
    BY <2>1, <2>2, <2>4
  <2>5. CASE \E u \in Threads : Writes(u)
    BY <2>1, <2>2, <2>5
  <2> QED
    BY <2>3, <2>4, <2>5
<1>11. ASSUME NEW t \in Threads, WriteLost(t)
       PROVE  GlobalInv'
  BY <1>11 DEF WriteLost, Lost, FGoto, Finish, Disk, Used, globals, ghosts
<1>12. ASSUME NEW t \in Threads, WriteFails(t)
       PROVE  GlobalInv'
  BY <1>12 DEF WriteFails, Writable, FGoto, Finish, Disk, Used, globals, ghosts
<1>13. ASSUME NEW t \in Threads, Take(t)
       PROVE  GlobalInv'
  BY <1>13 DEF Take, FAt, FGoto, globals, disk, ghosts
<1>14. ASSUME NEW t \in Threads, LoadFiles(t)
       PROVE  GlobalInv'
  BY <1>14 DEF LoadFiles, FAt, FGoto, Finish, Disk, Used, globals, ghosts
<1>15. ASSUME NEW t \in Threads, Done(t)
       PROVE  GlobalInv'
  BY <1>15 DEF Done, FAt, FGoto, globals, disk, refs
<1>16. CASE UNCHANGED fileVars
  BY <1>16 DEF fileVars, globals, disk, refs, ghosts
<1> QED
  BY <1>1, <1>2, <1>3, <1>4, <1>5, <1>6, <1>7, <1>8,
     <1>9, <1>10, <1>11, <1>12, <1>13, <1>14, <1>15, <1>16 DEF FNext, FilesStep

LEMMA FilesInduction == FSpec => []FilesInv
<1>1. FInit => FilesInv
  BY DEF FInit, FilesInv, FTypeOK, MinesInv, DoomedInv, UnpublishedInv, GlobalInv,
         FPC, Rebuilding, Contents
<1>2. FilesInv /\ [FNext]_fileVars => FilesInv'
  BY FTypeStep, MinesStep, DoomedStep, UnpublishedStep, GlobalStep DEF FilesInv
<1> QED
  BY <1>1, <1>2, PTL DEF FSpec

(* The process's globals, its threads and the disk have their types.       *)
THEOREM FilesTyped == FSpec => []FTypeOK
<1>1. FilesInv => FTypeOK
  BY DEF FilesInv
<1> QED
  BY <1>1, FilesInduction, PTL

(* However many threads race over the globals, for however many clusters:  *)
(* once none of them rebuilds, the globals name a directory that has its   *)
(* files, unless the disk failed.                                          *)
THEOREM MaterialSurvivesRaces == FSpec => []QuietMaterial
<1>1. FilesInv => QuietMaterial
  BY DEF FilesInv, GlobalInv, QuietMaterial, Writes, Replaces, Rebuilding
<1> QED
  BY <1>1, FilesInduction, PTL

-----------------------------------------------------------------------------
(* What a call has done, and whose material is on the disk.                *)
CallsInv == \A t \in Threads :
  /\ want[t] # None <=> fpc[t] # "idle"
  /\ want[t] # None => want[t] \in called
  /\ got[t] # None => fpc[t] = "loaded"

OfInv == \A d \in Dirs : files[d] # "none" => of[d] \in called

(* During a call that no other thread disturbs, the global stays.          *)
Lone(t) ==
  /\ \A u \in Threads \ {t} : fpc[u] \notin Rebuilding
  /\ fpc[t] \in {"name", "write", "rest"} => Writes(t)
  /\ fpc[t] \in {"take", "load"} => dir # None
  /\ fpc[t] = "load" => ca[t] = dir
  /\ fpc[t] = "loaded" =>
       \/ got[t] \in {"own", "oserror"}
       \/ called # {want[t]}
       \/ dir # None /\ files[dir] = "spoiled"

LoneInv == \A t \in Threads : fpc[t] # "idle" /\ ~ disturbed[t] => Lone(t)

CallInv == FilesInv /\ CallsInv /\ OfInv /\ LoneInv

(* Every step keeps what the calls have done.                              *)
LEMMA CallsStep ==
  ASSUME CallInv, FilesInv', [FNext]_fileVars
  PROVE  CallsInv'
<1> USE FilesAssumption, MaterialsAssumption
<1> USE DEF CallInv, FilesInv, FTypeOK, CallsInv
<1>1. ASSUME NEW t \in Threads, NEW m \in Materials, BeginFiles(t, m)
      PROVE  CallsInv'
  BY <1>1 DEF BeginFiles, FAt, FGoto, globals, disk, refs
<1>2. ASSUME NEW t \in Threads, Check(t)
      PROVE  CallsInv'
  BY <1>2 DEF Check, Stale, FAt, FGoto, globals, disk, refs
<1>3. ASSUME NEW t \in Threads, Clear(t)
      PROVE  CallsInv'
  BY <1>3 DEF Clear, FAt, FGoto, globals, disk, ghosts
<1>4. ASSUME NEW t \in Threads, Remove(t)
      PROVE  CallsInv'
  BY <1>4 DEF Remove, FAt, FGoto, globals, refs, ghosts
<1>5. ASSUME NEW t \in Threads, Make(t)
      PROVE  CallsInv'
  BY <1>5 DEF Make, FAt, FGoto, globals, ghosts
<1>6. ASSUME NEW t \in Threads, MakeFails(t)
      PROVE  CallsInv'
  BY <1>6 DEF MakeFails, FAt, FGoto, Finish, Disk, Used, globals, ghosts
<1>7. ASSUME NEW t \in Threads, Publish(t)
      PROVE  CallsInv'
  BY <1>7 DEF Publish, FAt, FGoto, Disk, Used, ghosts
<1>8. ASSUME NEW t \in Threads, Name(t)
      PROVE  CallsInv'
  BY <1>8 DEF Name, FAt, FGoto, disk, refs, ghosts
<1>9. ASSUME NEW t \in Threads, Write(t)
      PROVE  CallsInv'
  BY <1>9 DEF Write, Writable, FAt, FGoto, globals, refs, ghosts
<1>10. ASSUME NEW t \in Threads, WriteRest(t)
       PROVE  CallsInv'
  BY <1>10 DEF WriteRest, Writable, FAt, FGoto, Disk, Used, globals, ghosts
<1>11. ASSUME NEW t \in Threads, WriteLost(t)
       PROVE  CallsInv'
  BY <1>11 DEF WriteLost, Lost, FGoto, Finish, Disk, Used, globals, ghosts
<1>12. ASSUME NEW t \in Threads, WriteFails(t)
       PROVE  CallsInv'
  BY <1>12 DEF WriteFails, Writable, FGoto, Finish, Disk, Used, globals, ghosts
<1>13. ASSUME NEW t \in Threads, Take(t)
       PROVE  CallsInv'
  BY <1>13 DEF Take, FAt, FGoto, globals, disk, ghosts
<1>14. ASSUME NEW t \in Threads, LoadFiles(t)
       PROVE  CallsInv'
  BY <1>14 DEF LoadFiles, FAt, FGoto, Finish, Disk, Used, globals, ghosts
<1>15. ASSUME NEW t \in Threads, Done(t)
       PROVE  CallsInv'
  BY <1>15 DEF Done, FAt, FGoto, globals, disk, refs
<1>16. CASE UNCHANGED fileVars
  BY <1>16 DEF fileVars, globals, disk, refs, ghosts
<1> QED
  BY <1>1, <1>2, <1>3, <1>4, <1>5, <1>6, <1>7, <1>8,
     <1>9, <1>10, <1>11, <1>12, <1>13, <1>14, <1>15, <1>16 DEF FNext, FilesStep

(* A directory on the disk is a caller's.                                  *)
LEMMA OfStep ==
  ASSUME CallInv, FilesInv', [FNext]_fileVars
  PROVE  OfInv'
<1> USE FilesAssumption, MaterialsAssumption
<1> USE DEF CallInv, FilesInv, FTypeOK, CallsInv, OfInv, MinesInv, DoomedInv
<1>1. ASSUME NEW t \in Threads, NEW m \in Materials, BeginFiles(t, m)
      PROVE  OfInv'
  BY <1>1 DEF BeginFiles, FAt, FGoto, globals, disk, refs
<1>2. ASSUME NEW t \in Threads, Check(t)
      PROVE  OfInv'
  BY <1>2 DEF Check, Stale, FAt, FGoto, globals, disk, refs
<1>3. ASSUME NEW t \in Threads, Clear(t)
      PROVE  OfInv'
  BY <1>3 DEF Clear, FAt, FGoto, globals, disk, ghosts
<1>4. ASSUME NEW t \in Threads, Remove(t)
      PROVE  OfInv'
  BY <1>4 DEF Remove, FAt, FGoto, globals, refs, ghosts
<1>5. ASSUME NEW t \in Threads, Make(t)
      PROVE  OfInv'
  BY <1>5 DEF Make, FAt, FGoto, globals, ghosts
<1>6. ASSUME NEW t \in Threads, MakeFails(t)
      PROVE  OfInv'
  BY <1>6 DEF MakeFails, FAt, FGoto, Finish, Disk, Used, globals, ghosts
<1>7. ASSUME NEW t \in Threads, Publish(t)
      PROVE  OfInv'
  BY <1>7 DEF Publish, FAt, FGoto, Disk, Used, ghosts
<1>8. ASSUME NEW t \in Threads, Name(t)
      PROVE  OfInv'
  BY <1>8 DEF Name, FAt, FGoto, disk, refs, ghosts
<1>9. ASSUME NEW t \in Threads, Write(t)
      PROVE  OfInv'
  BY <1>9 DEF Write, Writable, FAt, FGoto, globals, refs, ghosts
<1>10. ASSUME NEW t \in Threads, WriteRest(t)
       PROVE  OfInv'
  BY <1>10 DEF WriteRest, Writable, FAt, FGoto, Disk, Used, globals, ghosts
<1>11. ASSUME NEW t \in Threads, WriteLost(t)
       PROVE  OfInv'
  BY <1>11 DEF WriteLost, Lost, FGoto, Finish, Disk, Used, globals, ghosts
<1>12. ASSUME NEW t \in Threads, WriteFails(t)
       PROVE  OfInv'
  BY <1>12 DEF WriteFails, Writable, FGoto, Finish, Disk, Used, globals, ghosts
<1>13. ASSUME NEW t \in Threads, Take(t)
       PROVE  OfInv'
  BY <1>13 DEF Take, FAt, FGoto, globals, disk, ghosts
<1>14. ASSUME NEW t \in Threads, LoadFiles(t)
       PROVE  OfInv'
  BY <1>14 DEF LoadFiles, FAt, FGoto, Finish, Disk, Used, globals, ghosts
<1>15. ASSUME NEW t \in Threads, Done(t)
       PROVE  OfInv'
  BY <1>15 DEF Done, FAt, FGoto, globals, disk, refs
<1>16. CASE UNCHANGED fileVars
  BY <1>16 DEF fileVars, globals, disk, refs, ghosts
<1> QED
  BY <1>1, <1>2, <1>3, <1>4, <1>5, <1>6, <1>7, <1>8,
     <1>9, <1>10, <1>11, <1>12, <1>13, <1>14, <1>15, <1>16 DEF FNext, FilesStep

(* Another thread's step leaves an undisturbed call alone.                 *)
LEMMA LoneStep ==
  ASSUME CallInv, FilesInv', [FNext]_fileVars
  PROVE  LoneInv'
<1> USE FilesAssumption, MaterialsAssumption
<1> USE DEF CallInv, FilesInv, FTypeOK, CallsInv, OfInv, MinesInv, DoomedInv, UnpublishedInv, GlobalInv, LoneInv, Lone, Writes, Replaces, Rebuilding
<1>1. ASSUME NEW t \in Threads, NEW m \in Materials, BeginFiles(t, m)
      PROVE  LoneInv'
  BY <1>1 DEF BeginFiles, FAt, FGoto, globals, disk, refs
<1>2. ASSUME NEW t \in Threads, Check(t)
      PROVE  LoneInv'
  BY <1>2 DEF Check, Stale, FAt, FGoto, globals, disk, refs
<1>3. ASSUME NEW t \in Threads, Clear(t)
      PROVE  LoneInv'
  BY <1>3 DEF Clear, FAt, FGoto, globals, disk, ghosts
<1>4. ASSUME NEW t \in Threads, Remove(t)
      PROVE  LoneInv'
  BY <1>4 DEF Remove, FAt, FGoto, globals, refs, ghosts
<1>5. ASSUME NEW t \in Threads, Make(t)
      PROVE  LoneInv'
  BY <1>5 DEF Make, FAt, FGoto, globals, ghosts
<1>6. ASSUME NEW t \in Threads, MakeFails(t)
      PROVE  LoneInv'
  BY <1>6 DEF MakeFails, FAt, FGoto, Finish, Disk, Used, globals, ghosts
<1>7. ASSUME NEW t \in Threads, Publish(t)
      PROVE  LoneInv'
  BY <1>7 DEF Publish, FAt, FGoto, Disk, Used, ghosts
<1>8. ASSUME NEW t \in Threads, Name(t)
      PROVE  LoneInv'
  BY <1>8 DEF Name, FAt, FGoto, disk, refs, ghosts
<1>9. ASSUME NEW t \in Threads, Write(t)
      PROVE  LoneInv'
  BY <1>9 DEF Write, Writable, FAt, FGoto, globals, refs, ghosts
<1>10. ASSUME NEW t \in Threads, WriteRest(t)
       PROVE  LoneInv'
  BY <1>10 DEF WriteRest, Writable, FAt, FGoto, Disk, Used, globals, ghosts
<1>11. ASSUME NEW t \in Threads, WriteLost(t)
       PROVE  LoneInv'
  BY <1>11 DEF WriteLost, Lost, FGoto, Finish, Disk, Used, globals, ghosts
<1>12. ASSUME NEW t \in Threads, WriteFails(t)
       PROVE  LoneInv'
  BY <1>12 DEF WriteFails, Writable, FGoto, Finish, Disk, Used, globals, ghosts
<1>13. ASSUME NEW t \in Threads, Take(t)
       PROVE  LoneInv'
  BY <1>13 DEF Take, FAt, FGoto, globals, disk, ghosts
<1>14. ASSUME NEW t \in Threads, LoadFiles(t)
       PROVE  LoneInv'
  <2>1. ~ disturbed[t] /\ called = {want[t]} /\ files[dir] # "spoiled"
          => Loaded(t) = "own"
    BY <1>14 DEF LoadFiles, Loaded, FAt
  <2> QED
    BY <1>14, <2>1 DEF LoadFiles, FAt, FGoto, Finish, Disk, Used, globals, ghosts
<1>15. ASSUME NEW t \in Threads, Done(t)
       PROVE  LoneInv'
  BY <1>15 DEF Done, FAt, FGoto, globals, disk, refs
<1>16. CASE UNCHANGED fileVars
  BY <1>16 DEF fileVars, globals, disk, refs, ghosts
<1> QED
  BY <1>1, <1>2, <1>3, <1>4, <1>5, <1>6, <1>7, <1>8,
     <1>9, <1>10, <1>11, <1>12, <1>13, <1>14, <1>15, <1>16 DEF FNext, FilesStep

LEMMA CallInduction == FSpec => []CallInv
<1>1. FInit => CallsInv /\ OfInv /\ LoneInv
  BY DEF FInit, CallsInv, OfInv, LoneInv
<1>2. CallInv /\ FilesInv' /\ [FNext]_fileVars => CallInv'
  BY CallsStep, OfStep, LoneStep DEF CallInv
<1>3. FilesInv /\ CallsInv /\ OfInv /\ LoneInv => CallInv
  BY DEF CallInv
<1> QED
  BY <1>1, <1>2, <1>3, FilesInduction, PTL DEF FSpec

(* However many threads a process has: a call that no other thread's       *)
(* rebuilding overlaps loads its own cluster's files, if the process serves*)
(* one cluster and the disk did not fail.                                  *)
THEOREM LoneCallLoadsOwn == FSpec => []LoneCall
<1>1. CallInv => LoneCall
  BY DEF CallInv, CallsInv, LoneInv, Lone, LoneCall
<1> QED
  BY <1>1, CallInduction, PTL
=============================================================================
