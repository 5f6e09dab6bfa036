----------------------------- MODULE MtlsFiles ------------------------------
(***************************************************************************)
(* httpx_log_fetch_kwargs (worker_http.py): the threads of one process     *)
(* share one directory with the client's certificate files, named by two   *)
(* globals that no lock protects.  A thread whose cluster has other        *)
(* material than the directory removes it and makes a new one; the globals *)
(* are set before the files are written.                                   *)
(***************************************************************************)
EXTENDS MtlsConfig

CONSTANTS Threads,  \* of the process, that ask replicas
          Dirs      \* bound: temporary directories in use at a time

ASSUME FilesAssumption == None \notin Dirs

VARIABLES
  dir,       \* _mtls_log_dir
  key,       \* _mtls_log_key: the material whose fingerprint it is
  of,        \* whose material each directory is for
  files,     \* what is in it
  fpc,       \* where each thread is
  want,      \* the material it was called with
  doomed,    \* the directory it removes
  mine,      \* the directory it makes
  ca,        \* the directory of the CA file it returns
  got,       \* what it loads
  called,    \* materials of all calls so far
  disturbed  \* another thread was rebuilding at some time of its call

globals == <<dir, key>>
disk    == <<of, files>>
refs    == <<doomed, mine, ca>>
ghosts  == <<called, disturbed>>
fileVars == <<globals, disk, fpc, want, refs, got, ghosts>>

Rebuilding == {"clear", "remove", "make", "publish", "name", "write", "rest"}
FPC == {"idle", "check", "take", "load", "loaded"} \cup Rebuilding
Outcomes == {"own", "foreign", "broken", "error", "oserror"}

(* "torn": files are missing and stay so; "spoiled": for want of disk.     *)
Contents == {"none", "empty", "some", "all", "torn", "gone", "spoiled"}

FTypeOK ==
  /\ dir \in Dirs \cup {None}
  /\ key \in Materials \cup {None}
  /\ of \in [Dirs -> Materials \cup {None}]
  /\ files \in [Dirs -> Contents]
  /\ fpc \in [Threads -> FPC]
  /\ want \in [Threads -> Materials \cup {None}]
  /\ doomed \in [Threads -> Dirs \cup {None}]
  /\ mine \in [Threads -> Dirs \cup {None}]
  /\ ca \in [Threads -> Dirs \cup {None}]
  /\ got \in [Threads -> Outcomes \cup {None}]
  /\ called \subseteq Materials
  /\ disturbed \in [Threads -> BOOLEAN]

FInit ==
  /\ dir = None
  /\ key = None
  /\ of = [d \in Dirs |-> None]
  /\ files = [d \in Dirs |-> "none"]
  /\ fpc = [t \in Threads |-> "idle"]
  /\ want = [t \in Threads |-> None]
  /\ doomed = [t \in Threads |-> None]
  /\ mine = [t \in Threads |-> None]
  /\ ca = [t \in Threads |-> None]
  /\ got = [t \in Threads |-> None]
  /\ called = {}
  /\ disturbed = [t \in Threads |-> FALSE]

-----------------------------------------------------------------------------
FAt(t, where) == fpc[t] = where
FGoto(t, where) == fpc' = [fpc EXCEPT ![t] = where]

(* A directory that nothing refers to any more waits for atexit, if it is  *)
(* still there; its name stands for a new one from then on.                *)
Used(d) == d = dir \/ \E o \in Threads : d \in {doomed[o], mine[o], ca[o]}
Disk(contents) ==
  /\ files' = [d \in Dirs |-> IF Used(d)' THEN contents[d] ELSE "none"]
  /\ of' = [d \in Dirs |-> IF Used(d)' THEN of[d] ELSE None]

(* The thread is done with the files: with an exception, or after the      *)
(* client has loaded them.                                                 *)
Finish(t, outcome) ==
  /\ FGoto(t, "loaded")
  /\ got' = [got EXCEPT ![t] = outcome]
  /\ doomed' = [doomed EXCEPT ![t] = None]
  /\ mine' = [mine EXCEPT ![t] = None]
  /\ ca' = [ca EXCEPT ![t] = None]
  /\ UNCHANGED <<globals, want, ghosts>>

BeginFiles(t, m) ==
  /\ FAt(t, "idle")
  /\ FGoto(t, "check")
  /\ want' = [want EXCEPT ![t] = m]
  /\ called' = called \cup {m}
  /\ disturbed' = [disturbed EXCEPT
       ![t] = \E o \in Threads \ {t} : fpc[o] \in Rebuilding]
  /\ UNCHANGED <<globals, disk, refs, got>>

Stale(t) == dir = None \/ key # want[t]

Check(t) ==
  /\ FAt(t, "check")
  /\ IF Stale(t)
     THEN /\ FGoto(t, "clear")
          /\ disturbed' = [o \in Threads |-> disturbed[o] \/ (o # t /\ fpc[o] # "idle")]
     ELSE FGoto(t, "take") /\ UNCHANGED disturbed
  /\ UNCHANGED <<globals, disk, want, refs, got, called>>

(* The global is read again; it names a directory once it has named one.   *)
Clear(t) ==
  /\ FAt(t, "clear")
  /\ doomed' = [doomed EXCEPT ![t] = dir]
  /\ FGoto(t, IF dir = None THEN "make" ELSE "remove")
  /\ UNCHANGED <<globals, disk, want, mine, ca, got, ghosts>>

(* rmtree(ignore_errors=True): a file written while it runs stays behind.  *)
Remove(t) ==
  /\ FAt(t, "remove")
  /\ \E left \in IF files[doomed[t]] \in {"empty", "some", "torn"}
                 THEN {"gone", "torn"} ELSE {"gone"} :
       files' = [files EXCEPT ![doomed[t]] = left]
  /\ FGoto(t, "make")
  /\ UNCHANGED <<globals, of, want, refs, got, ghosts>>

Make(t) ==
  /\ FAt(t, "make")
  /\ \E d \in Dirs :
       /\ files[d] = "none"
       /\ d = CHOOSE x \in Dirs : files[x] = "none"
       /\ mine' = [mine EXCEPT ![t] = d]
       /\ of' = [of EXCEPT ![d] = want[t]]
       /\ files' = [files EXCEPT ![d] = "empty"]
  /\ FGoto(t, "publish")
  /\ UNCHANGED <<globals, want, doomed, ca, got, ghosts>>

(* The globals still name the directory it has removed.                    *)
MakeFails(t) ==
  /\ FAt(t, "make")
  /\ Finish(t, "oserror")
  /\ Disk([d \in Dirs |-> IF d = doomed[t] THEN "spoiled" ELSE files[d]])

MutPublish(t) ==
  /\ FAt(t, "publish")
  /\ dir' = IF dir = None THEN mine[t] ELSE dir
  /\ doomed' = [doomed EXCEPT ![t] = None]
  /\ FGoto(t, "name")
  /\ UNCHANGED <<key, want, mine, ca, got, ghosts>>
  /\ Disk(files)

Publish(t) ==
  /\ FAt(t, "publish")
  /\ dir' = mine[t]
  /\ doomed' = [doomed EXCEPT ![t] = None]
  /\ FGoto(t, "name")
  /\ UNCHANGED <<key, want, mine, ca, got, ghosts>>
  /\ Disk(files)

Name(t) ==
  /\ FAt(t, "name")
  /\ key' = want[t]
  /\ FGoto(t, "write")
  /\ UNCHANGED <<dir, disk, want, refs, got, ghosts>>

(* FileNotFoundError, if another thread has removed the directory whole; it*)
(* may be left, spoiled, if that thread could not make its own.            *)
Lost(t) == files[mine[t]] \in {"gone", "spoiled"}
Writable(t) == files[mine[t]] # "gone"

Write(t) ==
  /\ FAt(t, "write")
  /\ Writable(t)
  /\ files' = [files EXCEPT ![mine[t]] = IF @ = "empty" THEN "some" ELSE @]
  /\ FGoto(t, "rest")
  /\ UNCHANGED <<globals, of, want, refs, got, ghosts>>

MutWriteRest(t) ==
  /\ FAt(t, "rest")
  /\ Writable(t)
  /\ mine' = [mine EXCEPT ![t] = None]
  /\ FGoto(t, "take")
  /\ UNCHANGED <<globals, want, doomed, ca, got, ghosts>>
  /\ Disk(files)

WriteRest(t) ==
  /\ FAt(t, "rest")
  /\ Writable(t)
  /\ mine' = [mine EXCEPT ![t] = None]
  /\ FGoto(t, "take")
  /\ UNCHANGED <<globals, want, doomed, ca, got, ghosts>>
  /\ Disk([files EXCEPT ![mine[t]] = IF @ = "some" THEN "all" ELSE @])

WriteLost(t) ==
  /\ fpc[t] \in {"write", "rest"}
  /\ Lost(t)
  /\ Finish(t, "error")
  /\ Disk(files)

(* A full disk: the globals call the directory good all the same.          *)
WriteFails(t) ==
  /\ fpc[t] \in {"write", "rest"}
  /\ Writable(t)
  /\ Finish(t, "oserror")
  /\ Disk([files EXCEPT ![mine[t]] = "spoiled"])

(* The global is read for the CA file, and again for the certificate; the  *)
(* files are opened when the client is made.                               *)
Take(t) ==
  /\ FAt(t, "take")
  /\ ca' = [ca EXCEPT ![t] = dir]
  /\ FGoto(t, "load")
  /\ UNCHANGED <<globals, disk, want, doomed, mine, got, ghosts>>

Loaded(t) ==
  LET used == {ca[t], dir}
  IN  CASE \E d \in used : files[d] # "all" -> "broken"
        [] \A d \in used : files[d] = "all" /\ of[d] = want[t] -> "own"
        [] OTHER -> "foreign"

LoadFiles(t) ==
  /\ FAt(t, "load")
  /\ Finish(t, Loaded(t))
  /\ Disk(files)

Done(t) ==
  /\ FAt(t, "loaded")
  /\ FGoto(t, "idle")
  /\ got' = [got EXCEPT ![t] = None]
  /\ want' = [want EXCEPT ![t] = None]
  /\ disturbed' = [disturbed EXCEPT ![t] = FALSE]
  /\ UNCHANGED <<globals, disk, refs, called>>

FilesStep(t) ==
  \/ Check(t) \/ Clear(t) \/ Remove(t) \/ Make(t) \/ MakeFails(t)
  \/ Publish(t) \/ Name(t) \/ Write(t) \/ WriteRest(t) \/ WriteLost(t) \/ WriteFails(t)
  \/ Take(t) \/ LoadFiles(t)

FNext == \E t \in Threads :
  FilesStep(t) \/ Done(t) \/ \E m \in Materials : BeginFiles(t, m)

FSpec == FInit /\ [][FNext]_fileVars

-----------------------------------------------------------------------------
(* Threads that race over the globals remove each other's directories, but *)
(* when none of them is at it, the globals name a directory with all its   *)
(* files, unless the disk failed: a race never leaves a process without    *)
(* material.                                                               *)
QuietMaterial ==
  /\ dir # None
  /\ \A t \in Threads : fpc[t] \notin Rebuilding
  => files[dir] \in {"all", "spoiled"}

(* A process that serves one cluster never loads missing or other material *)
(* in a call during which no other thread rebuilds, unless the disk failed.*)
LoneCall == \A t \in Threads :
  /\ got[t] # None
  /\ called = {want[t]}
  /\ ~ disturbed[t]
  => got[t] \in {"own", "oserror"} \/ files[dir] = "spoiled"
=============================================================================
