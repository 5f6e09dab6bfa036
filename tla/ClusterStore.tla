---------------------------- MODULE ClusterStore ----------------------------
(***************************************************************************)
(* The rows quickpod keeps about ONE cluster (cluster_store.py) and what   *)
(* each store function makes of them.  A session commits or rolls back as  *)
(* a whole, so a function is one operator from store to store.             *)
(*                                                                         *)
(* The two supported databases differ in one thing the rest of the program *)
(* feels: PostgreSQL enforces the foreign keys to `clusters', SQLite (used *)
(* without PRAGMA foreign_keys) does not.                                  *)
(***************************************************************************)
CONSTANTS Pods,        \* the pod ids RunPod may hand out
          Pids,        \* the process ids of serve daemons
          None,        \* no pod, no process, no row
          Backend      \* "sqlite" (the default database) or "postgres"

ASSUME BackendAssumption == Backend \in {"sqlite", "postgres"}
ASSUME NoneAssumption == None \notin Pods \cup Pids

ForeignKeys == Backend = "postgres"

StoreType == [cluster  : BOOLEAN,            \* the row of `clusters'
              launches : SUBSET Pods,        \* rows of `pod_launches'
              daemon   : Pids \cup {None},  \* the row of `serve_daemons'
              prefs    : BOOLEAN]            \* the row of `serve_launch_prefs'

EmptyStore == [cluster |-> FALSE, launches |-> {}, daemon |-> None, prefs |-> FALSE]

(* An INSERT into a table that refers to `clusters' is refused (it raises) *)
(* when the database enforces the key and the cluster has no row.          *)
AcceptsChild(s) == ForeignKeys => s.cluster

UpsertClusterTouch(s) == [s EXCEPT !.cluster = TRUE]

RecordPodLaunch(s, d) ==
  IF AcceptsChild(s) THEN [s EXCEPT !.launches = @ \cup {d}] ELSE s

RegisterServeDaemon(s, pid) ==
  IF AcceptsChild(s) THEN [s EXCEPT !.daemon = pid] ELSE s

DeleteServeDaemon(s) == [s EXCEPT !.daemon = None]

UpsertServeLaunchPrefs(s) ==
  IF AcceptsChild(s) THEN [s EXCEPT !.prefs = TRUE] ELSE s

(* The ORM cascades to pod_launches alone; serve_daemons and               *)
(* serve_launch_prefs go only where the database enforces ON DELETE.       *)
DeleteClusterRecord(s) ==
  IF ~ s.cluster THEN s
  ELSE [cluster  |-> FALSE,
        launches |-> {},
        daemon   |-> IF ForeignKeys THEN None ELSE s.daemon,
        prefs    |-> IF ForeignKeys THEN FALSE ELSE s.prefs]
=============================================================================
