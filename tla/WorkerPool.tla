----------------------------- MODULE WorkerPool -----------------------------
(***************************************************************************)
(* worker_pool.py and its two callers in web_app.py: a /v1 request picks   *)
(* the worker it is forwarded to, and the dashboard says whether there is  *)
(* one.  Both read and fill one cache of verdicts, "may this worker take   *)
(* traffic", which come from the workers' own /quickpod/status.            *)
(*                                                                         *)
(* Dashboards run in a thread pool.  _proxy_v1 runs on the event loop and  *)
(* does not await until it has picked, so proxies take turns in listing;   *)
(* a dashboard interleaves with them call by call.                         *)
(***************************************************************************)
EXTENDS Naturals, FiniteSets

CONSTANTS NumWorkers,  \* pods RunPod may list, in the order of its listings
          Proxies,     \* handlers of /v1 requests
          Dashboards,  \* handlers of dashboard requests
          TTL,         \* LB_STATUS_TTL_SEC
          None,
          MaxClock,    \* bound: the time
          MaxPicks,    \* bound: picks of the ring
          MaxChanges   \* bound: changes of pods and of their status

Workers == 1 .. NumWorkers
Requests == Proxies \cup Dashboards

ASSUME WorkerPoolAssumption ==
  /\ NumWorkers \in Nat
  /\ TTL \in Nat
  /\ MaxClock \in Nat
  /\ MaxPicks \in Nat
  /\ MaxChanges \in Nat
  /\ None \notin Workers
  /\ Proxies \cap Dashboards = {}

VARIABLES
  clock,    \* time.monotonic(); it starts late enough for 0 to mean never
  view,     \* RunPod's listing of a pod
  status,   \* what the pod's monitor says of itself
  okAt,     \* when there was last a reason to route to the worker, and
  badAt,    \* when there was last one not to
  changes,  \* see MaxChanges
  cache,    \* _LB_STATUS_CACHE
  ring,     \* WorkerRing._i
  tally,    \* picks of each worker since the list of bases last changed
  bases,    \* that list
  rpc,      \* where each handler is
  now,      \* its `now'
  seen,     \* RUNNING pods with a mapped port in its lb_ready_worker_bases
  todo,     \* those it has still to judge
  elig,     \* those it judged eligible
  got,      \* the verdict just fetched
  running,  \* worker_base_urls gave it an endpoint
  target    \* the worker it picked

outside == <<clock, view, status, changes>>
ghosts  == <<okAt, badAt>>
turns   == <<ring, tally, bases>>
handler == <<now, seen, todo, elig, got, running, target>>
vars == <<outside, ghosts, cache, turns, rpc, handler>>

(* absent: not listed or not RUNNING; noport: RUNNING, its ports not yet   *)
(* in the listing; up: RUNNING with a mapped worker_api_port               *)
View == {"absent", "noport", "up"}
Status == {"setting_up", "unhealthy", "healthy"}
Ended == {"idle", "answered", "bad_gateway", "no_healthy", "no_running", "ready",
          "failed"}
OnLoop == {"lb", "lb2", "check", "fetch", "store", "pick", "run", "run2"}
Stage == OnLoop \cup {"forward"} \cup Ended

PoolTypeOK ==
  /\ clock \in Nat
  /\ view \in [Workers -> View]
  /\ status \in [Workers -> Status]
  /\ okAt \in [Workers -> Nat]
  /\ badAt \in [Workers -> Nat]
  /\ changes \in Nat
  /\ cache \in [Workers -> [ok : BOOLEAN, ts : Nat] \cup {None}]
  /\ ring \in Nat
  /\ tally \in [Workers -> Nat]
  /\ bases \in SUBSET Workers
  /\ rpc \in [Requests -> Stage]
  /\ now \in [Requests -> Nat]
  /\ seen \in [Requests -> SUBSET Workers]
  /\ todo \in [Requests -> SUBSET Workers]
  /\ elig \in [Requests -> SUBSET Workers]
  /\ got \in [Requests -> BOOLEAN]
  /\ running \in [Requests -> BOOLEAN]
WTypeOK == PoolTypeOK /\ target \in [Requests -> Workers \cup {None}]

(* _quickpod_status_allows_traffic, of a status that could be read; one    *)
(* that could not be read allows traffic.                                  *)
Allows(st) == st \notin {"unhealthy", "setting_up"}

(* The handlers start while pods run already.                              *)
Init ==
  /\ clock = TTL + 1
  /\ view \in [Workers -> View]
  /\ status \in [Workers -> Status]
  /\ okAt = [w \in Workers |-> IF Allows(status[w]) THEN clock ELSE 0]
  /\ badAt = [w \in Workers |-> IF Allows(status[w]) THEN 0 ELSE clock]
  /\ changes = 0
  /\ cache = [w \in Workers |-> None]
  /\ ring = 0
  /\ tally = [w \in Workers |-> 0]
  /\ bases = {}
  /\ rpc = [r \in Requests |-> "idle"]
  /\ now = [r \in Requests |-> 0]
  /\ seen = [r \in Requests |-> {}]
  /\ todo = [r \in Requests |-> {}]
  /\ elig = [r \in Requests |-> {}]
  /\ got = [r \in Requests |-> FALSE]
  /\ running = [r \in Requests |-> FALSE]
  /\ target = [r \in Requests |-> None]

-----------------------------------------------------------------------------
Up == {w \in Workers : view[w] = "up"}
Running == {w \in Workers : view[w] # "absent"}

Goto(r, where) == rpc' = [rpc EXCEPT ![r] = where]

(* The event loop runs one handler up to its next await.                   *)
LoopFree(r) == r \in Proxies => \A q \in Proxies : rpc[q] \notin OnLoop

Begin(r) ==
  /\ rpc[r] \in Ended
  /\ LoopFree(r)
  /\ Goto(r, IF r \in Proxies THEN "lb" ELSE "run")
  /\ UNCHANGED <<outside, ghosts, cache, turns, handler>>

(* The locals of a handler end with it.                                    *)
Finish(r, how) ==
  /\ Goto(r, how)
  /\ now' = [now EXCEPT ![r] = 0]
  /\ seen' = [seen EXCEPT ![r] = {}]
  /\ todo' = [todo EXCEPT ![r] = {}]
  /\ elig' = [elig EXCEPT ![r] = {}]
  /\ got' = [got EXCEPT ![r] = FALSE]
  /\ running' = [running EXCEPT ![r] = FALSE]
  /\ target' = [target EXCEPT ![r] = None]

(* RUNNING pods, and none has a mapped port: look again, once.             *)
LookAgain == Up = {} /\ Running # {}

(* lb_ready_worker_bases takes the time once, when it has its list.        *)
Listed(r, listed) ==
  /\ seen' = [seen EXCEPT ![r] = listed]
  /\ todo' = [todo EXCEPT ![r] = listed]
  /\ now' = [now EXCEPT ![r] = clock]
  /\ Goto(r, "check")
  /\ UNCHANGED <<outside, ghosts, cache, turns, elig, got, running, target>>

LbList(r) ==
  /\ rpc[r] = "lb"
  /\ IF LookAgain
     THEN Goto(r, "lb2") /\ UNCHANGED <<outside, ghosts, cache, turns, handler>>
     ELSE Listed(r, Up)

(* The second listing is not repeated when RunPod answers it with nothing. *)
LbListAgain(r) ==
  /\ rpc[r] = "lb2"
  /\ Listed(r, Up) \/ Listed(r, {})

(* _cached_lb_ok: neither missing nor older than the TTL                   *)
Cached(r, w) == cache[w] # None /\ now[r] <= cache[w].ts + TTL

Judged(r, w, ok) ==
  /\ todo' = [todo EXCEPT ![r] = @ \ {w}]
  /\ elig' = [elig EXCEPT ![r] = IF ok THEN @ \cup {w} ELSE @]

NextUp(r, w) == \A v \in todo[r] : w <= v

Hit(r, w) ==
  /\ rpc[r] = "check"
  /\ w \in todo[r] /\ NextUp(r, w)
  /\ Cached(r, w)
  /\ Judged(r, w, cache[w].ok)
  /\ UNCHANGED <<outside, ghosts, cache, turns, rpc, now, seen, got, running, target>>

Miss(r, w) ==
  /\ rpc[r] = "check"
  /\ w \in todo[r] /\ NextUp(r, w)
  /\ ~ Cached(r, w)
  /\ Goto(r, "fetch")
  /\ UNCHANGED <<outside, ghosts, cache, turns, handler>>

(* The worker's monitor answers ...                                        *)
Fetch(r, w) ==
  /\ rpc[r] = "fetch"
  /\ w \in todo[r] /\ NextUp(r, w)
  /\ got' = [got EXCEPT ![r] = Allows(status[w])]
  /\ Goto(r, "store")
  /\ UNCHANGED <<outside, ghosts, cache, turns, now, seen, todo, elig, running, target>>

(* ... or cannot be reached, which is a reason to route to it.             *)
FetchFails(r, w) ==
  /\ rpc[r] = "fetch"
  /\ w \in todo[r] /\ NextUp(r, w)
  /\ got' = [got EXCEPT ![r] = TRUE]
  /\ okAt' = [okAt EXCEPT ![w] = clock]
  /\ Goto(r, "store")
  /\ UNCHANGED <<outside, badAt, cache, turns, now, seen, todo, elig, running, target>>

MutStore(r, w) ==
  /\ rpc[r] = "store"
  /\ w \in todo[r] /\ NextUp(r, w)
  /\ cache' = [cache EXCEPT ![w] = [ok |-> got[r], ts |-> clock]]
  /\ Judged(r, w, got[r])
  /\ Goto(r, "check")
  /\ UNCHANGED <<outside, ghosts, turns, now, seen, got, running, target>>
(* _store_lb_ok, with the time the handler took before it fetched          *)
Store(r, w) ==
  /\ rpc[r] = "store"
  /\ w \in todo[r] /\ NextUp(r, w)
  /\ cache' = [cache EXCEPT ![w] = [ok |-> got[r], ts |-> now[r]]]
  /\ Judged(r, w, got[r])
  /\ Goto(r, "check")
  /\ UNCHANGED <<outside, ghosts, turns, now, seen, got, running, target>>

ProxyJudged(r) ==
  /\ rpc[r] = "check" /\ todo[r] = {}
  /\ r \in Proxies
  /\ Goto(r, IF elig[r] = {} THEN "run" ELSE "pick")
  /\ UNCHANGED <<outside, ghosts, cache, turns, handler>>

(* _snapshot's proxy_unavailable_reason                                    *)
DashboardJudged(r) ==
  /\ rpc[r] = "check" /\ todo[r] = {}
  /\ r \in Dashboards
  /\ Finish(r, IF elig[r] # {} THEN "ready"
                ELSE IF running[r] THEN "no_healthy" ELSE "no_running")
  /\ UNCHANGED <<outside, ghosts, cache, turns>>

MutNth(S, k) == k
(* bases[k]: the one with k others before it                               *)
Nth(S, k) == CHOOSE w \in S : Cardinality({v \in S : v < w}) = k

(* self._i += 1, under the ring's lock                                     *)
Turn == ring' = ring + 1

Pick(r) ==
  /\ rpc[r] = "pick"
  /\ ring < MaxPicks
  /\ LET choice == Nth(elig[r], ring % Cardinality(elig[r]))
         before == IF elig[r] = bases THEN tally ELSE [w \in Workers |-> 0]
     IN  /\ target' = [target EXCEPT ![r] = choice]
         /\ tally' = [before EXCEPT ![choice] = @ + 1]
  /\ bases' = elig[r]
  /\ Turn
  /\ Goto(r, "forward")
  /\ UNCHANGED <<outside, ghosts, cache, now, seen, todo, elig, got, running>>

(* The upstream answers, or httpx raises a RequestError.                   *)
Forward(r) ==
  /\ rpc[r] = "forward"
  /\ LoopFree(r)
  /\ \E how \in {"answered", "bad_gateway"} : Finish(r, how)
  /\ UNCHANGED <<outside, ghosts, cache, turns>>

(* worker_base_urls: the dashboard asks first, the proxy when it has nobody*)
RunListed(r, listed) ==
  /\ IF r \in Proxies
     THEN Finish(r, IF listed # {} THEN "no_healthy" ELSE "no_running")
     ELSE /\ running' = [running EXCEPT ![r] = listed # {}]
          /\ Goto(r, "lb")
          /\ UNCHANGED <<now, seen, todo, elig, got, target>>
  /\ UNCHANGED <<outside, ghosts, cache, turns>>

RunList(r) ==
  /\ rpc[r] = "run"
  /\ IF LookAgain
     THEN Goto(r, "run2") /\ UNCHANGED <<outside, ghosts, cache, turns, handler>>
     ELSE RunListed(r, Up)

RunListAgain(r) ==
  /\ rpc[r] = "run2"
  /\ RunListed(r, Up) \/ RunListed(r, {})

(* RunPod's API raises, here or (a pod is listed again when its monitor has*)
(* no endpoint) in a fetch: nobody catches it and the request ends.        *)
ListFails(r) ==
  /\ rpc[r] \in {"lb", "lb2", "run", "run2", "fetch"}
  /\ Finish(r, "failed")
  /\ UNCHANGED <<outside, ghosts, cache, turns>>

-----------------------------------------------------------------------------
(* RunPod and the workers                                                  *)
Change == changes < MaxChanges /\ changes' = changes + 1

PodChanges(w, v) ==
  /\ v # view[w]
  /\ Change
  /\ view' = [view EXCEPT ![w] = v]
  /\ UNCHANGED <<clock, status, ghosts, cache, turns, rpc, handler>>

StatusChanges(w, st) ==
  /\ st # status[w]
  /\ Change
  /\ status' = [status EXCEPT ![w] = st]
  /\ okAt' = [okAt EXCEPT ![w] = IF Allows(st) THEN clock ELSE @]
  /\ badAt' = [badAt EXCEPT ![w] = IF Allows(st) THEN @ ELSE clock]
  /\ UNCHANGED <<clock, view, cache, turns, rpc, handler>>

Tick ==
  /\ clock < MaxClock
  /\ clock' = clock + 1
  /\ okAt' = [w \in Workers |-> IF Allows(status[w]) THEN clock + 1 ELSE okAt[w]]
  /\ badAt' = [w \in Workers |-> IF Allows(status[w]) THEN badAt[w] ELSE clock + 1]
  /\ UNCHANGED <<view, status, changes, cache, turns, rpc, handler>>

-----------------------------------------------------------------------------
Judge(r) == \E w \in Workers :
  Hit(r, w) \/ Miss(r, w) \/ Fetch(r, w) \/ FetchFails(r, w) \/ Store(r, w)

Handle(r) ==
  \/ Begin(r) \/ LbList(r) \/ LbListAgain(r) \/ Judge(r)
  \/ ProxyJudged(r) \/ DashboardJudged(r) \/ Pick(r) \/ Forward(r)
  \/ RunList(r) \/ RunListAgain(r) \/ ListFails(r)

Outside ==
  \/ \E w \in Workers, v \in View : PodChanges(w, v)
  \/ \E w \in Workers, st \in Status : StatusChanges(w, st)
  \/ Tick

Next == (\E r \in Requests : Handle(r)) \/ Outside

Spec == Init /\ [][Next]_vars

-----------------------------------------------------------------------------
(* A verdict a request goes by was true at a time no earlier than TTL      *)
(* before the request had its list, whichever handler fetched it, however  *)
(* long the fetch took, and whatever was stored in between.  This is what  *)
(* the short TTL is for ("so recovery from unhealthy is picked up quickly").*)
FreshOk(r, w)  == okAt[w] + TTL >= now[r]
FreshBad(r, w) == badAt[w] + TTL >= now[r]
VerdictFresh == \A r \in Requests : \A w \in seen[r] \ todo[r] :
  IF w \in elig[r] THEN FreshOk(r, w) ELSE FreshBad(r, w)

(* While the list of bases stays the same, workers take turns: none is     *)
(* picked twice more than another.                                         *)
EvenTurns == \A v, w \in bases : tally[v] <= tally[w] + 1
=============================================================================
