-------------------------- MODULE WorkerPoolProofs --------------------------
(***************************************************************************)
(* Theorems about WorkerPool, for any number of workers and of handlers    *)
(* and any TTL: its types, how old a verdict may be, and that the handlers *)
(* take turns.                                                             *)
(***************************************************************************)
EXTENDS WorkerPool, FiniteSetTheorems, TLAPS

(* The ghosts follow the clock.                                            *)
ClockInv == \A w \in Workers :
  /\ okAt[w] <= clock /\ badAt[w] <= clock
  /\ IF Allows(status[w]) THEN okAt[w] = clock ELSE badAt[w] = clock

(* A cache entry says what was so at its time stamp or later: the stamp is *)
(* taken before the fetch.                                                 *)
CacheInv == \A w \in Workers : cache[w] # None =>
  IF cache[w].ok THEN okAt[w] >= cache[w].ts ELSE badAt[w] >= cache[w].ts

(* A handler that judges took its time in the past, what it has just       *)
(* fetched was so since then, and only what it has judged is eligible.     *)
Judging == {"check", "fetch", "store", "pick", "forward"}
HandlerOK(r) ==
  /\ todo[r] \subseteq seen[r]
  /\ elig[r] \subseteq seen[r] \ todo[r]
  /\ rpc[r] \notin Judging => elig[r] = {}
  /\ rpc[r] = "pick" => elig[r] # {}
  /\ rpc[r] \notin {"check", "fetch", "store"} => todo[r] = {}
  /\ now[r] <= clock
  /\ rpc[r] = "store" => \A w \in todo[r] : NextUp(r, w) =>
       IF got[r] THEN okAt[w] >= now[r] ELSE badAt[w] >= now[r]
HandlerInv == \A r \in Requests : HandlerOK(r)

Fresh(r) == \A w \in seen[r] \ todo[r] :
  IF w \in elig[r] THEN FreshOk(r, w) ELSE FreshBad(r, w)

PoolInv == PoolTypeOK /\ ClockInv /\ CacheInv /\ HandlerInv /\ VerdictFresh

(* Time and reasons only move on.                                          *)
Grow ==
  /\ clock' >= clock
  /\ \A w \in Workers : okAt'[w] >= okAt[w] /\ badAt'[w] >= badAt[w]

(* A step leaves the locals of q that matter here as they were.            *)
Same(q) ==
  /\ rpc'[q] = rpc[q] /\ now'[q] = now[q] /\ got'[q] = got[q]
  /\ seen'[q] = seen[q] /\ todo'[q] = todo[q] /\ elig'[q] = elig[q]

-----------------------------------------------------------------------------
(* One named disjunct per action of the specification.                     *)
LEMMA Actions ==
  ASSUME Next
  PROVE  \/ \E r \in Requests :
              \/ Begin(r) \/ LbList(r) \/ LbListAgain(r) \/ ProxyJudged(r)
              \/ DashboardJudged(r) \/ Pick(r) \/ Forward(r) \/ RunList(r) \/ RunListAgain(r)
              \/ ListFails(r)
         \/ \E r \in Requests, w \in Workers :
              Hit(r, w) \/ Miss(r, w) \/ Fetch(r, w) \/ FetchFails(r, w) \/ Store(r, w)
         \/ \E w \in Workers, v \in View : PodChanges(w, v)
         \/ \E w \in Workers, st \in Status : StatusChanges(w, st)
         \/ Tick
BY DEF Next, Handle, Judge, Outside

(* Counting up one place of a tally leaves a tally.                        *)
LEMMA TallyUp ==
  ASSUME NEW f \in [Workers -> Nat], NEW c
  PROVE  [f EXCEPT ![c] = @ + 1] \in [Workers -> Nat]
<1> DEFINE g == [f EXCEPT ![c] = @ + 1]
<1>1. g = [w \in Workers |-> IF w = c THEN f[c] + 1 ELSE f[w]]
  OBVIOUS
<1>2. ASSUME NEW w \in Workers PROVE (IF w = c THEN f[c] + 1 ELSE f[w]) \in Nat
  <2>1. CASE w = c
    BY <2>1
  <2>2. CASE w # c
    BY <2>2
  <2> QED
    BY <2>1, <2>2
<1> QED
  BY <1>1, <1>2

(* The types hold at first.                                                *)
LEMMA TypeInit == Init => PoolTypeOK
BY WorkerPoolAssumption DEF Init, PoolTypeOK, Stage, Ended, Workers, View, Status

(* Every step keeps the types.                                             *)
LEMMA TypeStep ==
  ASSUME PoolTypeOK, [Next]_vars
  PROVE  PoolTypeOK'
<1> USE WorkerPoolAssumption DEF PoolTypeOK, outside, ghosts, turns, handler
<1>0. ASSUME NEW r \in Requests, NEW listed, RunListed(r, listed) PROVE PoolTypeOK'
  <2>1. CASE r \in Proxies
    <3>1. PICK how \in {"no_healthy", "no_running"} : Finish(r, how)
      BY <1>0, <2>1 DEF RunListed
    <3> QED
      BY <1>0, <3>1 DEF RunListed, Finish, Goto, Stage, Ended
  <2>2. CASE r \notin Proxies
    <3>1. running' \in [Requests -> BOOLEAN]
      BY <1>0, <2>2, Zenon DEF RunListed
    <3> QED
      BY <1>0, <2>2, <3>1 DEF RunListed, Goto, Stage, OnLoop
  <2> QED
    BY <2>1, <2>2
<1>1. ASSUME NEW r \in Requests, Begin(r) PROVE PoolTypeOK'
  BY <1>1 DEF Begin, Goto, Stage, OnLoop
<1>a. ASSUME NEW r \in Requests, NEW listed \in SUBSET Workers, Listed(r, listed)
      PROVE  PoolTypeOK'
  BY <1>a DEF Listed, Goto, Stage, OnLoop
<1>b. Up \in SUBSET Workers /\ {} \in SUBSET Workers
  BY DEF Up
<1>2. ASSUME NEW r \in Requests, LbList(r) PROVE PoolTypeOK'
  BY <1>2, <1>a, <1>b DEF LbList, Goto, Stage, OnLoop
<1>3. ASSUME NEW r \in Requests, LbListAgain(r) PROVE PoolTypeOK'
  BY <1>3, <1>a, <1>b DEF LbListAgain
<1>4. ASSUME NEW r \in Requests, ProxyJudged(r) PROVE PoolTypeOK'
  BY <1>4 DEF ProxyJudged, Goto, Stage, OnLoop
<1>5. ASSUME NEW r \in Requests, DashboardJudged(r) PROVE PoolTypeOK'
  BY <1>5 DEF DashboardJudged, Finish, Goto, Stage, Ended
<1>6. ASSUME NEW r \in Requests, Pick(r) PROVE PoolTypeOK'
  <2>1. PICK choice : tally' = [IF elig[r] = bases THEN tally ELSE [w \in Workers |-> 0]
                                EXCEPT ![choice] = @ + 1]
    BY <1>6 DEF Pick
  <2>2. (IF elig[r] = bases THEN tally ELSE [w \in Workers |-> 0]) \in [Workers -> Nat]
    OBVIOUS
  <2>3. tally' \in [Workers -> Nat]
    BY <2>1, <2>2, TallyUp
  <2>4. ring' \in Nat /\ bases' \in SUBSET Workers /\ rpc' \in [Requests -> Stage]
    BY <1>6 DEF Pick, Turn, Goto, Stage
  <2> QED
    BY <1>6, <2>3, <2>4 DEF Pick
<1>7. ASSUME NEW r \in Requests, Forward(r) PROVE PoolTypeOK'
  BY <1>7 DEF Forward, Finish, Goto, Stage, Ended
<1>8. ASSUME NEW r \in Requests, RunList(r) PROVE PoolTypeOK'
  BY <1>0, <1>8 DEF RunList, Goto, Stage, OnLoop
<1>9. ASSUME NEW r \in Requests, RunListAgain(r) PROVE PoolTypeOK'
  BY <1>0, <1>9 DEF RunListAgain
<1>10. ASSUME NEW r \in Requests, NEW w \in Workers, Hit(r, w) PROVE PoolTypeOK'
  BY <1>10 DEF Hit, Judged, Cached
<1>11. ASSUME NEW r \in Requests, NEW w \in Workers, Miss(r, w) PROVE PoolTypeOK'
  BY <1>11 DEF Miss, Goto, Stage, OnLoop
<1>12. ASSUME NEW r \in Requests, NEW w \in Workers, Fetch(r, w) PROVE PoolTypeOK'
  BY <1>12 DEF Fetch, Allows, Goto, Stage, OnLoop
<1>13. ASSUME NEW r \in Requests, NEW w \in Workers, FetchFails(r, w) PROVE PoolTypeOK'
  BY <1>13 DEF FetchFails, Goto, Stage, OnLoop
<1>14. ASSUME NEW r \in Requests, NEW w \in Workers, Store(r, w) PROVE PoolTypeOK'
  BY <1>14 DEF Store, Judged, Goto, Stage, OnLoop
<1>15. ASSUME NEW w \in Workers, NEW v \in View, PodChanges(w, v) PROVE PoolTypeOK'
  BY <1>15 DEF PodChanges, Change
<1>16. ASSUME NEW w \in Workers, NEW st \in Status, StatusChanges(w, st) PROVE PoolTypeOK'
  BY <1>16 DEF StatusChanges, Change
<1>17. CASE Tick
  BY <1>17 DEF Tick
<1>18. CASE UNCHANGED vars
  BY <1>18 DEF vars
<1>19. ASSUME NEW r \in Requests, ListFails(r) PROVE PoolTypeOK'
  BY <1>19 DEF ListFails, Finish, Goto, Stage, Ended
<1> QED
  BY <1>1, <1>2, <1>3, <1>4, <1>5, <1>6, <1>7, <1>8, <1>9, <1>10, <1>11, <1>12, <1>13,
     <1>14, <1>15, <1>16, <1>17, <1>18, <1>19, Actions

(* Every step lets time and reasons move on, and keeps ClockInv.           *)
LEMMA ClockStep ==
  ASSUME PoolTypeOK, ClockInv, [Next]_vars
  PROVE  Grow /\ ClockInv'
<1> USE DEF PoolTypeOK, ClockInv, Grow
<1>1. CASE UNCHANGED <<clock, status, okAt, badAt>>
  BY <1>1
<1>2. ASSUME NEW r \in Requests, NEW w \in Workers, FetchFails(r, w) PROVE Grow /\ ClockInv'
  BY <1>2 DEF FetchFails, outside
<1>3. ASSUME NEW w \in Workers, NEW st \in Status, StatusChanges(w, st)
      PROVE Grow /\ ClockInv'
  BY <1>3 DEF StatusChanges
<1>4. CASE Tick
  BY <1>4 DEF Tick
<1>5. UNCHANGED <<clock, status, okAt, badAt>>
      \/ (\E r \in Requests, w \in Workers : FetchFails(r, w))
      \/ (\E w \in Workers, st \in Status : StatusChanges(w, st)) \/ Tick
  BY Actions DEF vars, outside, ghosts, Begin, LbList, LbListAgain, Listed, ProxyJudged,
     DashboardJudged, Pick, Forward, RunList, RunListAgain, RunListed, ListFails, Hit, Miss, Fetch,
     Store, PodChanges
<1> QED
  BY <1>1, <1>2, <1>3, <1>4, <1>5

(* A handler writes only what it fetched, with the time it took before.    *)
LEMMA CacheStep ==
  ASSUME PoolInv, [Next]_vars
  PROVE  CacheInv'
<1> USE DEF PoolInv, PoolTypeOK, CacheInv
<1>1. Grow
  BY ClockStep
<1>2. CASE UNCHANGED cache
  BY <1>1, <1>2, TypeStep DEF Grow
<1>3. ASSUME NEW r \in Requests, NEW w \in Workers, Store(r, w) PROVE CacheInv'
  <2>1. IF got[r] THEN okAt[w] >= now[r] ELSE badAt[w] >= now[r]
    BY <1>3 DEF Store, HandlerInv, HandlerOK
  <2> QED
    BY <1>3, <2>1 DEF Store, ghosts
<1>4. UNCHANGED cache \/ (\E r \in Requests, w \in Workers : Store(r, w))
  BY Actions DEF vars, Begin, LbList, LbListAgain, Listed, ProxyJudged,
     DashboardJudged, Pick, Forward, RunList, RunListAgain, RunListed, ListFails, Hit, Miss, Fetch,
     FetchFails, PodChanges, StatusChanges, Tick
<1> QED
  BY <1>2, <1>3, <1>4

-----------------------------------------------------------------------------
(* Handlers that a step does not touch keep what is true of them.          *)
LEMMA Untouched ==
  ASSUME PoolTypeOK, PoolTypeOK', Grow, NEW q \in Requests, Same(q), HandlerOK(q), Fresh(q)
  PROVE  HandlerOK(q)' /\ Fresh(q)'
<1> USE WorkerPoolAssumption DEF PoolTypeOK, Grow, Same
<1>1. HandlerOK(q)'
  <2>1. ASSUME rpc[q] = "store", NEW w \in todo[q], \A v \in todo[q] : w <= v
        PROVE  IF got'[q] THEN okAt'[w] >= now'[q] ELSE badAt'[w] >= now'[q]
    <3>1. IF got[q] THEN okAt[w] >= now[q] ELSE badAt[w] >= now[q]
      BY <2>1 DEF HandlerOK, NextUp
    <3>2. CASE got[q]
      BY <3>1, <3>2
    <3>3. CASE ~ got[q]
      BY <3>1, <3>3
    <3> QED
      BY <3>2, <3>3
  <2> QED
    BY <2>1 DEF HandlerOK, NextUp
<1>2. Fresh(q)'
  BY DEF Fresh, FreshOk, FreshBad
<1> QED
  BY <1>1, <1>2

(* A step keeps what is true of the handler that makes it.                 *)
LEMMA JudgeStep ==
  ASSUME PoolInv, PoolTypeOK', NEW r \in Requests, NEW w \in Workers,
         Hit(r, w) \/ Miss(r, w) \/ Fetch(r, w) \/ FetchFails(r, w) \/ Store(r, w)
  PROVE  HandlerOK(r)' /\ Fresh(r)'
<1> USE WorkerPoolAssumption DEF PoolInv, PoolTypeOK, outside, ghosts, handler
<1>0. HandlerOK(r) /\ Fresh(r)
  BY DEF HandlerInv, VerdictFresh, Fresh
<1>1. CASE Hit(r, w)
  <2>1. IF cache[w].ok THEN FreshOk(r, w) ELSE FreshBad(r, w)
    BY <1>1 DEF Hit, Cached, CacheInv, FreshOk, FreshBad
  <2>2. HandlerOK(r)'
    <3>1. CASE cache[w].ok
      <4>1. todo'[r] = todo[r] \ {w} /\ elig'[r] = elig[r] \cup {w}
        BY <1>1, <3>1 DEF Hit, Judged
      <4> QED
        BY <1>0, <1>1, <4>1 DEF Hit, HandlerOK, Judging
    <3>2. CASE ~ cache[w].ok
      BY <1>0, <1>1, <3>2 DEF Hit, Judged, HandlerOK
    <3> QED
      BY <3>1, <3>2
  <2>3. Fresh(r)'
    BY <1>0, <1>1, <2>1 DEF Hit, Judged, HandlerOK, Fresh, FreshOk, FreshBad
  <2> QED
    BY <2>2, <2>3
<1>2. CASE Miss(r, w)
  BY <1>0, <1>2 DEF Miss, Goto, HandlerOK, Fresh, FreshOk, FreshBad, Judging
<1>3. CASE Fetch(r, w)
  <2>1. \A v \in todo[r] : NextUp(r, v) => v = w
    <3>1. w \in todo[r] /\ NextUp(r, w)
      BY <1>3 DEF Fetch
    <3>2. todo[r] \in SUBSET Workers
      OBVIOUS
    <3> HIDE DEF PoolInv, PoolTypeOK
    <3> QED
      BY <3>1, <3>2 DEF NextUp, Workers
  <2>2. HandlerOK(r)'
    <3>1. rpc[r] = "fetch" /\ UNCHANGED <<outside, ghosts, now, seen, todo, elig>>
      BY <1>3 DEF Fetch
    <3>2. rpc'[r] = "store" /\ got'[r] = Allows(status[w])
      BY <1>3 DEF Fetch, Goto
    <3>3. IF Allows(status[w]) THEN okAt[w] >= now[r] ELSE badAt[w] >= now[r]
      BY <1>0 DEF HandlerOK, ClockInv
    <3> QED
      BY <1>0, <2>1, <3>1, <3>2, <3>3 DEF HandlerOK, Judging, NextUp
  <2>3. Fresh(r)'
    BY <1>0, <1>3 DEF Fetch, Goto, Fresh, FreshOk, FreshBad
  <2> QED
    BY <2>2, <2>3
<1>4. CASE FetchFails(r, w)
  <2>1. \A v \in todo[r] : NextUp(r, v) => v = w
    BY <1>4 DEF FetchFails, NextUp, Workers
  <2>2. HandlerOK(r)'
    BY <1>0, <1>4, <2>1 DEF FetchFails, Goto, HandlerOK, Judging, ClockInv, NextUp
  <2>3. Fresh(r)'
    BY <1>0, <1>4 DEF FetchFails, Goto, Fresh, FreshOk, FreshBad, ClockInv
  <2> QED
    BY <2>2, <2>3
<1>5. CASE Store(r, w)
  <2>1. IF got[r] THEN FreshOk(r, w) ELSE FreshBad(r, w)
    BY <1>0, <1>5 DEF Store, HandlerOK, FreshOk, FreshBad
  <2>2. HandlerOK(r)'
    BY <1>0, <1>5 DEF Store, Judged, Goto, HandlerOK, Judging
  <2>3. Fresh(r)'
    BY <1>0, <1>5, <2>1 DEF Store, Judged, HandlerOK, Fresh, FreshOk, FreshBad
  <2> QED
    BY <2>2, <2>3
<1> QED
  BY <1>1, <1>2, <1>3, <1>4, <1>5

Other(r) == \/ Begin(r) \/ LbList(r) \/ LbListAgain(r) \/ ProxyJudged(r)
            \/ DashboardJudged(r) \/ Pick(r) \/ Forward(r) \/ RunList(r) \/ RunListAgain(r)
            \/ ListFails(r)

(* So does every step that judges nothing.                                 *)
LEMMA OtherStep ==
  ASSUME PoolInv, PoolTypeOK', NEW r \in Requests, Other(r)
  PROVE  HandlerOK(r)' /\ Fresh(r)'
<1> USE WorkerPoolAssumption DEF PoolInv, PoolTypeOK, outside, ghosts, handler, Goto
<1>0. HandlerOK(r) /\ Fresh(r)
  BY DEF HandlerInv, VerdictFresh, Fresh
<1>1. CASE Begin(r)
  BY <1>0, <1>1 DEF Begin, HandlerOK, Fresh, FreshOk, FreshBad, Judging, Ended
<1>2. CASE LbList(r) \/ LbListAgain(r)
  BY <1>0, <1>2 DEF LbList, LbListAgain, Listed, HandlerOK, Fresh, FreshOk, FreshBad, Judging
<1>3. CASE ProxyJudged(r) \/ Pick(r)
  BY <1>0, <1>3 DEF ProxyJudged, Pick, HandlerOK, Fresh, FreshOk, FreshBad, Judging
<1>4. CASE DashboardJudged(r) \/ Forward(r) \/ ListFails(r)
  BY <1>0, <1>4 DEF DashboardJudged, Forward, ListFails, Finish, HandlerOK, Fresh, FreshOk, FreshBad, Judging
<1>5. CASE RunList(r) \/ RunListAgain(r)
  BY <1>0, <1>5 DEF RunList, RunListAgain, RunListed, Finish, HandlerOK, Fresh, FreshOk, FreshBad, Judging
<1> QED
  BY <1>1, <1>2, <1>3, <1>4, <1>5 DEF Other

(* Every step keeps what is true of every handler.                         *)
LEMMA RequestStep ==
  ASSUME PoolInv, [Next]_vars, NEW q \in Requests
  PROVE  HandlerOK(q)' /\ Fresh(q)'
<1>1. PoolTypeOK' /\ Grow /\ HandlerOK(q) /\ Fresh(q)
  BY TypeStep, ClockStep DEF PoolInv, HandlerInv, VerdictFresh, Fresh
<1>2. CASE Same(q)
  BY <1>1, <1>2, Untouched DEF PoolInv
<1>3. ASSUME NEW r \in Requests, NEW w \in Workers,
             Hit(r, w) \/ Miss(r, w) \/ Fetch(r, w) \/ FetchFails(r, w) \/ Store(r, w)
      PROVE  Same(q) \/ r = q
  BY <1>1, <1>3 DEF Hit, Miss, Fetch, FetchFails, Store, Judged, Goto, handler, Same,
     PoolInv, PoolTypeOK
<1>4. ASSUME NEW r \in Requests, Other(r)
      PROVE  Same(q) \/ r = q
  BY <1>1, <1>4 DEF Other, Begin, LbList, LbListAgain, Listed, ProxyJudged, DashboardJudged,
     Pick, Forward, RunList, RunListAgain, RunListed, ListFails, Finish, Goto, handler, Same,
     PoolInv, PoolTypeOK
<1>5. CASE Same(q) \/ (\E w \in Workers : Hit(q, w) \/ Miss(q, w) \/ Fetch(q, w)
                                         \/ FetchFails(q, w) \/ Store(q, w)) \/ Other(q)
  BY <1>1, <1>2, <1>5, JudgeStep, OtherStep
<1>6. CASE UNCHANGED vars \/ Tick \/ (\E w \in Workers, v \in View : PodChanges(w, v))
           \/ (\E w \in Workers, st \in Status : StatusChanges(w, st))
  BY <1>2, <1>6 DEF vars, handler, Tick, PodChanges, StatusChanges, Same
<1> QED
  BY <1>3, <1>4, <1>5, <1>6, Actions DEF Other

-----------------------------------------------------------------------------
(* The inductive invariant.                                                *)
THEOREM PoolInduction == Spec => []PoolInv
<1>1. Init => PoolInv
  <2> SUFFICES ASSUME Init PROVE PoolInv
    OBVIOUS
  <2>1. PoolTypeOK
    BY TypeInit
  <2>2. ClockInv /\ CacheInv
    BY WorkerPoolAssumption DEF Init, ClockInv, CacheInv
  <2>3. HandlerInv /\ VerdictFresh
    BY WorkerPoolAssumption DEF Init, HandlerInv, HandlerOK, VerdictFresh, Judging
  <2> QED
    BY <2>1, <2>2, <2>3 DEF PoolInv
<1>2. PoolInv /\ [Next]_vars => PoolInv'
  <2> SUFFICES ASSUME PoolInv, [Next]_vars PROVE PoolInv'
    OBVIOUS
  <2>1. PoolTypeOK' /\ ClockInv' /\ CacheInv'
    BY TypeStep, ClockStep, CacheStep DEF PoolInv
  <2>2. HandlerInv' /\ VerdictFresh'
    BY RequestStep DEF HandlerInv, VerdictFresh, Fresh
  <2> QED
    BY <2>1, <2>2 DEF PoolInv
<1> QED
  BY <1>1, <1>2, PTL DEF Spec

(* A request goes by verdicts no older than the TTL (worker_pool.py,       *)
(* LB_STATUS_TTL_SEC), whatever other handlers store meanwhile.            *)
THEOREM VerdictsFresh == Spec => []VerdictFresh
<1>1. PoolInv => VerdictFresh
  BY DEF PoolInv
<1> QED
  BY <1>1, PoolInduction, PTL
-----------------------------------------------------------------------------
(* Places in a list of bases: finite sets of numbers and the ranks of their*)
(* elements.                                                               *)
Below(S, w) == {v \in S : v < w}
Rank(S, w) == Cardinality(Below(S, w))

(* The ranks of a set's elements lie below its size.                       *)
LEMMA RankType ==
  ASSUME NEW S \in SUBSET Nat, IsFiniteSet(S), NEW w \in S
  PROVE  /\ IsFiniteSet(Below(S, w)) /\ Cardinality(S) \in Nat
         /\ Rank(S, w) \in 0 .. Cardinality(S) - 1
<1>1. Below(S, w) \in SUBSET S /\ Below(S, w) # S
  BY DEF Below
<1>2. /\ IsFiniteSet(Below(S, w)) /\ Cardinality(Below(S, w)) <= Cardinality(S)
      /\ Cardinality(S) # Cardinality(Below(S, w))
  BY <1>1, FS_Subset
<1>3. Cardinality(S) \in Nat /\ Cardinality(Below(S, w)) \in Nat
  BY <1>2, FS_CardinalityType
<1> QED
  BY <1>2, <1>3 DEF Rank

(* The greater number has the greater rank.                                *)
LEMMA RankGrows ==
  ASSUME NEW S \in SUBSET Nat, IsFiniteSet(S), NEW v \in S, NEW w \in S, v < w
  PROVE  Rank(S, v) < Rank(S, w)
<1>1. Below(S, v) \cup {v} \subseteq Below(S, w) /\ v \notin Below(S, v)
  <2>1. v \in Nat /\ w \in Nat /\ ~ (v < v)
    OBVIOUS
  <2>2. ASSUME NEW u \in S, u < v PROVE u < w
    <3>1. u \in Nat
      OBVIOUS
    <3> QED
      BY <2>1, <2>2, <3>1
  <2> QED
    BY <2>1, <2>2 DEF Below
<1>2. Cardinality(Below(S, v) \cup {v}) = Rank(S, v) + 1
  BY <1>1, RankType, FS_AddElement DEF Rank
<1>3. Cardinality(Below(S, v) \cup {v}) <= Rank(S, w)
  BY <1>1, RankType, FS_Subset DEF Rank
<1> QED
  BY <1>2, <1>3, RankType

(* No two elements have the same rank.                                     *)
LEMMA RankInjective ==
  ASSUME NEW S \in SUBSET Nat, IsFiniteSet(S), NEW v \in S, NEW w \in S,
         Rank(S, v) = Rank(S, w)
  PROVE  v = w
<1>1. v < w \/ w < v \/ v = w
  OBVIOUS
<1>2. Rank(S, v) \in Nat /\ Rank(S, w) \in Nat
  BY RankType
<1> QED
  BY <1>1, <1>2, RankGrows

(* Every rank is taken: an injection between sets of one size is onto.     *)
LEMMA NthRank ==
  ASSUME NEW S \in SUBSET Nat, IsFiniteSet(S), NEW k \in 0 .. Cardinality(S) - 1
  PROVE  Nth(S, k) \in S /\ Rank(S, Nth(S, k)) = k
<1> DEFINE T == 0 .. Cardinality(S) - 1
           f == [w \in S |-> Rank(S, w)]
<1>1. Cardinality(S) \in Nat
  BY FS_CardinalityType
<1>2. IsFiniteSet(T) /\ Cardinality(T) = Cardinality(S)
  BY <1>1, FS_Interval
<1>3. f \in Injection(S, T)
  <2>1. f \in [S -> T]
    BY RankType
  <2>2. ASSUME NEW v \in DOMAIN f, NEW w \in DOMAIN f, f[v] = f[w] PROVE v = w
    BY <2>2, RankInjective
  <2> HIDE DEF f, T
  <2> QED
    BY <2>1, <2>2 DEF Injection, IsInjective
<1>4. f \in Surjection(S, T)
  BY <1>2, <1>3, FS_Injection
<1>5. \E w \in S : Rank(S, w) = k
  BY <1>4 DEF Surjection
<1> QED
  BY <1>5 DEF Nth, Rank, Below

(* Counting up modulo n: one place on, or around.                          *)
LEMMA ModOfSum ==
  ASSUME NEW n \in Nat \ {0}, NEW q \in Nat, NEW k \in 0 .. n - 1
  PROVE  (n * q + k) % n = k
BY SMTT(30)

(* The ring goes to the next place, and from the last one to the first.    *)
LEMMA ModNext ==
  ASSUME NEW i \in Nat, NEW n \in Nat \ {0}
  PROVE  /\ i % n \in 0 .. n - 1
         /\ (i + 1) % n = (IF (i % n) + 1 = n THEN 0 ELSE (i % n) + 1)
<1> DEFINE q == i \div n
           k == i % n
<1>1. q \in Nat /\ k \in 0 .. n - 1 /\ i = n * q + k
  BY SMTT(30)
<1>2. CASE k + 1 = n
  <2>1. i + 1 = n * (q + 1) + 0
    BY <1>1, <1>2, SMT
  <2>2. q + 1 \in Nat /\ 0 \in 0 .. n - 1
    BY <1>1
  <2>3. (n * (q + 1) + 0) % n = 0
    BY <2>2, ModOfSum
  <2> QED
    BY <1>1, <1>2, <2>1, <2>3
<1>3. CASE k + 1 # n
  <2>1. i + 1 = n * q + (k + 1) /\ k + 1 \in 0 .. n - 1
    BY <1>1, <1>3, SMT
  <2>2. (n * q + (k + 1)) % n = k + 1
    BY <1>1, <2>1, ModOfSum
  <2> QED
    BY <1>1, <1>3, <2>1, <2>2
<1> QED
  BY <1>2, <1>3

-----------------------------------------------------------------------------
(* Workers take turns.                                                     *)

(* v's turn comes no later than w's when the one of rank k is next.        *)
Ahead(S, k, v, w) ==
  \/ Rank(S, v) >= k /\ Rank(S, w) < k
  \/ (Rank(S, v) >= k <=> Rank(S, w) >= k) /\ Rank(S, v) <= Rank(S, w)

(* Whoever's turn comes earlier is behind, by one at most.                 *)
Even(S, k, t) == \A v, w \in S :
  Ahead(S, k, v, w) => t[v] <= t[w] /\ t[w] <= t[v] + 1
TurnInv == bases # {} => Even(bases, ring % Cardinality(bases), tally)

(* The one whose turn it is gets it, and is last from then on.             *)
LEMMA TurnStep ==
  ASSUME NEW S \in SUBSET Workers, NEW n \in Nat \ {0}, NEW k \in 0 .. n - 1,
         NEW t \in [Workers -> Nat], NEW c \in S,
         \A w \in S : Rank(S, w) \in 0 .. n - 1,
         \A v, w \in S : Rank(S, v) = Rank(S, w) => v = w,
         Rank(S, c) = k, Even(S, k, t)
  PROVE  Even(S, IF k + 1 = n THEN 0 ELSE k + 1, [t EXCEPT ![c] = @ + 1])
<1> DEFINE j == IF k + 1 = n THEN 0 ELSE k + 1
           u == [t EXCEPT ![c] = @ + 1]
<1> SUFFICES ASSUME NEW v \in S, NEW w \in S, Ahead(S, j, v, w)
             PROVE  u[v] <= u[w] /\ u[w] <= u[v] + 1
  BY DEF Even
<1>1. /\ t[v] \in Nat /\ t[w] \in Nat /\ t[c] \in Nat
      /\ u[c] = t[c] + 1 /\ (v # c => u[v] = t[v]) /\ (w # c => u[w] = t[w])
  OBVIOUS
<1>2. Ahead(S, k, c, v) /\ Ahead(S, k, c, w)
  BY DEF Ahead
<1>3. CASE v = c
  <2>1. Rank(S, w) = k
    BY <1>3 DEF Ahead
  <2> QED
    BY <1>1, <1>3, <2>1
<1>4. CASE w = c
  BY <1>1, <1>2, <1>4 DEF Even
<1>5. CASE v # c /\ w # c
  <2>1. Rank(S, v) # k /\ Rank(S, w) # k
    BY <1>5
  <2>2. Ahead(S, k, v, w)
    BY <2>1 DEF Ahead
  <2> QED
    BY <1>1, <1>5, <2>2 DEF Even
<1> QED
  BY <1>3, <1>4, <1>5

(* A list of bases is finite, and its elements are numbers.                *)
LEMMA WorkersFinite ==
  ASSUME NEW S \in SUBSET Workers
  PROVE  IsFiniteSet(S) /\ S \in SUBSET Nat /\ Cardinality(S) \in Nat
         /\ (S # {} => Cardinality(S) # 0)
<1>1. IsFiniteSet(Workers)
  BY WorkerPoolAssumption, FS_Interval DEF Workers
<1>2. IsFiniteSet(S)
  BY <1>1, FS_Subset
<1> QED
  BY <1>2, FS_CardinalityType, FS_EmptySet DEF Workers

(* A pick moves the ring on and takes one of the bases.                    *)
LEMMA PickStep ==
  ASSUME PoolInv, TurnInv, NEW r \in Requests, Pick(r)
  PROVE  TurnInv' /\ \E c \in Workers : target' = [target EXCEPT ![r] = c]
<1> USE DEF PoolInv, PoolTypeOK
<1> DEFINE S == elig[r]
           n == Cardinality(S)
           k == ring % n
           t == IF S = bases THEN tally ELSE [w \in Workers |-> 0]
           c == Nth(S, k)
<1>1. S \in SUBSET Workers /\ S # {}
  BY DEF Pick, HandlerInv, HandlerOK
<1>2. IsFiniteSet(S) /\ S \in SUBSET Nat /\ n \in Nat \ {0}
  BY <1>1, WorkersFinite
<1>3. /\ k \in 0 .. n - 1
      /\ (ring + 1) % n = (IF k + 1 = n THEN 0 ELSE k + 1)
  BY <1>2, ModNext
<1>4. c \in S /\ Rank(S, c) = k
  BY <1>2, <1>3, NthRank
<1>5. t \in [Workers -> Nat] /\ Even(S, k, t)
  <2>1. CASE S = bases
    BY <1>1, <2>1 DEF TurnInv
  <2>2. CASE S # bases
    <3>1. \A w \in S : t[w] = 0
      BY <1>1, <2>2
    <3> QED
      BY <2>2, <3>1 DEF Even
  <2> QED
    BY <2>1, <2>2
<1>6. \A w \in S : Rank(S, w) \in 0 .. n - 1
  BY <1>2, RankType
<1>7. \A v, w \in S : Rank(S, v) = Rank(S, w) => v = w
  BY <1>2, RankInjective
<1>8. Even(S, IF k + 1 = n THEN 0 ELSE k + 1, [t EXCEPT ![c] = @ + 1])
  <2> HIDE DEF S, n, k, t, c
  <2> QED
    BY <1>1, <1>2, <1>3, <1>4, <1>5, <1>6, <1>7, TurnStep
<1>9. bases' = S /\ ring' = ring + 1
  BY DEF Pick, Turn
<1>10. tally' = [t EXCEPT ![c] = @ + 1] /\ target' = [target EXCEPT ![r] = c]
  BY Zenon DEF Pick
<1> HIDE DEF S, n, k, t, c
<1>11. Even(S, (ring + 1) % n, [t EXCEPT ![c] = @ + 1])
  BY <1>3, <1>8
<1>12. TurnInv'
  BY <1>9, <1>10, <1>11 DEF TurnInv, n
<1> QED
  BY <1>1, <1>4, <1>10, <1>12

(* The picks of the ring and the worker of each request.                   *)
RingInv == TurnInv /\ target \in [Requests -> Workers \cup {None}]

(* Picks keep both; nothing else moves the ring, and a handler that ends   *)
(* forgets its worker.                                                     *)
LEMMA RingStep ==
  ASSUME PoolInv, RingInv, [Next]_vars
  PROVE  RingInv'
<1> USE DEF RingInv
<1>1. CASE UNCHANGED <<turns, target>>
  BY <1>1 DEF turns, TurnInv
<1>2. ASSUME NEW r \in Requests, Pick(r) PROVE RingInv'
  BY <1>2, PickStep
<1>3. ASSUME NEW r \in Requests, UNCHANGED turns, target' = [target EXCEPT ![r] = None]
      PROVE  RingInv'
  BY <1>3 DEF turns, TurnInv
<1>4. \/ UNCHANGED <<turns, target>>
      \/ \E r \in Requests : Pick(r)
      \/ \E r \in Requests : UNCHANGED turns /\ target' = [target EXCEPT ![r] = None]
  <2>1. ASSUME NEW r \in Requests, Begin(r) \/ LbList(r) \/ LbListAgain(r) \/ ProxyJudged(r)
        PROVE  UNCHANGED <<turns, target>>
    BY <2>1 DEF Begin, LbList, LbListAgain, Listed, ProxyJudged, handler
  <2>2. ASSUME NEW r \in Requests,
               DashboardJudged(r) \/ Forward(r) \/ RunList(r) \/ RunListAgain(r) \/ ListFails(r)
        PROVE  UNCHANGED turns /\ (target' = target \/ target' = [target EXCEPT ![r] = None])
    BY <2>2 DEF DashboardJudged, Forward, RunList, RunListAgain, RunListed, ListFails, Finish,
       handler
  <2>3. ASSUME NEW r \in Requests, NEW w \in Workers,
               Hit(r, w) \/ Miss(r, w) \/ Fetch(r, w) \/ FetchFails(r, w) \/ Store(r, w)
        PROVE  UNCHANGED <<turns, target>>
    BY <2>3 DEF Hit, Miss, Fetch, FetchFails, Store, Judged, handler
  <2>4. CASE UNCHANGED vars \/ Tick \/ (\E w \in Workers, v \in View : PodChanges(w, v))
             \/ (\E w \in Workers, st \in Status : StatusChanges(w, st))
    BY <2>4 DEF vars, handler, Tick, PodChanges, StatusChanges
  <2> QED
    BY <2>1, <2>2, <2>3, <2>4, Actions
<1> QED
  BY <1>1, <1>2, <1>3, <1>4

(* RingInv holds throughout, given PoolInv.                                *)
THEOREM RingInduction == Spec => [](PoolInv /\ RingInv)
<1>1. Init => RingInv
  BY DEF Init, RingInv, TurnInv
<1>2. PoolInv /\ RingInv /\ [Next]_vars => RingInv'
  BY RingStep
<1> QED
  BY <1>1, <1>2, PoolInduction, PTL DEF Spec

(* The types of the pool, the picked worker's among them: bases[i] in      *)
(* WorkerRing.next_base always names one of the bases (worker_pool.py).    *)
THEOREM PoolTyped == Spec => []WTypeOK
<1>1. PoolInv /\ RingInv => WTypeOK
  BY DEF PoolInv, RingInv, WTypeOK
<1> QED
  BY <1>1, RingInduction, PTL

(* While the list of bases stays the same, no worker is picked twice more  *)
(* than another, wherever the ring stood when the list changed             *)
(* (worker_pool.py, WorkerRing).                                           *)
THEOREM TurnsEven == Spec => []EvenTurns
<1>1. ASSUME PoolInv, TurnInv, NEW v \in bases, NEW w \in bases
      PROVE  tally[v] <= tally[w] + 1
  <2> DEFINE n == Cardinality(bases)
             k == ring % n
  <2>1. bases \in SUBSET Workers /\ ring \in Nat /\ tally \in [Workers -> Nat]
    BY <1>1 DEF PoolInv, PoolTypeOK
  <2>2. IsFiniteSet(bases) /\ bases \in SUBSET Nat /\ n \in Nat \ {0}
    BY <2>1, WorkersFinite
  <2>3. k \in Nat
    <3> HIDE DEF n
    <3>1. k \in 0 .. n - 1
      BY <2>1, <2>2, ModNext
    <3> QED
      BY <2>2, <3>1
  <2>4. Rank(bases, v) \in Nat /\ Rank(bases, w) \in Nat
    BY <2>2, RankType
  <2>5. Ahead(bases, k, v, w) \/ Ahead(bases, k, w, v)
    <3> HIDE DEF k
    <3> QED
      BY <2>3, <2>4 DEF Ahead
  <2>6. Even(bases, k, tally)
    BY <1>1 DEF TurnInv
  <2> QED
    BY <2>1, <2>5, <2>6 DEF Even
<1>2. PoolInv /\ RingInv => EvenTurns
  BY <1>1 DEF RingInv, EvenTurns
<1> QED
  BY <1>2, RingInduction, PTL
=============================================================================
