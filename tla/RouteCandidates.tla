--------------------------- MODULE RouteCandidates ---------------------------
(***************************************************************************)
(* The endpoints a Claude request will try, in order, and why a request    *)
(* under a fixed route gets none: a pure function of a value snapshot of   *)
(* the endpoints and of the route.                                         *)
(* internal/endpoint/scheduler.go and route_state.go.                      *)
(*                                                                         *)
(* A snapshot s has                                                        *)
(*   order     the endpoints in the manager's order (a sequence)           *)
(*   on, auto  availability_enabled, auto_schedule_enabled, by endpoint    *)
(*   usable    classifyEndpointSnapshotRoutable's verdict, by endpoint     *)
(*   prio      by endpoint; 1 is the best tier                             *)
(*   speed     strategy "fastest": the time of a test or 0 = it failed;    *)
(*             << >> under strategy "priority"                             *)
(*   retained  the endpoint of each tier that last succeeded, or None      *)
(*   mode, target   the route                                              *)
(*   ready, failover   IsClaudeRoutingReady, Failover.Enabled              *)
(***************************************************************************)
EXTENDS Ordering, SequencesExt

CONSTANT None

Unlisted(s) == s.target \notin ToSet(s.order)
Open(s, e)  == s.on[e] /\ s.usable[e]

\* The manual target, when it may be tried.
Target(s) ==
  IF s.mode = "auto" \/ s.target = None \/ Unlisted(s) \/ ~Open(s, s.target) THEN << >>
  ELSE <<s.target>>

Eligible(s) ==
  Only(s.order, {e \in ToSet(s.order) : s.auto[e] /\ Open(s, e)} \ ToSet(Target(s)))

\* sort.SliceStable by a key: entries with the same key keep their order.
Stable(q, key) ==
  LET at == Arranged(DOMAIN q, {x \in (DOMAIN q) \X (DOMAIN q) :
                                  \/ key[q[x[1]]] < key[q[x[2]]]
                                  \/ key[q[x[1]]] = key[q[x[2]]] /\ x[1] < x[2]})
  IN [i \in DOMAIN q |-> q[at[i]]]

\* orderEndpointSnapshotsByFastTestResults: the tested ones by time, then
\* the failed ones as they were.
BySpeed(s, q) ==
  IF s.speed = << >> THEN q
  ELSE Stable(Only(q, {e \in ToSet(q) : s.speed[e] > 0}), s.speed)
       \o Only(q, {e \in ToSet(q) : s.speed[e] = 0})

\* The retained endpoint of the tier moves to its head.
IgnoreRetained(q, e) == q                                           \* faulty variant
ToFront(q, e) == IF e \in ToSet(q) THEN <<e>> \o Only(q, ToSet(q) \ {e}) ELSE q

AutoPlan(s) ==
  LET sorted == Stable(Eligible(s), s.prio) IN
  IF sorted = << >> THEN << >>
  ELSE LET best == s.prio[sorted[1]]
           Tier == Only(sorted, {e \in ToSet(sorted) : s.prio[e] = best})
           Lower == Only(sorted, {e \in ToSet(sorted) : s.prio[e] # best})
       IN ToFront(BySpeed(s, Tier), s.retained[best]) \o Lower

\* PrepareRouteCandidates
Plan(s) ==
  IF ~s.ready THEN << >>
  ELSE IF s.mode = "manual_fixed" /\ s.target # None THEN Target(s)
  ELSE LET all == Target(s) \o AutoPlan(s)
       IN IF s.failover \/ all = << >> THEN all ELSE <<all[1]>>

\* GetManualFixedRouteBlock: the status of the refusal, 0 = none.
FixedBlock(s) ==
  IF s.mode # "manual_fixed" \/ s.target = None THEN 0
  ELSE IF Unlisted(s) \/ ~s.on[s.target] THEN 404
  ELSE IF ~s.usable[s.target] THEN 503     \* 422 when the negative cache says so
  ELSE 0

-----------------------------------------------------------------------------
\* The plan against what routing promises: nothing twice; a fixed route has
\* its target or nothing, and then a refusal that says why; a preferred
\* target that can be tried comes first; everything else is enabled, usable
\* and in automatic scheduling; no endpoint of a worse tier comes before one
\* of a better tier; the endpoint retained in the best tier leads it;
\* nothing eligible is left out while failover is on, and without failover
\* there is one candidate whenever there is one to try.
PlanRespectsRoute(s) ==
  LET p == Plan(s)
      Automatic(e) == s.auto[e] /\ Open(s, e)
      Others == {e \in ToSet(s.order) : Automatic(e)} \ ToSet(Target(s))
      Fixed == s.mode = "manual_fixed" /\ s.target # None
      Best == {e \in Others : \A x \in Others : s.prio[e] <= s.prio[x]}
  IN s.ready =>
     /\ \A i, j \in DOMAIN p : p[i] = p[j] => i = j
     /\ Fixed => ToSet(p) \subseteq {s.target} /\ (p = << >> <=> FixedBlock(s) # 0)
     /\ \A i \in DOMAIN p : p[i] \in ToSet(s.order) /\ Open(s, p[i])
     /\ ~Fixed =>
        /\ Target(s) # << >> => p # << >> /\ p[1] = s.target
        /\ \A i \in DOMAIN p : p[i] \in Others \/ p[i] = s.target
        /\ \A i, j \in DOMAIN p : i < j /\ {p[i], p[j]} \subseteq Others => s.prio[p[i]] <= s.prio[p[j]]
        /\ \A i, j \in DOMAIN p : {p[i], p[j]} \subseteq Best /\ p[j] = s.retained[s.prio[p[j]]] => j <= i
        /\ IF s.failover THEN Others \subseteq ToSet(p)
           ELSE Len(p) = IF Others = {} /\ Target(s) = << >> THEN 0 ELSE 1
=============================================================================
