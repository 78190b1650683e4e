------------------------ MODULE MCEndpointAdmission -------------------------
(***************************************************************************)
(* Small instances for TLC of who may serve a request: the administration  *)
(* of endpoints against the attempts that use them, the snapshots of which *)
(* candidates were chosen, and over bounded inputs the choice itself, of   *)
(* endpoints and of accounts.  A behaviour is the one part that `part`     *)
(* names; for the choices it is one input, chosen into `in`.               *)
(***************************************************************************)
EXTENDS EndpointAdmission, TLC

CONSTANTS Requests, Upstreams, MaxTime, TTL   \* of the snapshots

VARIABLES
  part,
  numbered, clock, latest, pending, sequence, phase, truth,
  in

admissionVars == vars
snapshotVars == <<numbered, clock, latest, pending, sequence, phase, truth>>
allVars == <<part, admissionVars, snapshotVars, in>>

\* The same calls one after the other, with another edit's worth of revisions.
Serial == INSTANCE EndpointAdmission
            WITH MaxRunning <- 1, MaxRetries <- 0, MaxRevision <- 5

Snapshots == INSTANCE ScheduleSnapshots

ASSUME SnapshotAssumption == Snapshots!NoRequest \notin Requests

-----------------------------------------------------------------------------
Candidates == INSTANCE RouteCandidates WITH None <- "none"

Names == {"a", "b", "c"}

\* On, in the automatic schedule, and usable; what is off is not told apart further.
States == {<<TRUE, TRUE, TRUE>>, <<TRUE, FALSE, TRUE>>, <<TRUE, TRUE, FALSE>>, <<FALSE, TRUE, TRUE>>}
Speeds == {<< >>, [a |-> 2, b |-> 1, c |-> 0], [a |-> 1, b |-> 1, c |-> 2]}
Choices == {<<"auto", "none">>, <<"auto", "b">>, <<"manual_fixed", "b">>, <<"manual_fixed", "none">>,
            <<"manual_preferred", "c">>, <<"manual_preferred", "gone">>}
Situations ==
  {[order |-> <<"a", "b", "c">>, on |-> [e \in Names |-> st[e][1]], auto |-> [e \in Names |-> st[e][2]],
    usable |-> [e \in Names |-> st[e][3]], prio |-> p, speed |-> v, retained |-> k,
    mode |-> c[1], target |-> c[2], ready |-> TRUE, failover |-> f] :
     st \in [Names -> States], p \in [Names -> 1..2], v \in Speeds,
     k \in {<<"none", "none">>, <<"c", "b">>}, c \in Choices, f \in BOOLEAN}

Ranking == INSTANCE AccountRanking

Plain == [tier |-> 1, oauth |-> TRUE, free |-> FALSE, quota |-> "ok", rem5 |-> 50, q5 |-> 4,
          remW |-> 50, qW |-> 96, fails |-> 0, last |-> 1]
OAuthAccounts ==
  {Plain, [Plain EXCEPT !.rem5 = 60], [Plain EXCEPT !.rem5 = 60, !.last = 2], [Plain EXCEPT !.last = 2],
   [Plain EXCEPT !.remW = 20], [Plain EXCEPT !.remW = 10, !.qW = 24],
   [Plain EXCEPT !.free = TRUE, !.rem5 = -1, !.q5 = 0],
   [Plain EXCEPT !.quota = "exhausted", !.rem5 = 0], [Plain EXCEPT !.quota = "unknown", !.fails = 1],
   [Plain EXCEPT !.quota = "exhausted", !.remW = 0, !.qW = 0], [Plain EXCEPT !.rem5 = 0, !.remW = 0]}
KeyAccounts ==
  {[Plain EXCEPT !.oauth = FALSE],
   [Plain EXCEPT !.oauth = FALSE, !.quota = "exhausted", !.rem5 = 0, !.fails = 1]}
GroupedAccounts == {[a EXCEPT !.tier = t] : a \in OAuthAccounts \cup KeyAccounts, t \in {1, 2}}
RankedPools ==
  [accounts : [1..3 -> OAuthAccounts], search : {FALSE}, pinned : {0},
   preferred : {<<0, 0, 0>>}, retained : {<<i, 0, 0>> : i \in {0, 1, 3}}]
GroupedPools ==
  [accounts : [1..2 -> GroupedAccounts], search : BOOLEAN, pinned : {0, 2},
   preferred : {<<0, 0, 0>>, <<2, 0, 0>>}, retained : {<<i, 0, 0>> : i \in {0, 1}}]
Pools == RankedPools \cup GroupedPools

-----------------------------------------------------------------------------
MCInit ==
  /\ part \in {"overlapping", "serial", "snapshots", "inputs"}
  /\ Init /\ Snapshots!Init /\ in = << >>
  /\ part # "snapshots" => numbered

AdmissionStep ==
  /\ (part = "overlapping" /\ Next) \/ (part = "serial" /\ Serial!Next)
  /\ UNCHANGED <<snapshotVars, in>>
DecisionStep == part = "snapshots" /\ Snapshots!Next /\ UNCHANGED <<admissionVars, in>>
Input == /\ part = "inputs" /\ in = << >>
         /\ \/ \E s \in Situations : in' = <<"route", s>>
            \/ \E s \in Pools : in' = <<"pool", s>>
         /\ UNCHANGED <<admissionVars, snapshotVars>>

MCNext == UNCHANGED part /\ (AdmissionStep \/ DecisionStep \/ Input)

MCSpec == MCInit /\ [][MCNext]_allVars

\* Attempts are interchangeable, and so are calls, requests and upstreams; no
\* liveness is checked.
Symmetry == UNION {Permutations(S) : S \in {Attempts, Ops, Requests, Upstreams}}

-----------------------------------------------------------------------------
\* When calls come one at a time, an edit leaves the availability as it is.
SerialEditKeepsAvailability ==
  [][part = "serial" => \A o \in Ops : KeepsAvailability(o)]_allVars

\* When calls come one at a time, the manager ends up with what the database holds.
SerialCallsAgree == part = "serial" => RuntimeFollowsRecord

\* What is shown of a request is what that request reported itself.
SnapshotIsOwn == Snapshots!SnapshotIsOwn

\* The endpoints tried keep to the route: the manual target first or alone, then every
\* usable one by tier. The accounts tried are usable ones of one group, and the one
\* that served last stays first unless another is better by more than the inertia.
ChoiceIsRight ==
  in # << >> => IF in[1] = "route" THEN Candidates!PlanRespectsRoute(in[2])
                ELSE Ranking!ScheduleIsSound(in[2]) /\ Ranking!ChosenStays(in[2])
=============================================================================
