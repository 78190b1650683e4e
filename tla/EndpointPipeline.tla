-------------------------- MODULE EndpointPipeline --------------------------
(***************************************************************************)
(* The candidate loop of internal/proxy/endpoint_pipeline.go: a client     *)
(* request is offered to one endpoint after the other until an answer is   *)
(* final. Several requests run at once; they share the gate that lets one  *)
(* request per endpoint wait for a 429 retry, the configuration of the     *)
(* endpoints and the privacy rules.                                        *)
(*                                                                         *)
(* What an upstream answers, whether a failure trips the threshold and the *)
(* order of the candidates are inputs: the failure windows are the matter  *)
(* of EndpointFailureState, the counting of leases of EndpointAdmission.   *)
(* A step is one handler segment between two accesses to shared state.     *)
(***************************************************************************)
EXTENDS Naturals, FiniteSets, Sequences

CONSTANTS Requests, Endpoints,
          Streams,       \* requests that want an SSE answer (/v1/messages)
          Offers,        \* endpoints that may be candidates of a request
          Budgets,       \* possible values of failover.max_candidate_attempts
          Rejects,       \* whether failure_tracker.action may read as "reject"
          MaxRevision,   \* bound: configuration revisions of an endpoint
          MaxRules,      \* bound: publications of privacy rules
          None           \* no endpoint

ASSUME PipelineAssumption ==
  /\ Streams \subseteq Requests
  /\ Offers \in [Requests -> SUBSET Endpoints]
  /\ Budgets \subseteq Nat \ {0}
  /\ Rejects \subseteq BOOLEAN
  /\ MaxRevision \in Nat /\ MaxRules \in Nat
  /\ None \notin Endpoints

VARIABLES
  pc,         \* where the handler of a request stands; after a call, what it returned
  plan,       \* its candidates, each with the revision it was planned on
  at,         \* index of the current candidate
  attempted,  \* attemptedEndpoints
  lease,      \* endpoint whose admission the request holds
  held,       \* an upstream response or context has to be closed
  retrying,   \* the request holds the 429 gate of its candidate
  draining,   \* the tail-drain timer of its stream runs
  outcome,    \* how the request ended
  gone,       \* the client has disconnected
  gate,       \* rateLimitRetryGates
  config,     \* revision of an endpoint and whether it admits attempts
  budget,     \* maxCandidates, from the configuration
  rules,      \* privacy rule snapshot: its version and whether it lets bodies pass
  \* Bookkeeping of the model:
  calls,      \* upstream calls of a request per endpoint
  charges,    \* failure settlements of a request per endpoint
  executed    \* calls of a request that its upstream may have carried out

local == <<pc, plan, at, attempted, lease, held, retrying, draining, outcome>>
books == <<calls, charges, executed>>
shared == <<gate, config, rules, gone, budget>>
vars == <<local, books, shared>>

(***************************************************************************)
(* The decision table, decideEndpointForwardOutcome.                       *)
(***************************************************************************)
Definite == {"noHeaders", "auth", "unsupported"}   \* certainly not carried out
Ambiguous == {"broken", "serverError"}
Results == Definite \cup Ambiguous \cup {"limited", "clientError", "ok"}

AllErrors == Definite \cup Ambiguous                              \* faulty variant
NextCandidate == Definite                      \* EndpointForwardNextCandidate
PassthroughError == (Definite \cup Ambiguous) \ NextCandidate
\* Results that are settled as a failure of the endpoint: soft failures and
\* the cooldown after a rejected key. An unsupported model is none.
Charged == Ambiguous \cup {"noHeaders", "auth", "limited"}

Unexecuted == Definite \cup {"limited"}

(***************************************************************************)
(* Helpers                                                                 *)
(***************************************************************************)
Orders(S) == {p \in UNION {[1..n -> S] : n \in 0..Cardinality(S)} :
                \A i, j \in DOMAIN p : p[i] = p[j] => i = j}
Candidate(r) == plan[r][at[r]]
Ep(r) == Candidate(r).ep

\* AcquireEndpointAttempt: the endpoint admits and is still as planned.
Admits(r) == config[Ep(r)].open /\ config[Ep(r)].rev = Candidate(r).rev

TwoTooMany(r) == at[r] <= Len(plan[r]) /\ attempted[r] <= budget \* faulty variant
MayAttempt(r) == at[r] <= Len(plan[r]) /\ attempted[r] < budget

SameAgain(r) == at[r]                                             \* faulty variant
Following(r) == at[r] + 1

AnyoneWaits(e) == TRUE                                            \* faulty variant
GateFree(e) == ~gate[e]

Charge(r) == charges' = [charges EXCEPT ![r][Ep(r)] = @ + 1]

\* Every return closes the response, cancels the upstream context and runs the
\* deferred admission.Release.
LeaseLeaks(r, o) ==                                               \* faulty variant
  /\ pc' = [pc EXCEPT ![r] = "done"]
  /\ outcome' = [outcome EXCEPT ![r] = o]
  /\ lease' = lease
  /\ held' = [held EXCEPT ![r] = FALSE]
  /\ draining' = [draining EXCEPT ![r] = FALSE]
End(r, o) ==
  /\ pc' = [pc EXCEPT ![r] = "done"]
  /\ outcome' = [outcome EXCEPT ![r] = o]
  /\ lease' = [lease EXCEPT ![r] = None]
  /\ held' = [held EXCEPT ![r] = FALSE]
  /\ draining' = [draining EXCEPT ![r] = FALSE]

Init ==
  /\ pc = [r \in Requests |-> "new"]
  /\ plan = [r \in Requests |-> <<>>]
  /\ at = [r \in Requests |-> 1]
  /\ budget \in Budgets
  /\ attempted = [r \in Requests |-> 0]
  /\ lease = [r \in Requests |-> None]
  /\ held = [r \in Requests |-> FALSE]
  /\ retrying = [r \in Requests |-> FALSE]
  /\ draining = [r \in Requests |-> FALSE]
  /\ outcome = [r \in Requests |-> "open"]
  /\ gone = [r \in Requests |-> FALSE]
  /\ gate = [e \in Endpoints |-> FALSE]
  /\ config = [e \in Endpoints |-> [rev |-> 1, open |-> TRUE]]
  /\ rules = [version |-> 1, pass |-> TRUE]
  /\ calls = [r \in Requests |-> [e \in Endpoints |-> 0]]
  /\ charges = [r \in Requests |-> [e \in Endpoints |-> 0]]
  /\ executed = [r \in Requests |-> 0]

(***************************************************************************)
(* Start: the reject pre-check, then the candidates.                       *)
(***************************************************************************)
Rejected(r) ==
  /\ pc[r] = "new" /\ TRUE \in Rejects
  /\ End(r, "rejected")
  /\ UNCHANGED <<plan, at, attempted, retrying, books, shared>>

Prepare(r) ==
  /\ pc[r] = "new"
  /\ \E p \in Orders(Offers[r]) :
       plan' = [plan EXCEPT ![r] = [i \in DOMAIN p |->
                                      [ep |-> p[i], rev |-> config[p[i]].rev]]]
  /\ pc' = [pc EXCEPT ![r] = "loop"]
  /\ UNCHANGED <<at, attempted, lease, held, retrying, draining, outcome,
                 books, shared>>

(***************************************************************************)
(* Head of the loop: release the lease of the last candidate, check the    *)
(* budget and the client, acquire the next candidate.                      *)
(***************************************************************************)
NoneLeft(r) ==
  /\ pc[r] = "loop" /\ ~MayAttempt(r)
  /\ End(r, "unavailable")
  /\ UNCHANGED <<plan, at, attempted, retrying, books, shared>>

LoopCancelled(r) ==
  /\ pc[r] = "loop" /\ MayAttempt(r) /\ gone[r]
  /\ End(r, "cancelled")
  /\ UNCHANGED <<plan, at, attempted, retrying, books, shared>>

Skip(r) ==
  /\ pc[r] = "loop" /\ MayAttempt(r) /\ ~gone[r]
  /\ ~Admits(r)
  /\ lease' = [lease EXCEPT ![r] = None]
  /\ at' = [at EXCEPT ![r] = Following(r)]
  /\ UNCHANGED <<pc, plan, attempted, held, retrying, draining, outcome,
                 books, shared>>

Admit(r) ==
  /\ pc[r] = "loop" /\ MayAttempt(r) /\ ~gone[r]
  /\ Admits(r)
  /\ lease' = [lease EXCEPT ![r] = Ep(r)]
  /\ attempted' = [attempted EXCEPT ![r] = @ + 1]
  /\ pc' = [pc EXCEPT ![r] = "calling"]
  /\ UNCHANGED <<plan, at, held, retrying, draining, outcome, books, shared>>

(***************************************************************************)
(* ForwardForPipeline: the privacy filter, then the call.                  *)
(***************************************************************************)
Send(r) ==
  /\ pc[r] = "calling" /\ rules.pass
  /\ pc' = [pc EXCEPT ![r] = "upstream"]
  /\ calls' = [calls EXCEPT ![r][Ep(r)] = @ + 1]
  /\ executed' = [executed EXCEPT ![r] = @ + 1]
  /\ UNCHANGED <<plan, at, attempted, lease, held, retrying, draining, outcome,
                 charges, shared>>

\* A body the rules refuse ends the request ...
Refuse(r) ==
  /\ pc[r] = "calling" /\ ~rules.pass
  /\ ~retrying[r]
  /\ End(r, "policy")
  /\ UNCHANGED <<plan, at, attempted, retrying, books, shared>>

\* ... but the retry has no such branch: the refusal comes without a trace, so
\* the table takes it for a connection that failed before the headers.
RefuseRetry(r) ==
  /\ pc[r] = "calling" /\ ~rules.pass
  /\ retrying[r]
  /\ gate' = [gate EXCEPT ![Ep(r)] = FALSE]
  /\ retrying' = [retrying EXCEPT ![r] = FALSE]
  /\ pc' = [pc EXCEPT ![r] = "noHeaders"]
  /\ UNCHANGED <<plan, at, attempted, lease, held, draining, outcome, books,
                 config, rules, gone, budget>>

\* The upstream answers, the connection breaks, or the header timeout expires. A
\* retry opens the gate as soon as it has its answer.
Answer(r) ==
  /\ pc[r] = "upstream"
  /\ \E x \in Results :
       /\ held' = [held EXCEPT ![r] = x \notin {"noHeaders", "broken"}]
       /\ executed' = [executed EXCEPT ![r] = IF x \in Unexecuted THEN @ - 1 ELSE @]
       /\ pc' = [pc EXCEPT ![r] = IF x = "limited" /\ ~retrying[r] THEN "decide" ELSE x]
  /\ gate' = IF retrying[r] THEN [gate EXCEPT ![Ep(r)] = FALSE] ELSE gate
  /\ retrying' = [retrying EXCEPT ![r] = FALSE]
  /\ UNCHANGED <<plan, at, attempted, lease, draining, outcome, calls, charges,
                 config, rules, gone, budget>>

(***************************************************************************)
(* A first 429: wait for a short while and ask the same endpoint again, if *)
(* the delay is acceptable, the client is there and no other request waits *)
(* for this endpoint. The wait holds neither the response nor the lease.   *)
(***************************************************************************)
TakeGate(r) ==
  /\ pc[r] = "decide" /\ ~gone[r]
  /\ GateFree(Ep(r))
  /\ gate' = [gate EXCEPT ![Ep(r)] = TRUE]
  /\ retrying' = [retrying EXCEPT ![r] = TRUE]
  /\ held' = [held EXCEPT ![r] = FALSE]
  /\ lease' = [lease EXCEPT ![r] = None]
  /\ pc' = [pc EXCEPT ![r] = "waiting"]
  /\ UNCHANGED <<plan, at, attempted, draining, outcome, books,
                 config, rules, gone, budget>>

\* The delay is too long or retries are off, the client has left, or the gate is
\* taken; no step distinguishes these.
NoRetry(r) ==
  /\ pc[r] = "decide"
  /\ pc' = [pc EXCEPT ![r] = "limited"]
  /\ UNCHANGED <<plan, at, attempted, lease, held, retrying, draining,
                 outcome, books, shared>>

\* The timer fires (possibly together with the client's departure).
Wake(r) ==
  /\ pc[r] = "waiting" /\ Admits(r)
  /\ lease' = [lease EXCEPT ![r] = Ep(r)]
  /\ pc' = [pc EXCEPT ![r] = "calling"]
  /\ UNCHANGED <<plan, at, attempted, held, retrying, draining, outcome,
                 books, shared>>

\* The client left during the wait, or the endpoint no longer admits the plan.
GiveUpRetry(r) ==
  /\ pc[r] = "waiting" /\ (gone[r] \/ ~Admits(r))
  /\ gate' = [gate EXCEPT ![Ep(r)] = FALSE]
  /\ retrying' = [retrying EXCEPT ![r] = FALSE]
  /\ pc' = [pc EXCEPT ![r] = "limited"]
  /\ UNCHANGED <<plan, at, attempted, lease, held, draining, outcome, books,
                 config, rules, gone, budget>>

(***************************************************************************)
(* The switch over the decision.                                           *)
(***************************************************************************)
LimitedCancelled(r) ==
  /\ pc[r] = "limited" /\ gone[r]
  /\ End(r, "cancelled")
  /\ UNCHANGED <<plan, at, attempted, retrying, books, shared>>

\* One settlement for both answers. Whether it is applied and trips the threshold
\* is up to the failure state of the endpoint.
ChargeLimited(r) ==
  /\ pc[r] = "limited" /\ ~gone[r]
  /\ held' = [held EXCEPT ![r] = FALSE]
  /\ Charge(r)
  /\ \E next \in {"tripped", "charged"} : pc' = [pc EXCEPT ![r] = next]
  /\ UNCHANGED <<plan, at, attempted, lease, retrying, draining, outcome,
                 calls, executed, shared>>

CanTryNext(r) == /\ pc[r] = "tripped"
                 /\ at[r] < Len(plan[r]) /\ attempted[r] < budget /\ ~gone[r]

TryNext(r) ==
  /\ CanTryNext(r) /\ FALSE \in Rejects
  /\ at' = [at EXCEPT ![r] = Following(r)]
  /\ pc' = [pc EXCEPT ![r] = "loop"]
  /\ UNCHANGED <<plan, attempted, lease, held, retrying, draining, outcome,
                 books, shared>>

AnswerLimited(r) ==
  /\ pc[r] \in {"tripped", "charged"}
  /\ CanTryNext(r) => TRUE \in Rejects
  /\ End(r, "limited")
  /\ UNCHANGED <<plan, at, attempted, retrying, books, shared>>

\* markEndpointFailure, then the next candidate.
FailOver(r) ==
  /\ pc[r] \in NextCandidate
  /\ IF pc[r] \in Charged THEN Charge(r) ELSE charges' = charges
  /\ held' = [held EXCEPT ![r] = FALSE]
  /\ at' = [at EXCEPT ![r] = Following(r)]
  /\ pc' = [pc EXCEPT ![r] = "loop"]
  /\ UNCHANGED <<plan, attempted, lease, retrying, draining, outcome,
                 calls, executed, shared>>

PassError(r) ==
  /\ pc[r] \in PassthroughError
  /\ Charge(r)
  /\ End(r, "error")
  /\ UNCHANGED <<plan, at, attempted, retrying, calls, executed, shared>>

PassRaw(r) ==
  /\ pc[r] = "clientError"
  /\ End(r, "clientError")
  /\ UNCHANGED <<plan, at, attempted, retrying, books, shared>>

Process(r) ==
  /\ pc[r] = "ok"
  /\ pc' = [pc EXCEPT ![r] = IF r \in Streams THEN "stream" ELSE "body"]
  /\ draining' = [draining EXCEPT ![r] = r \in Streams /\ gone[r]]
  /\ UNCHANGED <<plan, at, attempted, lease, held, retrying, outcome,
                 books, shared>>

(***************************************************************************)
(* processEndpointRegularResponse: read the body, write it.                *)
(***************************************************************************)
Body(r) ==
  /\ pc[r] = "body"
  /\ \E o \in {"completed", "failed"} : End(r, o)
  /\ UNCHANGED <<plan, at, attempted, retrying, books, shared>>

(***************************************************************************)
(* processEndpointStreamingResponse: ProcessStream looks for the client    *)
(* before the first read, when it writes, and between two reads, so a      *)
(* later departure starts the tail-drain timer only with the next chunk.   *)
(* The upstream context is not derived from the client's (detachUpstream). *)
(***************************************************************************)
DrainExpires(r) == draining[r]

Chunk(r) ==
  /\ pc[r] = "stream" /\ gone[r] /\ ~draining[r]
  /\ draining' = [draining EXCEPT ![r] = TRUE]
  /\ UNCHANGED <<pc, plan, at, attempted, lease, held, retrying, outcome,
                 books, shared>>

\* A terminal event, the end of the body (perhaps too early), or an error; only an
\* error counts against the endpoint.
StreamEnds(r) ==
  /\ pc[r] = "stream"
  /\ \/ \E o \in {"completed", "incomplete"} : End(r, o) /\ charges' = charges
     \/ End(r, "failed") /\ Charge(r)
  /\ UNCHANGED <<plan, at, attempted, retrying, calls, executed, shared>>

DrainTimeout(r) ==
  /\ pc[r] = "stream" /\ DrainExpires(r)
  /\ End(r, "cancelled")
  /\ UNCHANGED <<plan, at, attempted, retrying, books, shared>>

(***************************************************************************)
(* Everybody else: the client, an administrative call on an endpoint (it   *)
(* closes the admission gate and publishes a configuration, or gives up),  *)
(* and the publication of privacy rules (one that changes the verdict).    *)
(***************************************************************************)
Leave(r) ==
  /\ pc[r] # "done" /\ ~gone[r]
  /\ gone' = [gone EXCEPT ![r] = TRUE]
  /\ UNCHANGED <<local, books, gate, config, rules, budget>>

CloseAdmission(e) ==
  /\ config[e].open
  /\ config' = [config EXCEPT ![e].open = FALSE]
  /\ UNCHANGED <<local, books, gate, rules, gone, budget>>

OpenAdmission(e) ==
  /\ ~config[e].open
  /\ \E n \in {config[e].rev, config[e].rev + 1} :
       /\ n <= MaxRevision
       /\ config' = [config EXCEPT ![e] = [rev |-> n, open |-> TRUE]]
  /\ UNCHANGED <<local, books, gate, rules, gone, budget>>

PublishRules ==
  /\ rules.version < MaxRules
  /\ rules' = [version |-> rules.version + 1, pass |-> ~rules.pass]
  /\ UNCHANGED <<local, books, gate, config, gone, budget>>

\* What the handler of a request does by itself, or with an upstream whose answer
\* is bounded by a timeout.
Step(r) ==
  \/ Rejected(r) \/ Prepare(r)
  \/ NoneLeft(r) \/ LoopCancelled(r) \/ Skip(r) \/ Admit(r)
  \/ Send(r) \/ Refuse(r) \/ RefuseRetry(r) \/ Answer(r)
  \/ TakeGate(r) \/ NoRetry(r) \/ Wake(r) \/ GiveUpRetry(r)
  \/ LimitedCancelled(r) \/ ChargeLimited(r) \/ TryNext(r) \/ AnswerLimited(r)
  \/ FailOver(r) \/ PassError(r) \/ PassRaw(r)
  \/ Process(r) \/ Body(r) \/ DrainTimeout(r)

Next ==
  \/ \E r \in Requests : Step(r) \/ Chunk(r) \/ StreamEnds(r) \/ Leave(r)
  \/ \E e \in Endpoints : CloseAdmission(e) \/ OpenAdmission(e)
  \/ PublishRules

\* A handler keeps running and every wait of it has a timer: the header timeout of
\* the transport, the total timeout of a request that is no stream, the delay of a
\* retry, the tail drain. Nothing bounds the silence of a stream.
Fairness == \A r \in Requests : WF_vars(Step(r))

Spec == Init /\ [][Next]_vars /\ Fairness

-----------------------------------------------------------------------------
TypeOK ==
  /\ pc \in [Requests -> Results \cup {"new", "loop", "calling", "upstream", "decide",
                                     "waiting", "tripped", "charged", "body", "stream", "done"}]
  /\ plan \in [Requests -> Seq([ep : Endpoints, rev : Nat])]
  /\ at \in [Requests -> Nat \ {0}]
  /\ \A r \in Requests : at[r] <= Len(plan[r]) + 1
  /\ budget \in Nat \ {0} /\ attempted \in [Requests -> Nat]
  /\ lease \in [Requests -> Endpoints \cup {None}]
  /\ held \in [Requests -> BOOLEAN] /\ retrying \in [Requests -> BOOLEAN]
  /\ draining \in [Requests -> BOOLEAN] /\ gone \in [Requests -> BOOLEAN]
  /\ outcome \in [Requests -> {"open", "rejected", "unavailable", "cancelled", "policy",
                               "limited", "error", "clientError", "completed", "incomplete",
                               "failed"}]
  /\ gate \in [Endpoints -> BOOLEAN]
  /\ config \in [Endpoints -> [rev : Nat, open : BOOLEAN]]
  /\ rules \in [version : Nat, pass : BOOLEAN]
  /\ calls \in [Requests -> [Endpoints -> Nat]]
  /\ charges \in [Requests -> [Endpoints -> Nat]]
  /\ executed \in [Requests -> Nat]

\* A request is carried out at most once, over all candidates and retries: only a
\* call that certainly was not carried out may be repeated. A client that is told
\* to try again (503, 429, policy) has had no call carried out at all.
AtMostOnce ==
  \A r \in Requests :
    /\ executed[r] <= 1
    /\ outcome[r] \in {"unavailable", "limited", "policy", "rejected"} => executed[r] = 0
    /\ outcome[r] \in {"completed", "incomplete"} => executed[r] = 1

\* At most one request waits for, or makes, the 429 retry of an endpoint, and the
\* gate of an endpoint is closed exactly while one does.
GateMatchesWaiter ==
  \A e \in Endpoints :
    /\ gate[e] <=> \E r \in Requests : retrying[r] /\ Ep(r) = e
    /\ \A r, s \in Requests :
         retrying[r] /\ retrying[s] /\ Ep(r) = e /\ Ep(s) = e => r = s

\* Whoever waits for a retry keeps neither its admission (a disable must not wait
\* for it) nor the response; a request that has ended keeps nothing.
NothingHeld ==
  \A r \in Requests :
    /\ pc[r] = "waiting" => lease[r] = None /\ ~held[r]
    /\ pc[r] = "done" => lease[r] = None /\ ~held[r] /\ ~retrying[r] /\ ~draining[r]
    /\ pc[r] \in {"calling", "upstream", "body", "stream"} => lease[r] = Ep(r)

\* A request counts at most once against an endpoint, two 429s included, and a
\* request that ends as cancelled does not count against the one it was at.
ChargedOnce ==
  \A r \in Requests :
    /\ \A e \in Endpoints : charges[r][e] <= 1
    /\ outcome[r] = "cancelled" /\ at[r] <= Len(plan[r]) => charges[r][Ep(r)] = 0

\* No more endpoints are called than the budget allows, none more than twice.
BudgetKept ==
  \A r \in Requests :
    /\ Cardinality({e \in Endpoints : calls[r][e] > 0}) <= budget
    /\ \A e \in Endpoints : calls[r][e] <= 2

\* What one request costs, in calls of the upstreams and in their reputation.
EffortIsBounded == ChargedOnce /\ BudgetKept

\* forwarder.go: the stream is drained for a short time after the client has left.
GoneEnds == \A r \in Requests : gone[r] ~> pc[r] = "done"

\* A refusal by the privacy rules ends the request; no failover, no cooldown.
PolicyIsFinal ==
  [][\A r \in Requests : pc[r] = "calling" /\ ~rules.pass /\ pc'[r] # pc[r]
                        => pc'[r] = "done"]_vars
=============================================================================
