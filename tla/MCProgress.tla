----------------------------- MODULE MCProgress -----------------------------
(***************************************************************************)
(* Small instances for TLC of what must come to an end: a request in the   *)
(* endpoint pipeline or the account pipeline, an administrative call, the  *)
(* record of a request, and the tracker itself.  Each part is weakly fair  *)
(* as its own module justifies.  A behaviour is the one part that `part`   *)
(* names; the fairness of the others is void there.                        *)
(***************************************************************************)
EXTENDS AccountPipeline

CONSTANTS Requests, Streams, e1

ASSUME RequestsAssumption == IsFiniteSet(Requests) /\ Requests # {}

VARIABLES
  part,
  rec, live, admitting, admissions, att, op, torn, made,
  rqPc, plan, at, attempted, lease, rqHeld, retrying, draining, outcome, rqGone, gate, config,
  budget, rules, calls, charges, executed,
  phase, handler, place, mem, persisted, leaving, update, row, archiveChan, arch, eventChan, ev, ended

callVars == <<rec, live, admitting, admissions, att, op, torn, made>>
accountVars == pipeVars
requestVars == <<rqPc, plan, at, attempted, lease, rqHeld, retrying, draining, outcome, rqGone, gate,
                 config, budget, rules, calls, charges, executed>>
trackingVars == <<phase, handler, place, mem, persisted, leaving, update, row, archiveChan, arch,
                  eventChan, ev, ended>>
allVars == <<part, requestVars, callVars, accountVars, trackingVars>>

\* Requests that may all be offered the one endpoint.
Pipeline == INSTANCE EndpointPipeline
              WITH pc <- rqPc, held <- rqHeld, gone <- rqGone,
                   Endpoints <- {e1}, Offers <- [r \in Requests |-> {e1}], Budgets <- {1},
                   Rejects <- {FALSE}, MaxRevision <- 1, MaxRules <- 1, None <- "none"

\* Calls of every kind, two in a row, against one attempt.
Admission == INSTANCE EndpointAdmission
               WITH gate <- admitting, Attempts <- {"a1"}, Ops <- {"o1", "o2"},
                    Kinds <- {"availability", "delete", "create", "edit"},
                    MaxRunning <- 1, MaxRetries <- 1, MaxObjects <- 2, MaxRevision <- 5

\* Room for every request in the pool, and for all that is sent of it in the channels,
\* and no faults.
Room == Cardinality(Requests)
Tracking == INSTANCE RequestTracking
              WITH Notes <- {"n1"}, PoolSize <- Room, BufferSize <- 3 * Room, BatchSize <- 2,
                   MaxRetry <- 1,
                   Outcomes <- {"complete", "fail", "failTokens", "cancel"}, Faults <- {}

\* The tracker is closed at any moment; the requests just fit in.
Closing == INSTANCE RequestTracking
             WITH Notes <- {"n1"}, PoolSize <- Room, BufferSize <- Room, BatchSize <- 2,
                  MaxRetry <- 2, Outcomes <- {"complete"}, Faults <- {"close"}

-----------------------------------------------------------------------------
MCInit ==
  /\ part \in {"request", "call", "account", "tracking", "closing"}
  /\ Init /\ Pipeline!Init /\ Admission!Init /\ Tracking!Init
  /\ part # "call" => rec.exists
  /\ part # "account" => sse

MCNext ==
  /\ UNCHANGED part
  /\ \/ part = "request" /\ Pipeline!Next /\ UNCHANGED <<callVars, accountVars, trackingVars>>
     \/ part = "call" /\ Admission!Next /\ UNCHANGED <<requestVars, accountVars, trackingVars>>
     \/ part = "account" /\ Next /\ UNCHANGED <<requestVars, callVars, trackingVars>>
     \/ part = "tracking" /\ Tracking!Next /\ UNCHANGED <<requestVars, callVars, accountVars>>
     \/ part = "closing" /\ Closing!Next /\ UNCHANGED <<requestVars, callVars, accountVars>>

\* The fairness of EndpointPipeline, EndpointAdmission, AccountPipeline and
\* RequestTracking, each where its part runs.
RequestFairness == \A r \in Requests : WF_requestVars(part = "request" /\ Pipeline!Step(r))

CallFairness ==
  /\ \A o \in {"o1", "o2"} : WF_callVars(part = "call" /\ op[o].pc # "idle" /\ Admission!Operate(o))
  /\ WF_callVars(part = "call" /\ (Admission!CheckGate("a1") \/ Admission!CheckConfig("a1")))

AccountFairness ==
  /\ WF_accountVars(part = "account" /\ Handler)
  /\ WF_accountVars(part = "account" /\ TailDrainFires)
  /\ WF_accountVars(part = "account" /\ (SendFails(TRUE) \/ SendFails(FALSE)))
  /\ WF_accountVars(part = "account" /\ ReadCut)

TrackingFairness ==
  /\ \A r \in Requests :
       /\ WF_trackingVars(part = "tracking" /\ \/ Tracking!Move(r) \/ Tracking!Finalize(r)
                                               \/ Tracking!FinalEvent(r) \/ Tracking!RecordTokens(r))
       /\ WF_trackingVars(part = "tracking" /\ Tracking!Leave(r))
  /\ WF_trackingVars(part = "tracking" /\ Tracking!Take)
  /\ WF_trackingVars(part = "tracking" /\ Tracking!Commit)
  /\ WF_trackingVars(part = "tracking" /\ Tracking!Confirm)
  /\ WF_trackingVars(part = "tracking" /\ Tracking!Receive)
  /\ WF_trackingVars(part = "tracking" /\ Tracking!Tick)
  /\ WF_trackingVars(part = "tracking" /\ Tracking!WriteEvent)

MCSpec == /\ MCInit /\ [][MCNext]_allVars
          /\ RequestFairness /\ CallFairness /\ AccountFairness /\ TrackingFairness

-----------------------------------------------------------------------------
\* Every request ends or gets to a stream, and a stream whose client is known to have
\* left ends; at the account pool so does every request whose client has left.
RequestsEnd ==
  /\ part = "request" ~> \A r \in Requests : rqPc[r] \in {"stream", "done"}
  /\ \A r \in Streams : draining[r] ~> rqPc[r] = "done"
  /\ LeftRequestEnds

\* Every administrative call ends although an attempt may keep its admission for ever.
CallsEnd == Admission!CallsEnd

\* With room and no faults, every ended request and every update gets to its row.
EverythingIsRecorded ==
  /\ \A r \in Requests : part = "tracking" /\ Tracking!HasEnded(r)
                          ~> row[r].c.status \in Tracking!Closed
  /\ \A u \in Tracking!Updates :
       part = "tracking" /\ update[u] \in {"kept", "sent"} /\ Tracking!HasEnded(u[1])
       ~> u[2] \in row[u[1]].c.notes

\* Then the tokens are there too, with their cost; and a graceful shutdown loses no
\* request that had ended before it began.
RecordsAreComplete ==
  /\ part = "tracking" => Tracking!TokensReachTheRow
  /\ part = "closing" => Closing!ShutdownKeepsFinished
=============================================================================
