-------------------------- MODULE EndpointAdmission --------------------------
(***************************************************************************)
(* ONE endpoint name between its row in the database and its object in the *)
(* manager: the operations that write the row first and publish the object *)
(* afterwards, the gate that a disable or a delete closes, and the attempts*)
(* of requests, each of which holds an admission while it uses the object. *)
(* internal/service/endpoint.go, app_api_storage.go,                       *)
(* internal/endpoint/{attempt_plan,config_publish,endpoint_crud}.go and    *)
(* the admission handling of internal/proxy/endpoint_pipeline.go.          *)
(***************************************************************************)
EXTENDS Integers, FiniteSets

CONSTANTS
  Attempts,       \* endpoint attempts of requests
  Ops,            \* administrative calls, each runs once
  Kinds,          \* which calls the environment makes
  MaxRunning,     \* calls running at the same time
  MaxRetries,     \* bound on Acquire per attempt: the first one and a 429 retry
  MaxObjects, MaxRevision   \* bounds

ASSUME AdmissionAssumption ==
  /\ IsFiniteSet(Attempts)
  /\ Kinds \subseteq {"availability", "delete", "create", "edit"}
  /\ {MaxRunning, MaxRetries, MaxRevision} \subseteq Nat /\ MaxObjects \in Nat \ {0}

VARIABLES
  rec,         \* row in endpoints: exists, availability_enabled, the other columns
  live,        \* the manager's object; inst 0 = none
  gate,        \* pendingGates[name]
  admissions,  \* Endpoint.admissions, by object
  att,         \* the attempts
  op,          \* the administrative calls
  torn,        \* ghost: the compensation of a failed call failed as well
  made         \* objects and revisions given out so far

vars == <<rec, live, gate, admissions, att, op, torn, made>>

-----------------------------------------------------------------------------
Objects == 1..MaxObjects

Configs == Ops \cup {"initial"}      \* which call wrote the other columns
Records == [exists : BOOLEAN, enabled : BOOLEAN, cfg : Configs]
NoRecord == [exists |-> FALSE, enabled |-> FALSE, cfg |-> "initial"]
Lives == [inst : 0..MaxObjects, rev : Nat, enabled : BOOLEAN, cfg : Configs]
NoObject == [inst |-> 0, rev |-> 0, enabled |-> FALSE, cfg |-> "initial"]

\* Acquire holds endpointConfigMu for reading in "gate" and "config".
AttemptPCs == {"idle", "planned", "gate", "config", "sent", "waiting", "done"}
IdleAttempt == [pc |-> "idle", inst |-> 0, rev |-> 0, cfg |-> "initial",
                uses |-> "initial", tries |-> 0]

OpPCs == {"idle", "existing", "read", "gate", "persist", "wait", "drain", "publish", "rollback",
          "deleteRow", "remove", "abort", "release", "insert", "add", "update",
          "sync", "apply", "done"}

\* to: the availability asked for; keep: the one the edit form was read with;
\* prev: the one to roll back to; inst: the object waited for or looked up;
\* drained: its counter was seen at 0; held: nobody opened the gate since.
IdleOp == [kind |-> "availability", pc |-> "idle", to |-> FALSE, keep |-> FALSE,
           prev |-> FALSE, inst |-> 0, drained |-> FALSE, held |-> FALSE]

Running == {o \in Ops : op[o].pc \notin {"idle", "done"}}

\* Publishing needs the write lock.
ConfigLockFree == \A a \in Attempts : att[a].pc \notin {"gate", "config"}

\* The name is in use, or free.
Init ==
  /\ \/ /\ rec = [exists |-> TRUE, enabled |-> TRUE, cfg |-> "initial"]
        /\ live = [inst |-> 1, rev |-> 1, enabled |-> TRUE, cfg |-> "initial"]
        /\ made = [inst |-> 1, rev |-> 1]
     \/ /\ rec = NoRecord
        /\ live = NoObject
        /\ made = [inst |-> 0, rev |-> 0]
  /\ gate = FALSE
  /\ admissions = [i \in Objects |-> 0]
  /\ att = [a \in Attempts |-> IdleAttempt]
  /\ op = [o \in Ops |-> IdleOp]
  /\ torn = FALSE

-----------------------------------------------------------------------------
(* Attempts.                                                                *)

GotoA(a, pc) == att' = [att EXCEPT ![a].pc = pc]

\* A request plans the endpoint: the snapshot freezes revision and credentials.
Plan(a) ==
  /\ att[a].pc = "idle" /\ live.inst # 0
  /\ att' = [att EXCEPT ![a].pc = "planned", ![a].rev = live.rev, ![a].cfg = live.cfg]
  /\ UNCHANGED <<rec, live, gate, admissions, op, torn, made>>

\* AcquireEndpointAttempt counts the attempt first ...
Register(a) ==
  /\ att[a].pc \in {"planned", "waiting"} /\ att[a].tries < MaxRetries
  /\ IF live.inst = 0
     THEN /\ GotoA(a, "done")
          /\ UNCHANGED admissions
     ELSE /\ admissions' = [admissions EXCEPT ![live.inst] = @ + 1]
          /\ att' = [att EXCEPT ![a].pc = "gate", ![a].inst = live.inst, ![a].tries = @ + 1]
  /\ UNCHANGED <<rec, live, gate, op, torn, made>>

NoReturn(a) == admissions                                    \* faulty variant
Returned(a) == [admissions EXCEPT ![att[a].inst] = @ - 1]

\* ... then looks at the gate ...
GateIgnored(a) == TRUE                                       \* faulty variant
GateOpen(a) == ~gate

CheckGate(a) ==
  /\ att[a].pc = "gate"
  /\ IF GateOpen(a)
     THEN GotoA(a, "config") /\ UNCHANGED admissions
     ELSE GotoA(a, "done") /\ admissions' = Returned(a)
  /\ UNCHANGED <<rec, live, gate, op, torn, made>>

\* ... and at the configuration, of which the attempt takes a copy.
SameNameOnly(a) == live.enabled                              \* faulty variant
StillPlanned(a) == live.enabled /\ live.rev = att[a].rev

CheckConfig(a) ==
  /\ att[a].pc = "config"
  /\ IF StillPlanned(a)
     THEN att' = [att EXCEPT ![a].pc = "sent", ![a].uses = live.cfg] /\ UNCHANGED admissions
     ELSE GotoA(a, "done") /\ admissions' = Returned(a)
  /\ UNCHANGED <<rec, live, gate, op, torn, made>>

\* The attempt ends, or a 429 is waited out without the admission.
Release(a, next) ==
  /\ att[a].pc = "sent"
  /\ GotoA(a, next)
  /\ admissions' = Returned(a)
  /\ UNCHANGED <<rec, live, gate, op, torn, made>>

Attempt(a) ==
  \/ Plan(a) \/ Register(a) \/ CheckGate(a) \/ CheckConfig(a)
  \/ Release(a, "waiting") \/ Release(a, "done")

-----------------------------------------------------------------------------
(* Setting the availability: SetEndpointAvailability.                       *)

GotoO(o, pc) == op' = [op EXCEPT ![o].pc = pc]

Starts(o, kind) ==
  op[o].pc = "idle" /\ kind \in Kinds /\ Cardinality(Running) < MaxRunning

BeginAvailability(o, to) ==
  /\ Starts(o, "availability")
  /\ op' = [op EXCEPT ![o].pc = "read", ![o].to = to]
  /\ UNCHANGED <<rec, live, gate, admissions, att, torn, made>>

ReadRecord(o) ==
  /\ op[o].pc = "read"
  /\ op' = [op EXCEPT ![o].prev = rec.enabled,
                      ![o].pc = IF ~rec.exists THEN "done"
                                ELSE IF op[o].to THEN "persist" ELSE "gate"]
  /\ UNCHANGED <<rec, live, gate, admissions, att, torn, made>>

\* A disable and a delete close the gate before anything else.
CloseGate(o) ==
  /\ op[o].pc = "gate"
  /\ gate' = TRUE
  /\ op' = [op EXCEPT ![o].pc = IF op[o].kind = "delete" THEN "wait" ELSE "persist",
                      ![o].held = TRUE]
  /\ UNCHANGED <<rec, live, admissions, att, torn, made>>

PersistAvailability(o) ==
  /\ op[o].pc = "persist"
  /\ \/ /\ rec.exists
        /\ rec' = [rec EXCEPT !.enabled = op[o].to]
        /\ GotoO(o, IF op[o].to THEN "publish" ELSE "wait")
     \/ /\ UNCHANGED rec                    \* the write fails
        /\ GotoO(o, IF op[o].to THEN "done" ELSE "abort")
  /\ UNCHANGED <<live, gate, admissions, att, torn, made>>

AfterDrain(o) == IF op[o].kind = "delete" THEN "deleteRow" ELSE "publish"

\* WaitAdmissionsDrained polls the counter of the object it finds ...
StartDrain(o) ==
  /\ op[o].pc = "wait"
  /\ op' = [op EXCEPT ![o].inst = live.inst,
                      ![o].drained = live.inst = 0,
                      ![o].pc = IF live.inst = 0 THEN AfterDrain(o) ELSE "drain"]
  /\ UNCHANGED <<rec, live, gate, admissions, att, torn, made>>

Drained(o) ==
  /\ op[o].pc = "drain" /\ admissions[op[o].inst] = 0
  /\ op' = [op EXCEPT ![o].drained = TRUE, ![o].pc = AfterDrain(o)]
  /\ UNCHANGED <<rec, live, gate, admissions, att, torn, made>>

\* ... and gives up after endpointAdmissionDrainTimeout.
NeverTimesOut(o) == FALSE                                    \* faulty variant
TimesOut(o) == op[o].pc = "drain"

DrainTimeout(o) ==
  /\ TimesOut(o)
  /\ GotoO(o, AfterDrain(o))
  /\ UNCHANGED <<rec, live, gate, admissions, att, torn, made>>

NewRevision == made.rev + 1

\* PublishEndpointAvailability; without an object the row is rolled back.
PublishAvailability(o) ==
  /\ op[o].pc = "publish" /\ ConfigLockFree /\ made.rev < MaxRevision
  /\ IF live.inst = 0
     THEN /\ GotoO(o, "rollback")
          /\ UNCHANGED <<live, made>>
     ELSE /\ live' = [live EXCEPT !.enabled = op[o].to, !.rev = NewRevision]
          /\ made' = [made EXCEPT !.rev = NewRevision]
          /\ GotoO(o, "release")
  /\ UNCHANGED <<rec, gate, admissions, att, torn>>

RolledBack(o) == [rec EXCEPT !.enabled = IF rec.exists THEN op[o].prev ELSE FALSE]

Rollback(o) ==
  /\ op[o].pc = "rollback"
  /\ \/ rec' = RolledBack(o) /\ UNCHANGED torn
     \/ UNCHANGED rec /\ torn' = (torn \/ rec.exists)        \* fails as well
  /\ GotoO(o, "abort")
  /\ UNCHANGED <<live, gate, admissions, att, made>>

\* The last step of a call: the gate is opened, whoever closed it.  An edit
\* that disables goes on with the other columns.
OpenGate(o) ==
  /\ op[o].pc \in {"release", "abort"}
  /\ gate' = FALSE
  /\ op' = [x \in Ops |->
       IF x # o THEN [op[x] EXCEPT !.held = FALSE]
       ELSE [op[o] EXCEPT !.held = FALSE,
                          !.pc = IF op[o].kind = "edit" /\ ~op[o].to /\ op[o].pc = "release"
                                 THEN "update" ELSE "done"]]
  /\ UNCHANGED <<rec, live, admissions, att, torn, made>>

-----------------------------------------------------------------------------
(* DeleteEndpoint; routingMu admits one delete at a time.                   *)

BeginDelete(o) ==
  /\ Starts(o, "delete")
  /\ \A x \in Running : op[x].kind # "delete"
  /\ op' = [op EXCEPT ![o].kind = "delete", ![o].pc = IF rec.exists THEN "gate" ELSE "done"]
  /\ UNCHANGED <<rec, live, gate, admissions, att, torn, made>>

DeleteRow(o) ==
  /\ op[o].pc = "deleteRow"
  /\ \/ rec.exists /\ rec' = NoRecord /\ GotoO(o, "remove")
     \/ UNCHANGED rec /\ GotoO(o, "abort")
  /\ UNCHANGED <<live, gate, admissions, att, torn, made>>

RemoveObject(o) ==
  /\ op[o].pc = "remove" /\ ConfigLockFree
  /\ live' = NoObject
  /\ GotoO(o, "release")
  /\ UNCHANGED <<rec, gate, admissions, att, torn, made>>

-----------------------------------------------------------------------------
(* CreateEndpoint.                                                          *)

BeginCreate(o, to) ==
  /\ Starts(o, "create")
  /\ op' = [op EXCEPT ![o].kind = "create", ![o].to = to,
                      ![o].pc = IF live.inst # 0 THEN "done" ELSE "insert"]
  /\ UNCHANGED <<rec, live, gate, admissions, att, torn, made>>

InsertRow(o) ==
  /\ op[o].pc = "insert"
  /\ \/ /\ ~rec.exists
        /\ rec' = [exists |-> TRUE, enabled |-> op[o].to, cfg |-> o]
        /\ GotoO(o, "add")
     \/ UNCHANGED rec /\ GotoO(o, "done")
  /\ UNCHANGED <<live, gate, admissions, att, torn, made>>

EnabledByDefault(enabled, o) ==                              \* faulty variant
  [inst |-> made.inst + 1, rev |-> NewRevision, enabled |-> TRUE, cfg |-> o]
NewObject(enabled, o) ==
  [inst |-> made.inst + 1, rev |-> NewRevision, enabled |-> enabled, cfg |-> o]

CanAdd == made.inst < MaxObjects /\ made.rev < MaxRevision

\* AddEndpoint; a name taken meanwhile deletes the row again.
AddObject(o) ==
  /\ op[o].pc = "add" /\ ConfigLockFree
  /\ IF live.inst = 0
     THEN /\ CanAdd
          /\ live' = NewObject(op[o].to, o)
          /\ made' = [inst |-> made.inst + 1, rev |-> NewRevision]
          /\ UNCHANGED <<rec, torn>>
     ELSE /\ UNCHANGED <<live, made>>
          /\ \/ rec' = NoRecord /\ UNCHANGED torn
             \/ UNCHANGED rec /\ torn' = (torn \/ rec.exists)
  /\ GotoO(o, "done")
  /\ UNCHANGED <<gate, admissions, att>>

-----------------------------------------------------------------------------
(* UpdateEndpointRecord: the form keeps the availability or changes it.     *)

BeginEdit(o) ==
  /\ Starts(o, "edit")
  /\ op' = [op EXCEPT ![o].kind = "edit", ![o].pc = "existing"]
  /\ UNCHANGED <<rec, live, gate, admissions, att, torn, made>>

\* The record is read once; to = keep when the form leaves the availability.
ReadExisting(o, to) ==
  /\ op[o].pc = "existing"
  /\ op' = [op EXCEPT ![o].to = to, ![o].keep = rec.enabled,
                      ![o].pc = IF ~rec.exists THEN "done"
                                ELSE IF rec.enabled /\ ~to THEN "read" ELSE "update"]
  /\ UNCHANGED <<rec, live, gate, admissions, att, torn, made>>

\* The availability the edit writes with the other columns: the one it read,
\* unless it has just disabled the endpoint itself.
WantedAvailability(o) == op[o].to                            \* faulty variant
EditedAvailability(o) == op[o].keep /\ op[o].to

UpdateRow(o) ==
  /\ op[o].pc = "update"
  /\ \/ /\ rec.exists
        /\ rec' = [rec EXCEPT !.enabled = EditedAvailability(o), !.cfg = o]
        /\ GotoO(o, "sync")
     \/ UNCHANGED rec /\ GotoO(o, "done")
  /\ UNCHANGED <<live, gate, admissions, att, torn, made>>

\* syncEndpointRuntime looks the object up to update it or to add it ...
LookUpObject(o) ==
  /\ op[o].pc = "sync"
  /\ op' = [op EXCEPT ![o].inst = live.inst, ![o].pc = "apply"]
  /\ UNCHANGED <<rec, live, gate, admissions, att, torn, made>>

\* ... under the lock; a failure is only logged.  An edit that enables opens
\* the admission last.
ApplyConfig(o) ==
  /\ op[o].pc = "apply" /\ ConfigLockFree
  /\ \/ /\ op[o].inst = 0 /\ live.inst = 0 /\ CanAdd
        /\ live' = NewObject(EditedAvailability(o), o)
        /\ made' = [inst |-> made.inst + 1, rev |-> NewRevision]
     \/ /\ op[o].inst # 0 /\ live.inst # 0 /\ made.rev < MaxRevision
        /\ live' = [inst |-> live.inst, rev |-> NewRevision,
                     enabled |-> EditedAvailability(o), cfg |-> o]
        /\ made' = [made EXCEPT !.rev = NewRevision]
     \/ /\ ~(op[o].inst = 0 <=> live.inst = 0)
        /\ UNCHANGED <<live, made>>
  /\ GotoO(o, IF op[o].to /\ ~op[o].keep THEN "read" ELSE "done")
  /\ UNCHANGED <<rec, gate, admissions, att, torn>>

-----------------------------------------------------------------------------
SetAvailability(o) ==
  \/ \E to \in BOOLEAN : BeginAvailability(o, to)
  \/ ReadRecord(o) \/ CloseGate(o) \/ PersistAvailability(o)
  \/ StartDrain(o) \/ Drained(o) \/ DrainTimeout(o)
  \/ PublishAvailability(o) \/ Rollback(o) \/ OpenGate(o)

Delete(o) == BeginDelete(o) \/ DeleteRow(o) \/ RemoveObject(o)

Create(o) == (\E to \in BOOLEAN : BeginCreate(o, to)) \/ InsertRow(o) \/ AddObject(o)

Edit(o) ==
  \/ BeginEdit(o) \/ (\E to \in BOOLEAN : ReadExisting(o, to))
  \/ UpdateRow(o) \/ LookUpObject(o) \/ ApplyConfig(o)

Operate(o) == SetAvailability(o) \/ Delete(o) \/ Create(o) \/ Edit(o)

Next == (\E a \in Attempts : Attempt(a)) \/ (\E o \in Ops : Operate(o))

Spec == Init /\ [][Next]_vars

\* A call that runs and a lock that is held go on; upstreams owe nothing, so
\* an attempt may hold its admission for ever.
Fairness ==
  /\ \A o \in Ops : WF_vars(op[o].pc # "idle" /\ Operate(o))
  /\ \A a \in Attempts : WF_vars(CheckGate(a) \/ CheckConfig(a))

FairSpec == Spec /\ Fairness

-----------------------------------------------------------------------------
(* Properties.                                                              *)

AttemptRecords ==
  [pc : AttemptPCs, inst : 0..MaxObjects, rev : Nat, cfg : Configs, uses : Configs, tries : Nat]

OpRecords ==
  [kind : {"availability", "delete", "create", "edit"}, pc : OpPCs, to : BOOLEAN,
   keep : BOOLEAN, prev : BOOLEAN, inst : 0..MaxObjects, drained : BOOLEAN, held : BOOLEAN]

\* Every variable stays in its domain; no admission counter goes negative.
TypeOK ==
  /\ rec \in Records
  /\ live \in Lives
  /\ gate \in BOOLEAN
  /\ admissions \in [Objects -> Nat]
  /\ att \in [Attempts -> AttemptRecords]
  /\ op \in [Ops -> OpRecords]
  /\ torn \in BOOLEAN
  /\ made \in [inst : 0..MaxObjects, rev : Nat]

Holders(i) == {a \in Attempts : att[a].inst = i /\ att[a].pc \in {"gate", "config", "sent"}}

\* The counter of an object is the number of attempts that hold it: whatever
\* path an attempt leaves by, it gives its admission back exactly once
\* (attempt_plan.go:97-110).
AdmissionsCounted == \A i \in Objects : admissions[i] = Cardinality(Holders(i))

Past(o) == op[o].pc \in {"publish", "deleteRow", "remove", "release"}

\* "After the gate is set a new attempt must fail, and an attempt that passed
\* must be seen by WaitAdmissionsDrained" (attempt_plan.go:114-115): once a
\* disable or a delete saw the counter at zero, no attempt uses the object,
\* as long as nobody opened the gate.
DrainedIsIdle ==
  \A o \in Ops : Past(o) /\ op[o].drained /\ op[o].held =>
    \A a \in Attempts : att[a].pc = "sent" => att[a].inst # op[o].inst

\* An attempt uses the configuration it was planned with: credentials frozen
\* in the plan never go to the address of a later configuration
\* (attempt_plan.go:118-119 and 158-159).
PlannedConfigIsUsed == \A a \in Attempts : att[a].pc = "sent" => att[a].uses = att[a].cfg

Quiet == Running = {}

\* Persist, then publish, and compensate (service/endpoint.go:184-186): when no
\* call is running the manager has the endpoint that the database has, with
\* the same configuration.
RuntimeFollowsRecord ==
  Quiet /\ ~torn =>
    /\ rec.exists <=> live.inst # 0
    /\ rec.exists => rec.enabled = live.enabled /\ rec.cfg = live.cfg

\* "The availability can only be changed by SetEndpointAvailability, an edit
\* keeps it" (app_api_storage.go:321): the write of an edit leaves
\* availability_enabled as it is.
KeepsAvailability(o) ==
  op[o].pc = "update" /\ op'[o].pc = "sync" => rec'.enabled = rec.enabled

\* A leaked admission cannot block a disable or a delete for ever
\* (attempt_plan.go:280-281): every call ends.
CallsEnd == \A o \in Ops : op[o].pc # "idle" ~> op[o].pc = "done"
=============================================================================
