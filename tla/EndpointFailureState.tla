------------------------ MODULE EndpointFailureState ------------------------
(***************************************************************************)
(* What the endpoint manager remembers about the failures of ONE endpoint  *)
(* name: the two cooldown slots and the failure epoch of the Endpoint      *)
(* object, the soft failures and the count_tokens cooldown that are keyed  *)
(* by its name, and its place as the retained endpoint of its tier.        *)
(* internal/endpoint/{manager,failover,soft_failure_tracker,attempt_plan,  *)
(* auto_retention,config_publish,endpoint_crud}.go, with the settlements   *)
(* of internal/proxy/endpoint_pipeline.go and handlers/count_tokens.go.    *)
(*                                                                         *)
(* Every attempt is planned from a snapshot, runs while the configuration  *)
(* and the failure epoch may move on, and settles in several critical      *)
(* sections.  endpointConfigMu is held for reading from the first to the   *)
(* last section of a settlement (Settling); the configuration operations   *)
(* hold it for writing and are one step each.  A manual reset takes only   *)
(* ep.mutex, so it can run between any two sections.                       *)
(*                                                                         *)
(* Pending gates and admission leases are in EndpointAdmission, the        *)
(* persisted copy of a cooldown in CooldownPersistence.                    *)
(***************************************************************************)
EXTENDS Integers, FiniteSets

CONSTANTS
  Attempts,     \* upstream attempts; each runs once
  Categories,   \* soft failure categories
  Durations,    \* cooldown lengths
  Threshold,    \* failures in the window that trip a cooldown
  Window,       \* length of the failure window
  MaxTime, MaxInstances, MaxRevision, MaxEpoch, MaxRoute   \* bounds

ASSUME FailureAssumption ==
  /\ Durations \subseteq Nat \ {0}
  /\ {Threshold, Window} \subseteq Nat \ {0}
  /\ {MaxTime, MaxInstances, MaxRevision, MaxEpoch, MaxRoute} \subseteq Nat

VARIABLES
  now,       \* the clock
  ep,        \* the live Endpoint object; inst = 0 when the name is not in use
  slot,      \* its cooldown slots (Status.CooldownUntil, GlobalCooldownUntil)
  soft,      \* SoftFailureTracker.events of the name
  scoped,    \* ScopedCooldowns entry of the name (count_tokens only)
  retained,  \* the name is the retained endpoint of its priority tier
  routeRev,  \* revision of the manual routing override
  resetting, \* the object a manual reset has looked up, 0 when none is running
  att,       \* the attempts
  made       \* objects created and configuration revisions given out so far

vars == <<now, ep, slot, soft, scoped, retained, routeRev, resetting, att, made>>

-----------------------------------------------------------------------------
Slots == {"global", "messages"}
Paths == {"messages", "count_tokens"}

\* Who left a piece of evidence: the object and the epoch its attempt was
\* planned under.  Ghost data, never read by an action.
Tags == [inst : Nat, epoch : Nat]
NoTag == [inst |-> 0, epoch |-> 0]

NoCooldown == [until |-> 0, tag |-> NoTag]
Cooldowns  == [until : Nat, tag : Tags]
Events     == [at : Nat, by : Attempts, tag : Tags]
NoEvents   == [p \in Paths |-> [c \in Categories |-> {}]]

PCs == {"idle", "planned", "sent", "record", "trip", "auth", "clear",
        "succeeded", "retain", "done"}

IdleAttempt == [pc |-> "idle", path |-> "messages", inst |-> 0, rev |-> 0,
                epoch |-> 0, start |-> 0, route |-> 0]

Active(cooldown) == cooldown.until > now
TagOf(a) == [inst |-> att[a].inst, epoch |-> att[a].epoch]

\* The attempts that hold endpointConfigMu for reading.
Settling == {a \in Attempts : att[a].pc \in {"record", "trip", "auth", "clear", "retain"}}

\* A configuration operation gets the write lock only when no settlement runs.
ConfigLockIgnored == TRUE                                    \* faulty variant
ConfigLockFree == Settling = {}

\* classifyEndpointRoutable without the negative cache.
Routable(path) ==
  /\ ~Active(slot["global"])
  /\ path = "messages" => ~Active(slot["messages"])
  /\ path = "count_tokens" => ~Active(scoped)

Init ==
  /\ now = 0
  /\ ep = [inst |-> 1, rev |-> 1, epoch |-> 0, hard |-> TRUE]
  /\ slot = [s \in Slots |-> NoCooldown]
  /\ soft = NoEvents
  /\ scoped = NoCooldown
  /\ retained = FALSE
  /\ routeRev = 0
  /\ resetting = 0
  /\ att = [a \in Attempts |-> IdleAttempt]
  /\ made = [inst |-> 1, rev |-> 1]

Goto(a, pc) == att' = [att EXCEPT ![a].pc = pc]

-----------------------------------------------------------------------------
(* Planning and admission of an attempt.                                   *)

\* PrepareRouteCandidates puts the endpoint in the plan of a request: the
\* snapshot captures revision and epoch in one critical section.
Plan(a, path) ==
  /\ att[a].pc = "idle"
  /\ ep.inst # 0 /\ ep.hard /\ Routable(path)
  /\ att' = [att EXCEPT ![a] =
       [pc |-> "planned", path |-> path, inst |-> ep.inst, rev |-> ep.rev,
        epoch |-> ep.epoch, start |-> now, route |-> routeRev]]
  /\ UNCHANGED <<now, ep, slot, soft, scoped, retained, routeRev, resetting, made>>

\* AcquireEndpointAttempt checks the object again just before the request is sent.
Acquire(a) ==
  /\ att[a].pc = "planned"
  /\ Goto(a, IF ep.inst # 0 /\ ep.hard /\ ep.rev = att[a].rev THEN "sent" ELSE "done")
  /\ UNCHANGED <<now, ep, slot, soft, scoped, retained, routeRev, resetting, made>>

-----------------------------------------------------------------------------
(* A failed attempt: ApplyEndpointFailureSettlement and its callback.       *)

SameConfig(a) == ep.inst # 0 /\ ep.rev = att[a].rev

\* The comparison made inside ep.mutex at the moment of the write.
NoFence(a) == TRUE                                           \* faulty variant
Fence(a) == ep.epoch = att[a].epoch

\* The upstream failed: the settlement is entered, or skipped as outdated.
\* "auth" is a rejected credential, "record" a soft failure of either path.
EnterFailure(a, kind) ==
  /\ att[a].pc = "sent"
  /\ Goto(a, IF SameConfig(a) /\ ep.epoch = att[a].epoch THEN kind ELSE "done")
  /\ UNCHANGED <<now, ep, slot, soft, scoped, retained, routeRev, resetting, made>>

InWindow(events) == {e \in events : e.at > now - Window}

\* RecordSoftFailureFenced; the category's window is dropped when it trips.
RecordSoftFailure(a, c) ==
  /\ att[a].pc = "record"
  /\ LET path  == att[a].path
         valid == InWindow(soft[path][c]) \cup {[at |-> now, by |-> a, tag |-> TagOf(a)]}
         trips == Cardinality(valid) >= Threshold
     IN  IF Fence(a)
         THEN /\ soft' = [soft EXCEPT ![path][c] = IF trips THEN {} ELSE valid]
              /\ Goto(a, IF trips THEN "trip" ELSE "done")
         ELSE /\ UNCHANGED soft
              /\ Goto(a, "done")
  /\ UNCHANGED <<now, ep, slot, scoped, retained, routeRev, resetting, made>>

\* setEndpointCooldownSlotLocked only ever extends a slot.
Overwrites(s, until) == until # slot[s].until                \* faulty variant
Extends(s, until) == until > slot[s].until

\* SetEndpointCooldownFenced: the slot is written under ep.mutex, the
\* retained entry is cleared after the lock is released (ClearRetained).
SetCooldown(a, s, d) ==
  /\ IF Fence(a) /\ Extends(s, now + d)
     THEN /\ slot' = [slot EXCEPT ![s] = [until |-> now + d, tag |-> TagOf(a)]]
          /\ Goto(a, "clear")
     ELSE /\ UNCHANGED slot
          /\ Goto(a, "done")
  /\ UNCHANGED <<now, ep, soft, scoped, retained, routeRev, resetting, made>>

AuthCooldown(a, d) == att[a].pc = "auth" /\ SetCooldown(a, "global", d)

TripMessages(a, d) ==
  att[a].pc = "trip" /\ att[a].path = "messages" /\ SetCooldown(a, "messages", d)

\* SetScopedCooldownFenced overwrites whatever deadline was there.
TripCountTokens(a, d) ==
  /\ att[a].pc = "trip" /\ att[a].path = "count_tokens"
  /\ scoped' = IF Fence(a) THEN [until |-> now + d, tag |-> TagOf(a)] ELSE scoped
  /\ Goto(a, "done")
  /\ UNCHANGED <<now, ep, slot, soft, retained, routeRev, resetting, made>>

ClearRetained(a) ==
  /\ att[a].pc = "clear"
  /\ retained' = FALSE
  /\ Goto(a, "done")
  /\ UNCHANGED <<now, ep, slot, soft, scoped, routeRev, resetting, made>>

-----------------------------------------------------------------------------
(* A successful attempt.                                                    *)

\* ClearScopeBefore: failures seen after the request began stay.
AnyAge(a, e) == TRUE                                         \* faulty variant
OlderThan(a, e) == e.at <= att[a].start

\* CompleteRequest: a full success of /v1/messages goes on to the retention,
\* one of another path through the pipeline does not.
SucceedMessages(a, full) ==
  /\ att[a].pc = "sent" /\ att[a].path = "messages"
  /\ soft' = IF SameConfig(a)
             THEN [soft EXCEPT !["messages"] =
                     [c \in Categories |-> {e \in @[c] : ~OlderThan(a, e)}]]
             ELSE soft
  /\ Goto(a, IF full THEN "succeeded" ELSE "done")
  /\ UNCHANGED <<now, ep, slot, scoped, retained, routeRev, resetting, made>>

\* The attempt ends without a settlement: cancelled, a stream that broke off
\* (CompleteRequestWithQuality clears nothing), an answer relayed as it is.
Abandon(a) ==
  /\ att[a].pc = "sent"
  /\ Goto(a, "done")
  /\ UNCHANGED <<now, ep, slot, soft, scoped, retained, routeRev, resetting, made>>

\* A count_tokens success clears the whole scope, whatever its age.
SucceedCountTokens(a) ==
  /\ att[a].pc = "sent" /\ att[a].path = "count_tokens"
  /\ IF SameConfig(a)
     THEN /\ soft' = [soft EXCEPT !["count_tokens"] = [c \in Categories |-> {}]]
          /\ scoped' = NoCooldown
     ELSE UNCHANGED <<soft, scoped>>
  /\ Goto(a, "done")
  /\ UNCHANGED <<now, ep, slot, retained, routeRev, resetting, made>>

\* UpdateAutoRetention looks at the route and the endpoint first ...
CheckRetention(a) ==
  /\ att[a].pc = "succeeded"
  /\ Goto(a, IF /\ SameConfig(a) /\ att[a].route = routeRev
                /\ ep.hard /\ Routable("messages")
             THEN "retain" ELSE "done")
  /\ UNCHANGED <<now, ep, slot, soft, scoped, retained, routeRev, resetting, made>>

\* ... and enters the endpoint in its tier afterwards, under another lock.
Retain(a) ==
  /\ att[a].pc = "retain"
  /\ retained' = TRUE
  /\ Goto(a, "done")
  /\ UNCHANGED <<now, ep, slot, soft, scoped, routeRev, resetting, made>>

-----------------------------------------------------------------------------
(* Manual reset: ResetEndpointFailureState.                                 *)

LookUpReset ==
  /\ resetting = 0 /\ ep.inst # 0
  /\ resetting' = ep.inst
  /\ UNCHANGED <<now, ep, slot, soft, scoped, retained, routeRev, att, made>>

\* One critical section of the object that was looked up.  If the name has
\* been removed or created again since, only the maps keyed by name change.
CommitReset ==
  /\ resetting # 0
  /\ IF resetting = ep.inst
     THEN /\ ep.epoch < MaxEpoch
          /\ ep' = [ep EXCEPT !.epoch = @ + 1]
          /\ slot' = [s \in Slots |-> NoCooldown]
     ELSE UNCHANGED <<ep, slot>>
  /\ soft' = NoEvents
  /\ scoped' = NoCooldown
  /\ resetting' = 0
  /\ UNCHANGED <<now, retained, routeRev, att, made>>

-----------------------------------------------------------------------------
(* Configuration operations, under the write lock.                          *)

NewRevision == made.rev + 1

\* UpdateEndpointConfig, UpdateEndpointPriority, PublishEndpointAutoSchedule
UpdateConfig ==
  /\ ConfigLockFree /\ ep.inst # 0 /\ made.rev < MaxRevision
  /\ ep' = [ep EXCEPT !.rev = NewRevision]
  /\ made' = [made EXCEPT !.rev = NewRevision]
  /\ UNCHANGED <<now, slot, soft, scoped, retained, routeRev, resetting, att>>

PublishAvailability(enabled) ==
  /\ ConfigLockFree /\ ep.inst # 0 /\ made.rev < MaxRevision
  /\ ep' = [ep EXCEPT !.rev = NewRevision, !.hard = enabled]
  /\ made' = [made EXCEPT !.rev = NewRevision]
  /\ retained' = IF enabled THEN retained ELSE FALSE
  /\ UNCHANGED <<now, slot, soft, scoped, routeRev, resetting, att>>

RemoveEndpoint ==
  /\ ConfigLockFree /\ ep.inst # 0
  /\ ep' = [inst |-> 0, rev |-> 0, epoch |-> 0, hard |-> FALSE]
  /\ slot' = [s \in Slots |-> NoCooldown]
  /\ soft' = NoEvents
  /\ scoped' = NoCooldown
  /\ retained' = FALSE
  /\ UNCHANGED <<now, routeRev, resetting, att, made>>

\* A new object of the same name: its epoch starts at zero again, its
\* revision does not.
AddEndpoint ==
  /\ ConfigLockFree /\ ep.inst = 0
  /\ made.inst < MaxInstances /\ made.rev < MaxRevision
  /\ ep' = [inst |-> made.inst + 1, rev |-> NewRevision, epoch |-> 0, hard |-> TRUE]
  /\ made' = [inst |-> made.inst + 1, rev |-> NewRevision]
  /\ UNCHANGED <<now, slot, soft, scoped, retained, routeRev, resetting, att>>

-----------------------------------------------------------------------------
(* The rest of the program.                                                 *)

\* CleanupExpiredEvents, run by a ticker
Cleanup ==
  /\ soft' = [p \in Paths |-> [c \in Categories |-> InWindow(soft[p][c])]]
  /\ soft' # soft
  /\ UNCHANGED <<now, ep, slot, scoped, retained, routeRev, resetting, att, made>>

\* RouteOverrideState.Set
ChangeRoute ==
  /\ routeRev < MaxRoute
  /\ routeRev' = routeRev + 1
  /\ UNCHANGED <<now, ep, slot, soft, scoped, retained, resetting, att, made>>

\* Another endpoint of the tier succeeds and takes the tier's entry.
LoseTier ==
  /\ retained
  /\ retained' = FALSE
  /\ UNCHANGED <<now, ep, slot, soft, scoped, routeRev, resetting, att, made>>

Tick ==
  /\ now < MaxTime
  /\ now' = now + 1
  /\ UNCHANGED <<ep, slot, soft, scoped, retained, routeRev, resetting, att, made>>

Settle(a) ==
  \/ \E kind \in {"record", "auth"} : EnterFailure(a, kind)
  \/ \E c \in Categories : RecordSoftFailure(a, c)
  \/ \E d \in Durations : AuthCooldown(a, d) \/ TripMessages(a, d) \/ TripCountTokens(a, d)
  \/ ClearRetained(a)
  \/ \E full \in BOOLEAN : SucceedMessages(a, full)
  \/ SucceedCountTokens(a)
  \/ CheckRetention(a)
  \/ Retain(a)

Attempt(a) == (\E p \in Paths : Plan(a, p)) \/ Acquire(a) \/ Abandon(a) \/ Settle(a)

Operate ==
  \/ LookUpReset \/ CommitReset
  \/ UpdateConfig \/ (\E e \in BOOLEAN : PublishAvailability(e))
  \/ RemoveEndpoint \/ AddEndpoint

Environment == Cleanup \/ ChangeRoute \/ LoseTier \/ Tick

Next == (\E a \in Attempts : Attempt(a)) \/ Operate \/ Environment

Spec == Init /\ [][Next]_vars

-----------------------------------------------------------------------------
(* Properties.                                                              *)

AttemptRecords ==
  [pc : PCs, path : Paths, inst : Nat, rev : Nat, epoch : Nat, start : Nat, route : Nat]

\* Every variable stays in its domain.
TypeOK ==
  /\ now \in Nat
  /\ ep \in [inst : Nat, rev : Nat, epoch : Nat, hard : BOOLEAN]
  /\ slot \in [Slots -> Cooldowns]
  /\ soft \in [Paths -> [Categories -> SUBSET Events]]
  /\ scoped \in Cooldowns
  /\ retained \in BOOLEAN
  /\ routeRev \in Nat
  /\ resetting \in Nat
  /\ att \in [Attempts -> AttemptRecords]
  /\ made \in [inst : Nat, rev : Nat]

CurrentTag == [inst |-> ep.inst, epoch |-> ep.epoch]

\* Zero residue (failover.go:77-86, manager.go:260-268): whatever failure
\* evidence the manager holds was left by an attempt planned on the object
\* that lives now and since its last manual reset.  Neither an attempt that
\* was in flight across a reset nor one planned on a deleted endpoint of the
\* same name can leave a trace.
ZeroResidue ==
  /\ \A s \in Slots : slot[s] = NoCooldown \/ slot[s].tag = CurrentTag
  /\ scoped = NoCooldown \/ scoped.tag = CurrentTag
  /\ \A p \in Paths, c \in Categories : \A e \in soft[p][c] : e.tag = CurrentTag

\* ApplyEndpoint*Settlement promises that a settlement runs to its end on the
\* configuration the attempt was sent with (attempt_plan.go:194-196).
SettlesOnOwnConfig ==
  \A a \in Settling : ep.inst = att[a].inst /\ ep.rev = att[a].rev

\* A tier's retained endpoint exists and is available: the retention written
\* by a late success cannot outlive a removal or a hard disable.
RetainedIsAvailable == retained => ep.inst # 0 /\ ep.hard

\* A cooldown slot is only extended; it is shortened by a manual reset or the
\* removal of the endpoint and by nothing else (failover.go:177-178).
CooldownOnlyExtends ==
  [][\A s \in Slots : slot'[s].until < slot[s].until =>
       ep'.inst # ep.inst \/ ep'.epoch > ep.epoch]_vars

\* A slow success leaves the failures that were recorded while it ran
\* (soft_failure_tracker.go:102-104): the end of a successful or failed
\* /v1/messages attempt drops no event newer than the start of its request.
NewerFailuresSurviveSuccess ==
  [][\A a \in Attempts : att[a].pc = "sent" /\ att'[a].pc \in {"succeeded", "done"} =>
       \A c \in Categories : \A e \in soft["messages"][c] :
          e.at > att[a].start => e \in soft'["messages"][c]]_vars
=============================================================================
