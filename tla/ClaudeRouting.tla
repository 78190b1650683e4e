---------------------------- MODULE ClaudeRouting ----------------------------
(***************************************************************************)
(* The user's manual route: a mode and a target endpoint, published in the *)
(* manager and saved as settings.  Setting, clearing and the deletion of   *)
(* the target are serialised by routingMu, write the settings first and    *)
(* publish afterwards; a deletion that fails puts the old route back.      *)
(* Endpoints are created without that lock.  A start loads the endpoints,  *)
(* then the route, and opens routing only when the settings could be read. *)
(* internal/endpoint/route_override.go, app_api_claude_routing.go,         *)
(* app_api_storage.go, internal/service/endpoint.go and app.go.            *)
(***************************************************************************)
EXTENDS Integers

CONSTANTS
  Endpoints,      \* endpoint names
  MayMissSync,    \* whether a start may fail to load the endpoints
  MaxCalls, MaxFaults, MaxRestarts   \* bounds

VARIABLES
  rows,       \* names with a row in endpoints
  live,       \* names the manager holds
  route,      \* RouteOverride.state
  saved,      \* the claude_routing settings
  ready,      \* IsClaudeRoutingReady
  phase,      \* how far the start has come
  call,       \* the call that holds routingMu
  adding,     \* endpoint whose creation is between row and manager
  calls, faults, restarts,
  left,       \* ghost: the route as the last call that ended left it
  reset       \* ghost: the start fell back to automatic without saving it

vars == <<rows, live, route, saved, ready, phase, call, adding, calls, faults, restarts, left,
          reset>>

-----------------------------------------------------------------------------
NoName == "no endpoint"
Names  == Endpoints \cup {NoName}
Modes  == {"auto", "manual_preferred", "manual_fixed"}
Routes == [mode : Modes, target : Names, fallback : BOOLEAN, rev : Nat]

Auto(rev) == [mode |-> "auto", target |-> NoName, fallback |-> TRUE, rev |-> rev]
Manual(mode, e, fallback, rev) ==
  [mode |-> mode, target |-> e, fallback |-> fallback \/ mode = "manual_preferred", rev |-> rev]
Choice(r) == [mode |-> r.mode, target |-> r.target, fallback |-> r.fallback]

Free == [op |-> "none", pc |-> "free", target |-> NoName, next |-> Auto(0), prev |-> Auto(0)]

Init ==
  /\ rows \in SUBSET Endpoints /\ live = rows
  /\ route = Auto(0) /\ saved = Auto(0)
  /\ ready = TRUE /\ phase = "running"
  /\ call = Free /\ adding = NoName
  /\ calls = 0 /\ faults = 0 /\ restarts = 0
  /\ left = Choice(Auto(0)) /\ reset = FALSE

-----------------------------------------------------------------------------
\* An older revision never replaces a newer one.
ApplyPersisted(next) ==
  IF next.rev # 0 /\ next.rev < route.rev THEN route ELSE next

Faulty == faults < MaxFaults /\ faults' = faults + 1

Running == phase = "running"

\* A call takes routingMu and decides what it will write.
Lock(op, pc, e, next) ==
  /\ Running /\ call = Free /\ calls < MaxCalls
  /\ call' = [op |-> op, pc |-> pc, target |-> e, next |-> next, prev |-> route]
  /\ calls' = calls + 1
  /\ UNCHANGED <<rows, live, route, saved, ready, phase, adding, faults, restarts, left, reset>>

SetRoute(mode, e, fallback) ==
  /\ ready /\ e \in live
  /\ Lock("set", "persist", e, Manual(mode, e, fallback, route.rev + 1))

ClearRoute == Lock("clear", "persist", NoName, Auto(route.rev + 1))

\* DeleteEndpointRecord clears a route to the endpoint first.
DeleteEndpoint(e) ==
  IF route.mode # "auto" /\ route.target = e
  THEN Lock("delete", "persist", e, Auto(route.rev + 1))
  ELSE Lock("delete", "row", e, Auto(0))

\* persistClaudeRoutingState writes the category in one transaction.
Persist ==
  /\ call.pc \in {"persist", "rewrite"}
  /\ saved' = call.next
  /\ call' = [call EXCEPT !.pc = IF @ = "persist" THEN "publish" ELSE "republish"]
  /\ UNCHANGED <<rows, live, route, ready, phase, adding, calls, faults, restarts, left, reset>>

\* A failed write leaves the published route alone and ends the call, a
\* deletion included; one that fails to put the route back leaves automatic
\* routing behind.
PersistFails ==
  /\ call.pc \in {"persist", "rewrite"} /\ Faulty
  /\ call' = Free
  /\ left' = IF call.pc = "rewrite" THEN Choice(route) ELSE left
  /\ UNCHANGED <<rows, live, route, saved, ready, phase, adding, calls, restarts, reset>>

Publish ==
  /\ call.pc \in {"publish", "republish"}
  /\ route' = ApplyPersisted(call.next)
  /\ IF call.op = "delete"
     THEN /\ call' = IF call.pc = "publish" THEN [call EXCEPT !.pc = "row"] ELSE Free
          /\ UNCHANGED left
     ELSE call' = Free /\ left' = Choice(call.next)
  /\ reset' = FALSE
  /\ UNCHANGED <<rows, live, saved, ready, phase, adding, calls, faults, restarts>>

\* EndpointService.DeleteEndpoint: the row first, then the manager; the wait
\* for admissions is EndpointAdmission's.
DeleteRow ==
  /\ call.pc = "row" /\ call.target \in rows
  /\ rows' = rows \ {call.target}
  /\ call' = [call EXCEPT !.pc = "remove"]
  /\ UNCHANGED <<live, route, saved, ready, phase, adding, calls, faults, restarts, left, reset>>

\* What a deletion that failed does about the route it cleared.
NoRestore == call' = Free                                         \* faulty variant
Restore ==
  IF call.next.rev = 0 THEN call' = Free
  ELSE call' = [call EXCEPT !.pc = "rewrite", !.next = [call.prev EXCEPT !.rev = route.rev + 1]]

DeleteFails ==
  /\ call.pc = "row"
  /\ \/ call.target \in rows /\ Faulty
     \/ call.target \notin rows /\ UNCHANGED faults
  /\ Restore
  /\ UNCHANGED <<rows, live, route, saved, ready, phase, adding, calls, restarts, left, reset>>

RemoveLive ==
  /\ call.pc = "remove"
  /\ IF call.target \in live
     THEN /\ live' = live \ {call.target} /\ call' = Free
          /\ left' = IF call.next.rev = 0 THEN left ELSE Choice(route)
     ELSE Restore /\ UNCHANGED <<live, left>>
  /\ UNCHANGED <<rows, route, saved, ready, phase, adding, calls, faults, restarts, reset>>

\* CreateEndpoint, without routingMu.
AddRow(e) ==
  /\ Running /\ adding = NoName /\ e \notin rows /\ calls < MaxCalls
  /\ rows' = rows \cup {e} /\ adding' = e /\ calls' = calls + 1
  /\ UNCHANGED <<live, route, saved, ready, phase, call, faults, restarts, left, reset>>

AddLive ==
  /\ adding # NoName
  /\ IF adding \in live THEN rows' = rows \ {adding} /\ UNCHANGED live
     ELSE live' = live \cup {adding} /\ UNCHANGED rows
  /\ adding' = NoName
  /\ UNCHANGED <<route, saved, ready, phase, call, calls, faults, restarts, left, reset>>

-----------------------------------------------------------------------------
(* Start.                                                                   *)

Restart ==
  /\ restarts < MaxRestarts
  /\ live' = {} /\ route' = Auto(0) /\ ready' = TRUE     \* NewManager
  /\ phase' = "sync" /\ call' = Free /\ adding' = NoName
  /\ restarts' = restarts + 1
  /\ left' = IF call = Free THEN left ELSE Choice(saved)
  /\ reset' = FALSE
  /\ UNCHANGED <<rows, saved, calls, faults>>

\* SyncFromDatabase; its failure is logged and the start goes on.
SyncEndpoints ==
  /\ phase = "sync" /\ phase' = "route"
  /\ \/ live' = rows /\ UNCHANGED faults
     \/ MayMissSync /\ Faulty /\ UNCHANGED live
  /\ UNCHANGED <<rows, route, saved, ready, call, adding, calls, restarts, left, reset>>

Opened == phase' = "running" /\ ready' = TRUE
Booted == UNCHANGED <<rows, live, call, adding, calls, restarts>>

RouteUnreadable ==
  /\ phase = "route" /\ Faulty
  /\ phase' = "running" /\ ready' = FALSE
  /\ UNCHANGED <<route, saved, left, reset>> /\ Booted

RestoreRoute ==
  /\ phase = "route" /\ (saved.mode # "auto" => saved.target \in live)
  /\ Opened /\ route' = ApplyPersisted(saved)
  /\ UNCHANGED <<saved, faults, left, reset>> /\ Booted

\* Its target is gone: automatic routing is written back and published, and
\* published even when that write fails.
ResetRoute ==
  /\ phase = "route" /\ saved.mode # "auto" /\ saved.target \notin live
  /\ LET next == Auto(saved.rev + 1) IN
     /\ Opened
     /\ \/ saved' = next /\ left' = Choice(next) /\ UNCHANGED <<faults, reset>>
        \/ Faulty /\ reset' = TRUE /\ UNCHANGED <<saved, left>>
     /\ route' = ApplyPersisted(next)
  /\ Booted

-----------------------------------------------------------------------------
Next ==
  \/ \E e \in Endpoints, m \in Modes \ {"auto"}, f \in BOOLEAN : SetRoute(m, e, f)
  \/ ClearRoute \/ Persist \/ PersistFails \/ Publish
  \/ \E e \in Endpoints : DeleteEndpoint(e) \/ AddRow(e)
  \/ DeleteRow \/ DeleteFails \/ RemoveLive \/ AddLive
  \/ Restart \/ SyncEndpoints \/ RouteUnreadable \/ RestoreRoute \/ ResetRoute

Spec == Init /\ [][Next]_vars

-----------------------------------------------------------------------------
TypeOK ==
  /\ rows \subseteq Endpoints /\ live \subseteq Endpoints /\ adding \in Names
  /\ route \in Routes /\ saved \in Routes
  /\ ready \in BOOLEAN /\ reset \in BOOLEAN /\ phase \in {"sync", "route", "running"}
  /\ call \in [op : {"none", "set", "clear", "delete"}, target : Names, next : Routes, prev : Routes,
               pc : {"free", "persist", "publish", "row", "remove", "rewrite", "republish"}]

AtRest == Running /\ ready /\ call = Free

\* A manual route names an endpoint the manager has, whatever deletions,
\* failed writes and restarts came before: requests under a fixed route are
\* never all refused for a target that no longer exists.
ManualTargetKnown == AtRest /\ route.mode # "auto" => route.target \in live

\* Between calls the published route and the saved one are what the calls
\* that ended left: a call that failed, a deletion that failed half way and
\* a restart change neither.  The one exception is a start that fell back to
\* automatic routing and could not save it.
RouteIsAsLeft ==
  AtRest => Choice(saved) = left /\ (Choice(route) = left \/ reset)

\* A start gives up the saved route only when its endpoint does not exist,
\* never because something could not be read (app_api_claude_routing.go:213).
ReadFailureKeepsRoute ==
  [][phase = "route" /\ saved' # saved => saved.target \notin rows]_vars
=============================================================================
