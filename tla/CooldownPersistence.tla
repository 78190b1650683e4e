------------------------- MODULE CooldownPersistence -------------------------
(***************************************************************************)
(* The persisted copy of the cooldown slots of ONE endpoint name: every    *)
(* extension of a slot starts a goroutine that looks the endpoint up by    *)
(* name and writes a row under its ID; "clear cooldown" resets the slots   *)
(* and writes tombstones in one transaction; the endpoint can be deleted   *)
(* and created again under the same name; the process can crash, and its   *)
(* start restores the rows that are still active.                          *)
(* app.go (setupEndpointRuntimeStates), app_api_endpoint_scheduling.go,    *)
(* app_api_storage.go, internal/store/endpoint_runtime_state.go and the    *)
(* revision source of internal/endpoint/failover.go.                       *)
(***************************************************************************)
EXTENDS Integers

CONSTANTS
  Clears,     \* calls of ClearEndpointCooldown
  Durations,  \* cooldown lengths
  MaxTime, MaxId, MaxRevision, MaxCrashes   \* bounds

ASSUME PersistenceAssumption ==
  /\ Durations \subseteq Nat \ {0}
  /\ {MaxTime, MaxId, MaxRevision, MaxCrashes} \subseteq Nat

VARIABLES
  now,
  slot,      \* cooldown slots of the live object
  live,      \* database ID the live object was built from, 0 = no object
  counter,   \* cooldownRevisionCounter
  tasks,     \* persist goroutines that have not finished
  dbId,      \* ID of the name's row in endpoints, 0 = none
  lastId,    \* AUTOINCREMENT high-water mark
  row,       \* endpoint_runtime_states of dbId; revision 0 = no row
  admin,     \* what the delete call and the create call have done so far
  call,      \* the ClearEndpointCooldown calls
  marker,    \* cooldownPersistPending[name]; revision 0 = no entry
  crashes,
  cleared,   \* ghost: newest revision a tombstone of dbId was committed with
  lost       \* ghost: a task of the live endpoint failed to write its row

vars == <<now, slot, live, counter, tasks, dbId, lastId, row, admin, call,
          marker, crashes, cleared, lost>>

-----------------------------------------------------------------------------
Slots == {"global", "messages"}

NoCooldown == [until |-> 0, rev |-> 0]
Cooldowns  == [until : Nat, rev : Nat]

\* A row remembers, as a ghost, the object its cooldown was set on.
NoRow == [until |-> 0, rev |-> 0, of |-> 0]
Rows  == [until : Nat, rev : Nat, of : Nat]

\* id = 0 until the goroutine has looked the name up.
Tasks == [slot : Slots, until : Nat, rev : Nat, of : Nat, id : Nat]

Idle     == [pc |-> "idle", id |-> 0, rev |-> 0]
CallPCs  == {"idle", "orphan", "reset", "commit", "failed", "written", "done"}
Calls    == [pc : CallPCs, id : Nat, rev : Nat]

NoMarker == [id |-> 0, rev |-> 0, pending |-> FALSE]
Markers  == [id : Nat, rev : Nat, pending : BOOLEAN]

EmptySlots == [s \in Slots |-> NoCooldown]
EmptyRows  == [s \in Slots |-> NoRow]

\* nextCooldownRevision in the worst case, a wall clock behind the counter.
NextRevision == counter + 1

Max2(a, b) == IF a > b THEN a ELSE b

Init ==
  /\ now = 0
  /\ slot = EmptySlots /\ live = 1
  /\ counter = 0
  /\ tasks = {}
  /\ dbId = 1 /\ lastId = 1
  /\ row = EmptyRows
  /\ admin = [delete |-> "none", create |-> "none"]
  /\ call = [c \in Clears |-> Idle]
  /\ marker = NoMarker
  /\ crashes = 0
  /\ cleared = 0
  /\ lost = FALSE

-----------------------------------------------------------------------------
(* Setting a cooldown and persisting it.                                    *)

\* setEndpointCooldownSlotLocked and notifyCooldownPersist
SetCooldown(s, d) ==
  /\ live # 0 /\ NextRevision <= MaxRevision
  /\ now + d > slot[s].until
  /\ slot' = [slot EXCEPT ![s] = [until |-> now + d, rev |-> NextRevision]]
  /\ counter' = NextRevision
  /\ tasks' = tasks \cup
       {[slot |-> s, until |-> now + d, rev |-> NextRevision, of |-> live, id |-> 0]}
  /\ UNCHANGED <<now, live, dbId, lastId, row, admin, call, marker, crashes, cleared, lost>>

\* The hook first turns the name into an ID; an unknown name ends it.
LookUpTask(t) ==
  /\ t \in tasks /\ t.id = 0
  /\ tasks' = (tasks \ {t}) \cup (IF dbId = 0 THEN {} ELSE {[t EXCEPT !.id = dbId]})
  /\ UNCHANGED <<now, slot, live, counter, dbId, lastId, row, admin, call, marker,
                 crashes, cleared, lost>>

\* Upsert replaces a row only by a newer one.
AlwaysNewer(rev, s) == TRUE                                  \* faulty variant
Newer(rev, s) == rev > row[s].rev

\* Upsert; a dead ID violates the foreign key and the task ends in a warning.
WriteTask(t) ==
  /\ t \in tasks /\ t.id # 0
  /\ tasks' = tasks \ {t}
  /\ row' = IF t.id = dbId /\ Newer(t.rev, t.slot)
            THEN [row EXCEPT ![t.slot] = [until |-> t.until, rev |-> t.rev, of |-> t.of]]
            ELSE row
  /\ UNCHANGED <<now, slot, live, counter, dbId, lastId, admin, call, marker,
                 crashes, cleared, lost>>

\* The look-up or the write fails (busy, timeout): at most a warning is logged.
LoseTask(t) ==
  /\ t \in tasks
  /\ tasks' = tasks \ {t}
  /\ lost' = (lost \/ t.id \in {0, dbId})
  /\ UNCHANGED <<now, slot, live, counter, dbId, lastId, row, admin, call, marker,
                 crashes, cleared>>

-----------------------------------------------------------------------------
(* ClearEndpointCooldown.                                                   *)

AnyRevision(rev) == TRUE                                     \* faulty variant
NotNewer(rev) == marker.rev <= rev

\* The ID is read before anything is touched.
GetRecord(c) ==
  /\ call[c].pc = "idle"
  /\ call' = [call EXCEPT ![c] =
       [pc |-> IF dbId = 0 THEN "orphan" ELSE "reset", id |-> dbId, rev |-> 0]]
  /\ UNCHANGED <<now, slot, live, counter, tasks, dbId, lastId, row, admin, marker, crashes,
                 cleared, lost>>

\* An unknown name: its orphaned marker goes.
RemoveOrphan(c) ==
  /\ call[c].pc = "orphan"
  /\ marker' = NoMarker
  /\ call' = [call EXCEPT ![c].pc = "done"]
  /\ UNCHANGED <<now, slot, live, counter, tasks, dbId, lastId, row, admin, crashes,
                 cleared, lost>>

\* ResetEndpointFailureState: both slots and the revision in one section.
ResetMemory(c) ==
  /\ call[c].pc = "reset"
  /\ IF live = 0
     THEN /\ call' = [call EXCEPT ![c].pc = "done"]
          /\ UNCHANGED <<slot, counter>>
     ELSE /\ NextRevision <= MaxRevision
          /\ slot' = EmptySlots
          /\ counter' = NextRevision
          /\ call' = [call EXCEPT ![c] = [pc |-> "commit", id |-> @.id, rev |-> NextRevision]]
  /\ UNCHANGED <<now, live, tasks, dbId, lastId, row, admin, marker, crashes, cleared, lost>>

\* ClearCooldownTombstones: both rows in one transaction, each only if older.
CommitTombstones(c) ==
  /\ call[c].pc = "commit" /\ call[c].id = dbId
  /\ row' = [s \in Slots |-> IF Newer(call[c].rev, s)
                             THEN [until |-> 0, rev |-> call[c].rev, of |-> dbId]
                             ELSE row[s]]
  /\ cleared' = Max2(cleared, call[c].rev)
  /\ call' = [call EXCEPT ![c].pc = "written"]
  /\ UNCHANGED <<now, slot, live, counter, tasks, dbId, lastId, admin, marker, crashes, lost>>

\* The transaction is rolled back: a database error, or the ID is dead.
FailTombstones(c) ==
  /\ call[c].pc = "commit"
  /\ call' = [call EXCEPT ![c].pc = "failed"]
  /\ UNCHANGED <<now, slot, live, counter, tasks, dbId, lastId, row, admin, marker,
                 crashes, cleared, lost>>

\* markCooldownPersistPending, clearCooldownPersistPending
UpdateMarker(c) ==
  /\ call[c].pc \in {"failed", "written"}
  /\ marker' = IF NotNewer(call[c].rev)
               THEN [id |-> call[c].id, rev |-> call[c].rev,
                     pending |-> call[c].pc = "failed"]
               ELSE marker
  /\ call' = [call EXCEPT ![c].pc = "done"]
  /\ UNCHANGED <<now, slot, live, counter, tasks, dbId, lastId, row, admin, crashes,
                 cleared, lost>>

\* isCooldownPersistPending for the endpoint shown in the list
PendingShown == marker.pending /\ marker.id = dbId

-----------------------------------------------------------------------------
(* Deleting the endpoint and creating it again under the same name.         *)

\* DeleteEndpoint, DB first: the foreign key takes the runtime rows along.
DeleteRecord ==
  /\ admin.delete = "none" /\ dbId # 0
  /\ dbId' = 0
  /\ row' = EmptyRows
  /\ cleared' = 0
  /\ lost' = FALSE
  /\ admin' = [admin EXCEPT !.delete = "record"]
  /\ UNCHANGED <<now, slot, live, counter, tasks, lastId, call, marker, crashes>>

\* Manager.RemoveEndpoint; without an object it fails and the call ends here.
DeleteObject ==
  /\ admin.delete = "record"
  /\ live' = 0
  /\ slot' = EmptySlots
  /\ admin' = [admin EXCEPT !.delete = IF live = 0 THEN "none" ELSE "object"]
  /\ UNCHANGED <<now, counter, tasks, dbId, lastId, row, call, marker, crashes, cleared, lost>>

\* removeCooldownPersistPending
DeleteMarker ==
  /\ admin.delete = "object"
  /\ marker' = NoMarker
  /\ admin' = [admin EXCEPT !.delete = "none"]
  /\ UNCHANGED <<now, slot, live, counter, tasks, dbId, lastId, row, call, crashes,
                 cleared, lost>>

\* CreateEndpoint: refused while the name is in use, then record and object.
CreateRecord ==
  /\ admin.create = "none" /\ live = 0 /\ dbId = 0 /\ lastId < MaxId
  /\ dbId' = lastId + 1 /\ lastId' = lastId + 1
  /\ admin' = [admin EXCEPT !.create = "record"]
  /\ UNCHANGED <<now, slot, live, counter, tasks, row, call, marker, crashes, cleared, lost>>

CreateObject ==
  /\ admin.create = "record"
  /\ live' = lastId
  /\ admin' = [admin EXCEPT !.create = "none"]
  /\ UNCHANGED <<now, slot, counter, tasks, dbId, lastId, row, call, marker, crashes,
                 cleared, lost>>

-----------------------------------------------------------------------------
(* Crash and start.                                                         *)

\* ListActiveCooldowns and RestoreEndpointCooldown, in memory only.
Restored(s) ==
  IF row[s].until > now THEN [until |-> row[s].until, rev |-> row[s].rev] ELSE NoCooldown

\* SeedCooldownRevision(MaxRevision()), the clock set back as far as can be
Seed == Max2(row["global"].rev, row["messages"].rev)

\* The process dies and starts: everything in memory is lost, the records
\* are loaded and the active rows restored before any request is served.
Restart ==
  /\ crashes < MaxCrashes
  /\ crashes' = crashes + 1
  /\ live' = dbId
  /\ slot' = [s \in Slots |-> Restored(s)]
  /\ counter' = Seed
  /\ tasks' = {}
  /\ admin' = [delete |-> "none", create |-> "none"]
  /\ call' = [c \in Clears |-> IF call[c].pc = "idle" THEN Idle ELSE [Idle EXCEPT !.pc = "done"]]
  /\ marker' = NoMarker
  /\ lost' = FALSE
  /\ UNCHANGED <<now, dbId, lastId, row, cleared>>

Tick ==
  /\ now < MaxTime
  /\ now' = now + 1
  /\ UNCHANGED <<slot, live, counter, tasks, dbId, lastId, row, admin, call, marker,
                 crashes, cleared, lost>>

Clear(c) ==
  \/ GetRecord(c) \/ RemoveOrphan(c) \/ ResetMemory(c)
  \/ CommitTombstones(c) \/ FailTombstones(c) \/ UpdateMarker(c)

Persist == \E t \in tasks : LookUpTask(t) \/ WriteTask(t) \/ LoseTask(t)

Administer ==
  DeleteRecord \/ DeleteObject \/ DeleteMarker \/ CreateRecord \/ CreateObject

Next ==
  \/ \E s \in Slots, d \in Durations : SetCooldown(s, d)
  \/ Persist
  \/ \E c \in Clears : Clear(c)
  \/ Administer
  \/ Restart
  \/ Tick

Spec == Init /\ [][Next]_vars

-----------------------------------------------------------------------------
(* Properties.                                                              *)

\* Every variable stays in its domain; revisions, identifiers and the clock
\* never become negative.
TypeOK ==
  /\ {now, live, counter, dbId, lastId, crashes, cleared} \subseteq Nat
  /\ slot \in [Slots -> Cooldowns]
  /\ tasks \subseteq Tasks
  /\ row \in [Slots -> Rows]
  /\ admin \in [delete : {"none", "record", "object"}, create : {"none", "record"}]
  /\ call \in [Clears -> Calls]
  /\ marker \in Markers
  /\ lost \in BOOLEAN

\* A cooldown the user was told is gone stays gone
\* (endpoint_runtime_state.go:90-91, app_api_endpoint_scheduling.go:113-115):
\* once the tombstones of a clear are committed, a cooldown of the endpoint,
\* persisted or in memory, was set after that clear.  Persist goroutines run
\* in any order, and the process may have been restarted since.
NoResurrection ==
  \A s \in Slots :
    /\ row[s].until # 0 => row[s].rev > cleared
    /\ live = dbId /\ slot[s].until # 0 => slot[s].rev > cleared

Quiet ==
  /\ tasks = {} /\ admin = [delete |-> "none", create |-> "none"]
  /\ \A c \in Clears : call[c].pc \in {"idle", "done"}

ActiveUntil(cooldown) == IF cooldown.until > now THEN cooldown.until ELSE 0

\* Rows follow the slots (app.go:399, failover.go:127): when nothing is in
\* flight and no write was lost, what a restart would restore is what memory
\* holds, or the list shows that the last clear has to be retried. This and
\* RetryIsKept hold for the first endpoint of a name: tasks and clears that
\* resolved their name late can touch a namesake.
StoreFollowsMemory ==
  Quiet /\ ~lost /\ lastId = 1 =>
    \/ \A s \in Slots : ActiveUntil(row[s]) = ActiveUntil(slot[s])
    \/ PendingShown

\* A failed clear keeps its retry entry until a clear at least as new wrote
\* its tombstones (app_api_endpoint_scheduling.go:49-51).
RetryIsKept ==
  [][PendingShown /\ dbId' = dbId /\ lastId = 1 /\ crashes' = crashes /\ marker'.rev # 0 =>
       PendingShown' \/ (marker'.rev >= marker.rev /\ cleared' >= marker'.rev)]_vars
=============================================================================
