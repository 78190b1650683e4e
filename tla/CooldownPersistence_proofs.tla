--------------------- MODULE CooldownPersistence_proofs ----------------------
(***************************************************************************)
(* Proofs about what is stored and what survives a restart: first about    *)
(* CooldownPersistence, for any number of clear calls and any bounds, then *)
(* about the route, the migrations and the privacy rules as they run in    *)
(* MCCooldownPersistence, for any endpoints, zones, rules, upstreams and   *)
(* bounds, and last about the inputs of the run: the scan of a body,       *)
(* whatever the body, the rules and the secrets, and the splitting of the  *)
(* entries of an old file, whatever the entries.                           *)
(***************************************************************************)
EXTENDS MCCooldownPersistence, Ordering, FiniteSetTheorems, NaturalsInduction, WellFoundedInduction, TLAPS

\* The types the argument below needs.
Types ==
  /\ {now, live, dbId, lastId, counter, cleared} \subseteq Nat
  /\ slot \in [Slots -> Cooldowns]
  /\ tasks \subseteq Tasks
  /\ row \in [Slots -> Rows]
  /\ call \in [Clears -> Calls]
  /\ admin \in [delete : {"none", "record", "object"}, create : {"none", "record"}]

Committing == {c \in Clears : call[c].pc = "commit"}

\* Revisions in use were given out by this process or read from the rows.
Issued ==
  /\ \A s \in Slots : slot[s].rev <= counter /\ row[s].rev <= counter
  /\ \A t \in tasks : t.rev <= counter
  /\ \A c \in Committing : call[c].rev <= counter

\* A cooldown and a clear never share a revision, and what memory holds was
\* set after every clear that has reset it.
Distinct ==
  \A c \in Committing :
    /\ \A t \in tasks : t.rev # call[c].rev
    /\ \A s \in Slots : row[s].until # 0 => row[s].rev # call[c].rev
    /\ \A s \in Slots : slot[s].until # 0 => slot[s].rev > call[c].rev

\* No object, no slots; no record, no rows; an object being created is not
\* there yet, and a clear that reached the reset knows a record.
NothingWithoutObject ==
  /\ live = 0 => \A s \in Slots : slot[s].until = 0
  /\ dbId = 0 => cleared = 0 /\ \A s \in Slots : row[s].until = 0
  /\ admin.create = "record" => live = 0
  /\ \A c \in Clears : call[c].pc \in {"reset", "commit"} => call[c].id # 0

Covered == \A s \in Slots : row[s].rev >= cleared

IInv == Types /\ Issued /\ Distinct /\ NothingWithoutObject /\ Covered /\ NoResurrection

LEMMA InvInit == Init => IInv
<1> SUFFICES ASSUME Init PROVE IInv
  OBVIOUS
<1>1. Types /\ Committing = {}
  BY DEF Init, Types, Committing, EmptySlots, EmptyRows, NoCooldown, NoRow, Cooldowns, Rows,
     Idle, Calls, CallPCs
<1>2. \A s \in Slots : slot[s].until = 0 /\ slot[s].rev = 0 /\ row[s].until = 0 /\ row[s].rev = 0
  BY DEF Init, EmptySlots, EmptyRows, NoCooldown, NoRow
<1>3. Issued /\ Distinct /\ NothingWithoutObject /\ Covered /\ NoResurrection
  BY <1>1, <1>2 DEF Init, Idle, Issued, Distinct, NothingWithoutObject, Covered, NoResurrection
<1> QED
  BY <1>1, <1>3 DEF IInv

\* A cooldown is set with a revision above everything.
LEMMA SetStep ==
  ASSUME IInv, NEW s \in Slots, NEW d \in Durations, SetCooldown(s, d)
  PROVE  IInv'
<1> DEFINE task == [slot |-> s, until |-> now + d, rev |-> counter + 1, of |-> live, id |-> 0]
<1>1. /\ now + d \in Nat /\ counter \in Nat /\ counter' = counter + 1 /\ cleared \in Nat
      /\ live # 0 /\ tasks' = tasks \cup {task}
      /\ slot' = [slot EXCEPT ![s] = [until |-> now + d, rev |-> counter + 1]]
      /\ UNCHANGED <<now, live, dbId, lastId, row, call, cleared, admin>>
  BY PersistenceAssumption DEF SetCooldown, NextRevision, IInv, Types
<1>2. /\ \A x \in Slots : /\ slot[x].until \in Nat /\ slot[x].rev \in Nat
                         /\ row[x].until \in Nat /\ row[x].rev \in Nat
      /\ \A t \in tasks : t.rev \in Nat
      /\ \A c \in Clears : call[c].rev \in Nat
  BY DEF IInv, Types, Cooldowns, Rows, Tasks, Calls
<1>3. \A x \in Slots : slot'[x] = slot[x] \/ slot'[x].rev = counter + 1
  BY <1>1 DEF IInv, Types
<1>4. Types'
  <2>1. task \in Tasks
    BY <1>1 DEF IInv, Types, Tasks
  <2>2. slot' \in [Slots -> Cooldowns]
    BY <1>1 DEF IInv, Types, Cooldowns
  <2> HIDE DEF task
  <2> QED
    BY <1>1, <2>1, <2>2 DEF IInv, Types
<1>5. Committing' = Committing
  BY <1>1 DEF Committing
<1>6. Issued'
  BY <1>1, <1>2, <1>3, <1>5 DEF IInv, Issued, Committing
<1>7. Distinct'
  BY <1>1, <1>2, <1>3, <1>5 DEF IInv, Distinct, Issued, Committing
<1>8. NothingWithoutObject' /\ Covered'
  BY <1>1 DEF IInv, NothingWithoutObject, Covered
<1>9. NoResurrection'
  <2>1. cleared <= counter
    BY <1>1, <1>2 DEF IInv, Covered, Issued, Slots
  <2> QED
    BY <1>1, <1>2, <1>3, <2>1 DEF IInv, NoResurrection
<1> QED
  BY <1>4, <1>6, <1>7, <1>8, <1>9 DEF IInv

\* A task writes its row only if it is newer than what is there.
LEMMA WriteStep ==
  ASSUME IInv, NEW t \in tasks, WriteTask(t)
  PROVE  IInv'
<1>1. /\ UNCHANGED <<now, slot, live, counter, dbId, lastId, call, cleared, admin>>
      /\ tasks' = tasks \ {t}
      /\ row' = row \/ row' = [row EXCEPT ![t.slot] = [until |-> t.until, rev |-> t.rev, of |-> t.of]]
      /\ row' = row \/ t.rev > row[t.slot].rev
  BY DEF WriteTask, Newer
<1>2. /\ t \in Tasks /\ t.slot \in Slots /\ t.rev \in Nat /\ t.rev <= counter /\ counter \in Nat
      /\ cleared \in Nat
      /\ \A x \in Slots : row[x].until \in Nat /\ row[x].rev \in Nat
  BY DEF IInv, Types, Issued, Tasks, Rows
<1>3. \A x \in Slots : row'[x] = row[x] \/ (x = t.slot /\ row'[x].rev = t.rev /\ t.rev > row[x].rev)
  BY <1>1, <1>2 DEF IInv, Types
<1>4. Types'
  <2>1. [until |-> t.until, rev |-> t.rev, of |-> t.of] \in Rows
    BY <1>2 DEF Tasks, Rows
  <2> QED
    BY <1>1, <1>2, <2>1 DEF IInv, Types
<1>5. Committing' = Committing
  BY <1>1 DEF Committing
<1>6. Issued'
  BY <1>1, <1>2, <1>3, <1>5 DEF IInv, Issued
<1>7. Distinct'
  BY <1>1, <1>2, <1>3, <1>5 DEF IInv, Distinct
<1>8. NothingWithoutObject'
  <2>1. dbId = 0 => row' = row
    BY DEF WriteTask
  <2> QED
    BY <1>1, <2>1 DEF IInv, NothingWithoutObject
<1>9. Covered' /\ NoResurrection'
  BY <1>1, <1>2, <1>3 DEF IInv, Covered, NoResurrection
<1> QED
  BY <1>4, <1>6, <1>7, <1>8, <1>9 DEF IInv

\* Looking a name up, or losing the write, leaves revisions alone.
LEMMA OtherTaskStep ==
  ASSUME IInv, NEW t \in tasks, LookUpTask(t) \/ LoseTask(t)
  PROVE  IInv'
<1>1. UNCHANGED <<now, slot, live, counter, dbId, lastId, row, call, cleared, admin>>
  BY DEF LookUpTask, LoseTask
<1>2. t \in Tasks /\ dbId \in Nat
  BY DEF IInv, Types
<1>3. \A u \in tasks' : u \in tasks \/ (u \in Tasks /\ u.rev = t.rev)
  <2>1. [t EXCEPT !.id = dbId] \in Tasks /\ [t EXCEPT !.id = dbId].rev = t.rev
    BY <1>2 DEF Tasks
  <2> QED
    BY <2>1 DEF LookUpTask, LoseTask
<1>4. Types'
  BY <1>1, <1>3 DEF IInv, Types
<1>5. Committing' = Committing
  BY <1>1 DEF Committing
<1>6. Issued' /\ Distinct'
  BY <1>1, <1>3, <1>5 DEF IInv, Issued, Distinct
<1>7. NothingWithoutObject' /\ Covered' /\ NoResurrection'
  BY <1>1 DEF IInv, NothingWithoutObject, Covered, NoResurrection
<1> QED
  BY <1>4, <1>6, <1>7 DEF IInv

\* A call that moves on without touching slots or rows.
LEMMA CallStep ==
  ASSUME IInv, NEW c \in Clears,
         GetRecord(c) \/ RemoveOrphan(c) \/ FailTombstones(c) \/ UpdateMarker(c)
  PROVE  IInv'
<1>1. UNCHANGED <<now, slot, live, counter, tasks, dbId, lastId, row, cleared, admin>>
  BY DEF GetRecord, RemoveOrphan, FailTombstones, UpdateMarker
<1>2. call' \in [Clears -> Calls]
  BY DEF GetRecord, RemoveOrphan, FailTombstones, UpdateMarker, IInv, Types, Calls, CallPCs
<1>3. Committing' \subseteq Committing /\ \A k \in Committing' : call'[k] = call[k]
  BY DEF GetRecord, RemoveOrphan, FailTombstones, UpdateMarker, IInv, Types, Calls, Committing
<1>4. Types'
  BY <1>1, <1>2 DEF IInv, Types
<1>5. Issued' /\ Distinct'
  BY <1>1, <1>3 DEF IInv, Issued, Distinct
<1>6. NothingWithoutObject'
  <2>1. \A k \in Clears : call'[k].pc \in {"reset", "commit"} => call'[k].id # 0
    BY DEF GetRecord, RemoveOrphan, FailTombstones, UpdateMarker, IInv, Types, Calls,
           NothingWithoutObject
  <2> QED
    BY <1>1, <2>1 DEF IInv, NothingWithoutObject
<1>7. Covered' /\ NoResurrection'
  BY <1>1 DEF IInv, Covered, NoResurrection
<1> QED
  BY <1>4, <1>5, <1>6, <1>7 DEF IInv

\* The reset empties the slots and takes a revision above everything.
LEMMA ResetStep ==
  ASSUME IInv, NEW c \in Clears, ResetMemory(c)
  PROVE  IInv'
<1>1. CASE live = 0
  <2>1. UNCHANGED <<now, slot, live, counter, tasks, dbId, lastId, row, cleared, admin>>
        /\ call' = [call EXCEPT ![c].pc = "done"]
    BY <1>1 DEF ResetMemory
  <2>2. call' \in [Clears -> Calls] /\ Committing' \subseteq Committing
        /\ \A k \in Committing' : call'[k] = call[k]
    BY <2>1 DEF IInv, Types, Calls, CallPCs, Committing
  <2>3. \A k \in Clears : call'[k].pc \in {"reset", "commit"} => call'[k].id # 0
    BY <2>1 DEF IInv, Types, Calls, NothingWithoutObject
  <2> QED
    BY <2>1, <2>2, <2>3 DEF IInv, Types, Issued, Distinct, NothingWithoutObject, Covered, NoResurrection
<1>2. CASE live # 0
  <2>1. /\ UNCHANGED <<now, live, tasks, dbId, lastId, row, cleared, admin>>
        /\ slot' = EmptySlots /\ counter' = counter + 1
        /\ call' = [call EXCEPT ![c] = [pc |-> "commit", id |-> @.id, rev |-> counter + 1]]
    BY <1>2 DEF ResetMemory, NextRevision
  <2>2. counter \in Nat /\ (\A t \in tasks : t.rev \in Nat)
        /\ \A s \in Slots : row[s].rev \in Nat
    BY DEF IInv, Types, Tasks, Rows
  <2>3. \A s \in Slots : slot'[s].until = 0 /\ slot'[s].rev = 0
    BY <2>1 DEF EmptySlots, NoCooldown
  <2>4. /\ call' \in [Clears -> Calls]
        /\ \A k \in Committing' : (k = c /\ call'[k].rev = counter + 1)
                                  \/ (k \in Committing /\ call'[k] = call[k])
    BY <2>1, <2>2 DEF IInv, Types, Calls, CallPCs, Committing
  <2>5. Types'
    BY <2>1, <2>2, <2>4 DEF IInv, Types, EmptySlots, NoCooldown, Cooldowns
  <2>6. Issued'
    BY <2>1, <2>2, <2>3, <2>4 DEF IInv, Issued, Committing, Types, Calls
  <2>7. Distinct'
    BY <2>1, <2>2, <2>3, <2>4 DEF IInv, Issued, Distinct
  <2>8. \A k \in Clears : call'[k].pc \in {"reset", "commit"} => call'[k].id # 0
    BY <2>1 DEF ResetMemory, IInv, Types, Calls, NothingWithoutObject
  <2>9. NothingWithoutObject' /\ Covered' /\ NoResurrection'
    BY <2>1, <2>3, <2>8 DEF IInv, NothingWithoutObject, Covered, NoResurrection
  <2> QED
    BY <2>5, <2>6, <2>7, <2>9 DEF IInv
<1> QED
  BY <1>1, <1>2

\* A tombstone covers the older row; a row that is kept is newer than it.
LEMMA CommitStep ==
  ASSUME IInv, NEW c \in Clears, CommitTombstones(c)
  PROVE  IInv'
<1> DEFINE r == call[c].rev
<1>1. /\ c \in Committing /\ UNCHANGED <<now, slot, live, counter, tasks, dbId, lastId, admin>>
      /\ row' = [s \in Slots |-> IF r > row[s].rev
                                 THEN [until |-> 0, rev |-> r, of |-> dbId] ELSE row[s]]
      /\ cleared' = IF cleared > r THEN cleared ELSE r
      /\ call' = [call EXCEPT ![c].pc = "written"] /\ call[c].id = dbId
  BY DEF CommitTombstones, Committing, Newer, Max2
<1>2. /\ r \in Nat /\ r <= counter /\ cleared \in Nat /\ counter \in Nat /\ dbId \in Nat
      /\ \A s \in Slots : /\ row[s].rev \in Nat /\ slot[s].rev \in Nat
                         /\ row[s].until \in Nat /\ slot[s].until \in Nat
  BY <1>1 DEF IInv, Types, Issued, Calls, Rows, Cooldowns, Committing
<1>3. \A s \in Slots : IF r > row[s].rev
                      THEN row'[s].rev = r /\ row'[s].until = 0
                      ELSE row'[s] = row[s]
  BY <1>1
<1>4. call' \in [Clears -> Calls] /\ Committing' \subseteq Committing
      /\ \A k \in Committing' : call'[k] = call[k]
  BY <1>1 DEF IInv, Types, Calls, CallPCs, Committing
<1>5. Types'
  <2>1. row' \in [Slots -> Rows]
    BY <1>1, <1>2 DEF IInv, Types, Rows
  <2>2. cleared' \in Nat
    BY <1>1, <1>2
  <2> HIDE DEF r
  <2> QED
    BY <1>1, <1>4, <2>1, <2>2 DEF IInv, Types
<1>6. Issued' /\ Distinct'
  BY <1>1, <1>2, <1>3, <1>4 DEF IInv, Issued, Distinct
<1>7. Covered'
  BY <1>1, <1>2, <1>3 DEF IInv, Covered
<1>8. NoResurrection'
  <2>1. \A s \in Slots : row[s].until # 0 => row[s].rev # r
    BY <1>1 DEF IInv, Distinct
  <2>2. \A s \in Slots : slot[s].until # 0 => slot[s].rev > r
    BY <1>1 DEF IInv, Distinct
  <2> HIDE DEF r
  <2> QED
    BY <1>1, <1>2, <1>3, <2>1, <2>2 DEF IInv, NoResurrection
<1>9. NothingWithoutObject'
  <2>1. dbId # 0
    BY <1>1 DEF IInv, NothingWithoutObject, Committing
  <2>2. \A k \in Clears : call'[k].pc \in {"reset", "commit"} => call'[k].id # 0
    BY <1>1 DEF IInv, Types, Calls, NothingWithoutObject
  <2> QED
    BY <1>1, <2>1, <2>2 DEF IInv, NothingWithoutObject
<1> QED
  BY <1>5, <1>6, <1>7, <1>8, <1>9 DEF IInv

\* Deleting takes the rows, then the slots; creating starts without either.
LEMMA AdministerStep ==
  ASSUME IInv, Administer
  PROVE  IInv'
<1>1. UNCHANGED <<now, tasks, call, counter>> /\ Committing' = Committing
  BY DEF Administer, DeleteRecord, DeleteObject, DeleteMarker, CreateRecord, CreateObject,
         Committing
<1>2. /\ admin' \in [delete : {"none", "record", "object"}, create : {"none", "record"}]
      /\ {live', dbId', lastId', cleared'} \subseteq Nat
  BY DEF Administer, DeleteRecord, DeleteObject, DeleteMarker, CreateRecord, CreateObject,
         IInv, Types
<1>3. /\ counter \in Nat
      /\ \A s \in Slots : slot[s].rev \in Nat /\ row[s].rev \in Nat
  BY DEF IInv, Types, Cooldowns, Rows
<1>4. /\ slot' = slot \/ \A s \in Slots : slot'[s].until = 0 /\ slot'[s].rev = 0
      /\ row' = row \/ \A s \in Slots : row'[s].until = 0 /\ row'[s].rev = 0
  BY DEF Administer, DeleteRecord, DeleteObject, DeleteMarker, CreateRecord, CreateObject,
         EmptySlots, EmptyRows, NoCooldown, NoRow
<1>5. Types'
  <2>1. slot' \in [Slots -> Cooldowns] /\ row' \in [Slots -> Rows]
    BY DEF Administer, DeleteRecord, DeleteObject, DeleteMarker, CreateRecord, CreateObject,
           EmptySlots, EmptyRows, NoCooldown, NoRow, Cooldowns, Rows, IInv, Types
  <2> QED
    BY <1>1, <1>2, <2>1 DEF IInv, Types
<1>6. Issued' /\ Distinct'
  BY <1>1, <1>3, <1>4 DEF IInv, Issued, Distinct
<1>7. CASE DeleteRecord
  BY <1>5, <1>6, <1>7 DEF DeleteRecord, EmptyRows, NoRow, IInv, Types, NothingWithoutObject,
     Covered, NoResurrection
<1>8. CASE DeleteObject
  BY <1>5, <1>6, <1>8 DEF DeleteObject, EmptySlots, NoCooldown, IInv, Types,
     NothingWithoutObject, Covered, NoResurrection
<1>9. CASE DeleteMarker
  BY <1>5, <1>6, <1>9 DEF DeleteMarker, IInv, Types, NothingWithoutObject, Covered,
     NoResurrection
<1>10. CASE CreateRecord
  BY <1>5, <1>6, <1>10 DEF CreateRecord, IInv, Types, NothingWithoutObject, Covered,
     NoResurrection
<1>11. CASE CreateObject
  BY <1>5, <1>6, <1>11 DEF CreateObject, IInv, Types, NothingWithoutObject, Covered,
     NoResurrection
<1> QED
  BY <1>7, <1>8, <1>9, <1>10, <1>11 DEF Administer

\* A start takes its slots from the rows and its counter from their maximum.
LEMMA RestartStep ==
  ASSUME IInv, Restart
  PROVE  IInv'
<1>1. /\ UNCHANGED <<now, dbId, lastId, row, cleared>>
      /\ live' = dbId /\ tasks' = {} /\ Committing' = {}
      /\ call' \in [Clears -> Calls]
      /\ \A c \in Clears : call'[c].pc \notin {"reset", "commit"}
      /\ admin' = [delete |-> "none", create |-> "none"]
  BY DEF Restart, Committing, Idle, Calls, CallPCs
<1>2. \A s \in Slots : /\ row[s].until \in Nat /\ row[s].rev \in Nat
                       /\ row[s].rev <= counter'
  BY DEF Restart, Seed, Max2, Slots, IInv, Types, Rows
<1>3. counter' \in Nat
  BY <1>2 DEF Restart, Seed, Max2, Slots
<1>4. \A s \in Slots :
        /\ slot'[s] \in Cooldowns /\ slot'[s].rev <= counter'
        /\ slot'[s].until # 0 => row[s].until # 0 /\ slot'[s].rev = row[s].rev
  BY <1>2, <1>3 DEF Restart, Restored, NoCooldown, Cooldowns, IInv, Types
<1>5. Types'
  BY <1>1, <1>3, <1>4 DEF Restart, IInv, Types
<1> QED
  BY <1>1, <1>2, <1>4, <1>5 DEF IInv, Issued, Distinct, NothingWithoutObject, Covered,
     NoResurrection

LEMMA TickStep ==
  ASSUME IInv, Tick \/ UNCHANGED vars
  PROVE  IInv'
<1>1. now' \in Nat
      /\ UNCHANGED <<slot, live, counter, tasks, dbId, lastId, row, admin, call, cleared>>
  BY DEF Tick, vars, IInv, Types
<1> QED
  BY <1>1 DEF IInv, Types, Committing, Issued, Distinct, NothingWithoutObject, Covered,
     NoResurrection

\* The invariant about revisions, from every start of the program.
THEOREM Invariant == Spec => []IInv
<1>1. IInv /\ [Next]_vars => IInv'
  <2> SUFFICES ASSUME IInv, [Next]_vars PROVE IInv'
    OBVIOUS
  <2>1. ASSUME NEW s \in Slots, NEW d \in Durations, SetCooldown(s, d) PROVE IInv'
    BY <2>1, SetStep
  <2>2. ASSUME NEW t \in tasks, LookUpTask(t) \/ WriteTask(t) \/ LoseTask(t) PROVE IInv'
    BY <2>2, WriteStep, OtherTaskStep
  <2>3. ASSUME NEW c \in Clears, Clear(c) PROVE IInv'
    BY <2>3, CallStep, ResetStep, CommitStep DEF Clear
  <2> QED
    BY <2>1, <2>2, <2>3, AdministerStep, RestartStep, TickStep DEF Next, Persist
<1> QED
  BY <1>1, InvInit, PTL DEF Spec

\* What the user cleared stays cleared (ClearEndpointCooldown), whatever the
\* number of clears, the order of the persist goroutines, lost writes, crashes
\* and recreations of the endpoint.
THEOREM ClearedStaysCleared == Spec => []NoResurrection
<1>1. IInv => NoResurrection
  BY DEF IInv
<1> QED
  BY <1>1, Invariant, PTL

-----------------------------------------------------------------------------
(* The rows follow the slots.  Every slot has its row or a task that will   *)
(* write it; every row or task a restart could take for a cooldown is       *)
(* expired, is the slot, or is about to be overtaken: by a newer row, by a  *)
(* newer task, by a clear that has not written its tombstones, or by the    *)
(* retry the list shows.                                                    *)

\* The name still has its first record.
First == dbId = 1 /\ lastId = 1

MarkerTypes == marker \in Markers /\ lost \in BOOLEAN /\ crashes \in Nat

\* The first record is never being deleted or looked up in vain; without it
\* no namesake exists before lastId moves on.
FirstOfName ==
  /\ First => live = 1 /\ admin.delete = "none" /\ \A c \in Clears : call[c].pc # "orphan"
  /\ lastId = 1 /\ dbId = 0 => live = 0 \/ admin.delete = "record"
  /\ admin.create = "record" => lastId # 1

\* Whoever has resolved the name knows an ID that was given out.
Identified ==
  /\ lastId # 0 /\ dbId <= lastId
  /\ \A t \in tasks : t.id <= lastId
  /\ \A c \in Clears : /\ call[c].id <= lastId
                       /\ call[c].pc \in {"failed", "written"} => call[c].id # 0
  /\ marker.id <= lastId /\ (marker.pending => marker.id # 0)

\* The slot is never older than its row or its tasks, and one revision stands
\* for one cooldown.
Ordered ==
  \A s \in Slots : slot[s].until # 0 =>
    /\ slot[s].rev # 0
    /\ row[s].rev <= slot[s].rev
    /\ row[s].rev = slot[s].rev => row[s].until = slot[s].until
    /\ \A t \in tasks : t.slot = s =>
         t.rev <= slot[s].rev /\ (t.rev = slot[s].rev => t.until = slot[s].until)

\* A clear that reports its tombstones written, and a marker without a retry,
\* are covered by the rows.
Recorded ==
  First =>
    /\ \A c \in Clears : call[c].pc = "written" =>
         cleared >= call[c].rev /\ \A s \in Slots : row[s].rev >= call[c].rev
    /\ ~marker.pending => \A s \in Slots : row[s].rev >= marker.rev

\* Something newer than revision v is or will be recorded for the slot.
Coming(s, v) ==
  \/ row[s].rev > v
  \/ \E t \in tasks : t.slot = s /\ t.rev > v
  \/ \E c \in Clears : call[c].pc \in {"commit", "failed"} /\ call[c].rev > v
  \/ marker.pending /\ marker.id = 1 /\ marker.rev > v

Harmless(s, x) ==
  \/ x.until <= now
  \/ x.rev = slot[s].rev /\ x.until = slot[s].until
  \/ Coming(s, x.rev)

Follows(s) ==
  /\ slot[s].until # 0 =>
       row[s].rev = slot[s].rev \/ \E t \in tasks : t.slot = s /\ t.rev = slot[s].rev
  /\ Harmless(s, row[s])
  /\ \A t \in tasks : t.slot = s => Harmless(s, t)

Followed == First /\ ~lost => \A s \in Slots : Follows(s)

FInv == MarkerTypes /\ FirstOfName /\ Identified /\ Ordered /\ Recorded /\ Followed

LEMMA Domains ==
  ASSUME IInv
  PROVE  /\ {now, live, dbId, lastId, counter, cleared} \subseteq Nat
         /\ \A s \in Slots : /\ slot[s].until \in Nat /\ slot[s].rev \in Nat
                             /\ row[s].until \in Nat /\ row[s].rev \in Nat
                             /\ slot[s].rev <= counter /\ row[s].rev <= counter
         /\ \A t \in tasks : /\ t \in Tasks /\ t.slot \in Slots /\ t.id \in Nat /\ t.rev \in Nat
                             /\ t.until \in Nat /\ t.rev <= counter
         /\ \A c \in Clears : call[c].id \in Nat /\ call[c].rev \in Nat
BY DEF IInv, Types, Issued, Cooldowns, Rows, Tasks, Calls

LEMMA FollowInit == Init => FInv
<1> SUFFICES ASSUME Init PROVE FInv
  OBVIOUS
<1>1. /\ \A s \in Slots : slot[s].until = 0 /\ slot[s].rev = 0 /\ row[s].until = 0 /\ row[s].rev = 0
      /\ \A c \in Clears : call[c] = [pc |-> "idle", id |-> 0, rev |-> 0]
      /\ marker = [id |-> 0, rev |-> 0, pending |-> FALSE]
      /\ now = 0 /\ tasks = {} /\ dbId = 1 /\ lastId = 1 /\ live = 1 /\ crashes = 0 /\ lost = FALSE
      /\ admin = [delete |-> "none", create |-> "none"]
  BY DEF Init, EmptySlots, EmptyRows, NoCooldown, NoRow, Idle, NoMarker
<1>2. MarkerTypes
  BY <1>1 DEF MarkerTypes, Markers
<1>3. FirstOfName
  BY <1>1 DEF FirstOfName
<1>4. Identified
  BY <1>1 DEF Identified
<1>5. Ordered /\ Recorded /\ Followed
  BY <1>1 DEF Ordered, Recorded, Followed, Follows, Harmless
<1> QED
  BY <1>2, <1>3, <1>4, <1>5 DEF FInv

\* The new task carries what the slot holds and is newer than everything.
LEMMA SetFollows ==
  ASSUME IInv, FInv, NEW s \in Slots, NEW d \in Durations, SetCooldown(s, d)
  PROVE  FInv'
<1> DEFINE task == [slot |-> s, until |-> now + d, rev |-> counter + 1, of |-> live, id |-> 0]
<1>1. /\ now + d \in Nat /\ counter \in Nat /\ counter' = counter + 1
      /\ tasks' = tasks \cup {task}
      /\ slot' = [slot EXCEPT ![s] = [until |-> now + d, rev |-> counter + 1]]
      /\ UNCHANGED <<now, live, dbId, lastId, row, call, cleared, admin, marker, crashes, lost>>
  BY PersistenceAssumption DEF SetCooldown, NextRevision, IInv, Types
<1>2. /\ task.slot = s /\ task.until = now + d /\ task.rev = counter + 1 /\ task.id = 0
      /\ task \in tasks'
  BY <1>1
<1> HIDE DEF task
<1>3. /\ slot'[s].until = now + d /\ slot'[s].rev = counter + 1
      /\ \A x \in Slots : x # s => slot'[x] = slot[x]
  BY <1>1 DEF IInv, Types
<1>4. MarkerTypes' /\ FirstOfName' /\ Identified' /\ Recorded'
  BY <1>1, <1>2, Domains DEF FInv, MarkerTypes, FirstOfName, First, Identified, Recorded
<1>5. Ordered'
  BY <1>1, <1>2, <1>3, Domains DEF FInv, Ordered
<1>6. ASSUME NEW x \in Slots, First, ~lost PROVE Follows(x)'
  <2>1. ASSUME NEW v, Coming(x, v) PROVE Coming(x, v)'
    BY <2>1, <1>1 DEF Coming
  <2>2. CASE x = s
    <3>1. \A v \in Nat : v <= counter => Coming(s, v)'
      BY <1>1, <1>2 DEF Coming
    <3>2. Harmless(s, row[s])' /\ \A t \in tasks' : t.slot = s => Harmless(s, t)'
      BY <3>1, <1>1, <1>2, <1>3, Domains DEF Harmless
    <3> QED
      BY <2>2, <3>2, <1>1, <1>2, <1>3 DEF Follows
  <2>3. CASE x # s
    <3>1. Follows(x)
      BY <1>6 DEF FInv, Followed
    <3>2. ASSUME NEW y, Harmless(x, y) PROVE Harmless(x, y)'
      BY <2>3, <3>2, <2>1, <1>1, <1>3 DEF Harmless
    <3>3. \A t \in tasks' : t.slot = x => t \in tasks
      BY <2>3, <1>1, <1>2
    <3>4. Harmless(x, row[x])'
      BY <3>1, <3>2, <1>1 DEF Follows
    <3> QED
      BY <2>3, <3>1, <3>2, <3>3, <3>4, <1>1, <1>3 DEF Follows
  <2> QED
    BY <2>2, <2>3
<1>7. Followed'
  BY <1>1, <1>6 DEF Followed, First
<1> QED
  BY <1>4, <1>5, <1>7 DEF FInv

\* A task of the first record writes its row unless the row is newer already.
LEMMA WriteFollows ==
  ASSUME IInv, FInv, NEW t \in tasks, WriteTask(t)
  PROVE  FInv'
<1>1. /\ UNCHANGED <<now, slot, live, dbId, lastId, call, cleared, admin, marker, crashes, lost>>
      /\ tasks' = tasks \ {t} /\ t.id # 0
      /\ row' = IF t.id = dbId /\ t.rev > row[t.slot].rev
                THEN [row EXCEPT ![t.slot] = [until |-> t.until, rev |-> t.rev, of |-> t.of]]
                ELSE row
  BY DEF WriteTask, Newer
<1>2. \A x \in Slots :
        \/ row'[x] = row[x]
        \/ x = t.slot /\ row'[x].rev = t.rev /\ row'[x].until = t.until /\ t.rev > row[x].rev
  BY <1>1, Domains DEF IInv, Types
<1>3. \A x \in Slots : row'[x].rev \in Nat /\ row'[x].rev >= row[x].rev
  BY <1>2, Domains
<1>4. MarkerTypes' /\ FirstOfName' /\ Identified'
  BY <1>1 DEF FInv, MarkerTypes, FirstOfName, First, Identified
<1>5. Recorded'
  BY <1>1, <1>3, Domains DEF FInv, Recorded, First, MarkerTypes, Markers
<1>6. Ordered'
  BY <1>1, <1>2, Domains DEF FInv, Ordered
<1>7. ASSUME NEW x \in Slots, First, ~lost PROVE Follows(x)'
  <2>1. t.slot = x => row'[x].rev >= t.rev
    <3>1. t.id = dbId
      BY <1>1, <1>7, Domains DEF First, FInv, Identified
    <3> QED
      BY <3>1, <1>1, <1>2, Domains DEF IInv, Types
  <2>2. ASSUME NEW v \in Nat, Coming(x, v) PROVE Coming(x, v)'
    BY <2>1, <2>2, <1>1, <1>3, Domains DEF Coming
  <2>3. ASSUME NEW y, y.rev \in Nat, Harmless(x, y) PROVE Harmless(x, y)'
    BY <2>2, <2>3, <1>1 DEF Harmless
  <2>4. Follows(x)
    BY <1>7 DEF FInv, Followed
  <2>5. \A u \in tasks : u.slot = x => Harmless(x, u)'
    BY <2>3, <2>4, Domains DEF Follows
  <2>6. Harmless(x, row[x]) => Harmless(x, row[x])'
    <3>1. CASE row'[x] = row[x]
      BY <3>1, <2>1, <1>1, Domains DEF Harmless, Coming
    <3>2. CASE t.slot = x /\ row'[x].rev = t.rev /\ row'[x].until = t.until
      BY <3>2, <2>5, <1>1 DEF Harmless, Coming
    <3> QED
      BY <3>1, <3>2, <1>2
  <2>7. slot'[x].until # 0 =>
          row'[x].rev = slot'[x].rev \/ \E u \in tasks' : u.slot = x /\ u.rev = slot'[x].rev
    <3> SUFFICES ASSUME slot[x].until # 0
                 PROVE  row'[x].rev = slot[x].rev \/ \E u \in tasks' : u.slot = x /\ u.rev = slot[x].rev
      BY <1>1
    <3>1. row'[x].rev <= slot[x].rev
      BY <1>6, <1>1 DEF Ordered
    <3>2. CASE row[x].rev = slot[x].rev
      BY <3>1, <3>2, <1>3, Domains
    <3>3. ASSUME NEW u \in tasks, u.slot = x, u.rev = slot[x].rev
          PROVE  row'[x].rev = slot[x].rev \/ \E w \in tasks' : w.slot = x /\ w.rev = slot[x].rev
      BY <3>1, <3>3, <2>1, <1>1, <1>3, Domains
    <3> QED
      BY <3>2, <3>3, <2>4 DEF Follows
  <2> QED
    BY <2>4, <2>5, <2>6, <2>7, <1>1 DEF Follows
<1>8. Followed'
  BY <1>1, <1>7 DEF Followed, First
<1> QED
  BY <1>4, <1>5, <1>6, <1>8 DEF FInv

\* A task of the first record finds its ID; a lost one is what lost records.
LEMMA OtherTaskFollows ==
  ASSUME IInv, FInv, NEW t \in tasks, LookUpTask(t) \/ LoseTask(t)
  PROVE  FInv'
<1>1. UNCHANGED <<now, slot, live, dbId, lastId, row, call, cleared, admin, marker, crashes>>
  BY DEF LookUpTask, LoseTask
<1> DEFINE found == [t EXCEPT !.id = dbId]
<1>2. /\ found.slot = t.slot /\ found.rev = t.rev /\ found.until = t.until /\ found.id = dbId
      /\ tasks' \subseteq tasks \cup {found}
  BY Domains DEF LookUpTask, LoseTask, Tasks
<1>3. First /\ ~lost' => ~lost /\ tasks' = (tasks \ {t}) \cup {found}
  <2>1. t.id <= lastId /\ t.id \in Nat
    BY Domains DEF FInv, Identified
  <2>2. CASE LookUpTask(t)
    BY <2>2 DEF First, LookUpTask
  <2>3. CASE LoseTask(t)
    <3>1. First => t.id \in {0, dbId}
      BY <2>1 DEF First
    <3>2. First => lost'
      BY <2>3, <3>1 DEF LoseTask
    <3> QED
      BY <3>2
  <2> QED
    BY <2>2, <2>3
<1>4. lost' \in BOOLEAN
  BY DEF FInv, MarkerTypes, LookUpTask, LoseTask
<1> HIDE DEF found
<1>5. MarkerTypes' /\ FirstOfName' /\ Recorded'
  BY <1>1, <1>4 DEF FInv, MarkerTypes, FirstOfName, First, Recorded
<1>6. Identified'
  BY <1>1, <1>2 DEF FInv, Identified
<1>7. Ordered'
  BY <1>1, <1>2 DEF FInv, Ordered
<1>8. ASSUME NEW x \in Slots, First, ~lost' PROVE Follows(x)'
  <2>1. Follows(x)
    BY <1>3, <1>8 DEF FInv, Followed
  <2>2. \A u \in tasks : \E w \in tasks' : w.slot = u.slot /\ w.rev = u.rev
    BY <1>2, <1>3, <1>8
  <2>3. ASSUME NEW v, Coming(x, v) PROVE Coming(x, v)'
    BY <2>2, <2>3, <1>1 DEF Coming
  <2>4. ASSUME NEW y, Harmless(x, y) PROVE Harmless(x, y)'
    BY <2>3, <2>4, <1>1 DEF Harmless
  <2>5. ASSUME NEW u, u.until = t.until, u.rev = t.rev, Harmless(x, t)' PROVE Harmless(x, u)'
    BY <2>5 DEF Harmless
  <2>6. \A u \in tasks' : u.slot = x => Harmless(x, u)'
    BY <2>1, <2>4, <2>5, <1>2 DEF Follows
  <2>7. Harmless(x, row[x])'
    BY <2>1, <2>4, <1>1 DEF Follows
  <2> QED
    BY <2>1, <2>2, <2>6, <2>7, <1>1 DEF Follows
<1>9. Followed'
  BY <1>1, <1>8 DEF Followed, First
<1> QED
  BY <1>5, <1>6, <1>7, <1>9 DEF FInv

\* Steps that leave the clock, the slots, the rows and the tasks alone and
\* forget nothing that is coming.
LEMMA KeptFollows ==
  ASSUME IInv, FInv, First' = First, UNCHANGED <<now, slot, row, tasks, lost>>,
         First => \A s \in Slots, v \in Nat : Coming(s, v) => Coming(s, v)'
  PROVE  Ordered' /\ Followed'
<1>1. Ordered'
  BY DEF FInv, Ordered
<1>2. ASSUME NEW x \in Slots, First, ~lost PROVE Follows(x)'
  <2>1. Follows(x)
    BY <1>2 DEF FInv, Followed
  <2>2. ASSUME NEW y, y.rev \in Nat, Harmless(x, y) PROVE Harmless(x, y)'
    BY <2>2, <1>2 DEF Harmless
  <2>3. Harmless(x, row[x])' /\ \A t \in tasks : t.slot = x => Harmless(x, t)'
    BY <2>1, <2>2, Domains DEF Follows
  <2> QED
    BY <2>1, <2>3 DEF Follows
<1> QED
  BY <1>1, <1>2 DEF Followed

\* A call resolves the name, gives up on an unknown one, or fails.
LEMMA CallFollows ==
  ASSUME IInv, FInv, NEW c \in Clears, GetRecord(c) \/ RemoveOrphan(c) \/ FailTombstones(c)
  PROVE  FInv'
<1>1. /\ UNCHANGED <<now, slot, live, tasks, dbId, lastId, row, cleared, admin, crashes, lost>>
      /\ First' = First
  BY DEF GetRecord, RemoveOrphan, FailTombstones, First
<1>2. /\ \A k \in Clears \ {c} : call'[k] = call[k]
      /\ \/ /\ call[c].pc = "idle" /\ marker' = marker /\ call'[c].id = dbId
            /\ call'[c].pc = "reset" \/ (call'[c].pc = "orphan" /\ ~First)
         \/ call[c].pc = "orphan" /\ call'[c].pc = "done" /\ call'[c].id = call[c].id
            /\ marker' = [id |-> 0, rev |-> 0, pending |-> FALSE]
         \/ /\ call[c].pc = "commit" /\ call'[c].pc = "failed" /\ marker' = marker
            /\ call'[c].id = call[c].id /\ call'[c].rev = call[c].rev
  BY DEF GetRecord, RemoveOrphan, FailTombstones, IInv, Types, Calls, NoMarker, First
<1>3. marker' = marker \/ ~First
  BY <1>2 DEF FInv, FirstOfName
<1>4. MarkerTypes'
  <2>1. [id |-> 0, rev |-> 0, pending |-> FALSE] \in Markers
    BY DEF Markers
  <2> QED
    BY <1>1, <1>2, <2>1 DEF FInv, MarkerTypes
<1>5. FirstOfName'
  BY <1>1, <1>2 DEF FInv, FirstOfName
<1>6. Identified'
  <2>1. call[c].pc = "commit" => call[c].id # 0
    BY DEF IInv, NothingWithoutObject
  <2> QED
    BY <1>1, <1>2, <2>1, Domains DEF FInv, Identified
<1>7. Recorded'
  BY <1>1, <1>2, <1>3 DEF FInv, Recorded
<1>8. First => \A s \in Slots, v \in Nat : Coming(s, v) => Coming(s, v)'
  BY <1>1, <1>2, <1>3 DEF Coming
<1> QED
  BY <1>1, <1>4, <1>5, <1>6, <1>7, <1>8, KeptFollows DEF FInv

\* The reset empties the slots; its revision overtakes every row and task.
LEMMA ResetFollows ==
  ASSUME IInv, FInv, NEW c \in Clears, ResetMemory(c)
  PROVE  FInv'
<1>1. /\ UNCHANGED <<now, live, tasks, dbId, lastId, row, admin, marker, crashes, cleared, lost>>
      /\ First' = First
      /\ \A k \in Clears \ {c} : call'[k] = call[k]
      /\ call[c].pc = "reset" /\ call'[c].id = call[c].id
  BY DEF ResetMemory, First, IInv, Types, Calls
<1>2. \/ live = 0 /\ slot' = slot /\ call'[c].pc = "done"
      \/ /\ slot' = EmptySlots /\ call'[c].pc = "commit" /\ call'[c].rev = counter + 1
  BY DEF ResetMemory, NextRevision, IInv, Types, Calls
<1>3. MarkerTypes' /\ FirstOfName' /\ Identified'
  BY <1>1, <1>2 DEF FInv, MarkerTypes, FirstOfName, Identified
<1>4. Recorded'
  BY <1>1, <1>2 DEF FInv, Recorded
<1>5. CASE slot' = slot /\ live = 0
  <2>1. ~First
    BY <1>5 DEF FInv, FirstOfName
  <2> QED
    BY <1>1, <1>3, <1>4, <1>5, <2>1, KeptFollows DEF FInv
<1>6. CASE slot' = EmptySlots /\ call'[c].pc = "commit" /\ call'[c].rev = counter + 1
  <2>1. \A s \in Slots : slot'[s].until = 0
    BY <1>6 DEF EmptySlots, NoCooldown
  <2>2. Ordered'
    BY <2>1 DEF Ordered
  <2>3. \A s \in Slots, v \in Nat : v <= counter => Coming(s, v)'
    BY <1>6, Domains DEF Coming
  <2>4. \A s \in Slots : Harmless(s, row[s])'
    <3> SUFFICES ASSUME NEW s \in Slots PROVE Coming(s, row[s].rev)'
      BY DEF Harmless
    <3> QED
      BY <1>1, <1>6, Domains DEF Coming
  <2>5. \A s \in Slots, t \in tasks : Harmless(s, t)'
    BY <2>3, Domains DEF Harmless
  <2>6. Followed'
    BY <1>1, <2>1, <2>4, <2>5 DEF Followed, Follows
  <2> QED
    BY <1>3, <1>4, <2>2, <2>6 DEF FInv
<1> QED
  BY <1>2, <1>5, <1>6

\* The tombstones are newer than what they replace and older than the slots.
LEMMA CommitFollows ==
  ASSUME IInv, FInv, NEW c \in Clears, CommitTombstones(c)
  PROVE  FInv'
<1> DEFINE r == call[c].rev
<1>1. /\ UNCHANGED <<now, slot, live, tasks, dbId, lastId, admin, marker, crashes, lost>>
      /\ First' = First
      /\ row' = [s \in Slots |-> IF r > row[s].rev
                                 THEN [until |-> 0, rev |-> r, of |-> dbId] ELSE row[s]]
      /\ cleared' = IF cleared > r THEN cleared ELSE r
      /\ call[c].pc = "commit" /\ call[c].id # 0 /\ c \in Committing
  BY DEF CommitTombstones, Newer, Max2, First, Committing, IInv, NothingWithoutObject
<1>2. /\ \A k \in Clears \ {c} : call'[k] = call[k]
      /\ call'[c].pc = "written" /\ call'[c].id = call[c].id /\ call'[c].rev = r
  BY DEF CommitTombstones, IInv, Types, Calls
<1>3. r \in Nat /\ \A s \in Slots : slot[s].until # 0 => slot[s].rev > r
  BY <1>1, Domains DEF IInv, Distinct
<1> HIDE DEF r
<1>4. \A s \in Slots : \/ row'[s].rev = r /\ row'[s].until = 0 /\ r > row[s].rev
                       \/ row'[s] = row[s] /\ row[s].rev >= r
  BY <1>1, <1>3, Domains
<1>5. /\ cleared' \in Nat /\ cleared' >= r /\ cleared' >= cleared
      /\ \A s \in Slots : row'[s].rev \in Nat /\ row'[s].rev >= r /\ row'[s].rev >= row[s].rev
  BY <1>1, <1>3, <1>4, Domains
<1>6. MarkerTypes' /\ FirstOfName' /\ Identified'
  BY <1>1, <1>2 DEF FInv, MarkerTypes, FirstOfName, Identified
<1>7. Recorded'
  <2>1. \A k \in Clears : First /\ call'[k].pc = "written" =>
          cleared' >= call'[k].rev /\ \A s \in Slots : row'[s].rev >= call'[k].rev
    <3> SUFFICES ASSUME NEW k \in Clears, First, call'[k].pc = "written"
                 PROVE  cleared' >= call'[k].rev /\ \A s \in Slots : row'[s].rev >= call'[k].rev
      OBVIOUS
    <3>1. CASE k = c
      BY <3>1, <1>2, <1>5
    <3>2. CASE k # c
      BY <3>2, <1>2, <1>5, Domains DEF FInv, Recorded
    <3> QED
      BY <3>1, <3>2
  <2>2. First /\ ~marker.pending => \A s \in Slots : row'[s].rev >= marker.rev
    BY <1>5, Domains DEF FInv, Recorded, MarkerTypes, Markers
  <2> QED
    BY <1>1, <2>1, <2>2 DEF Recorded
<1>8. Ordered'
  BY <1>1, <1>3, <1>4, Domains DEF FInv, Ordered
<1>9. ASSUME NEW x \in Slots, First, ~lost PROVE Follows(x)'
  <2>1. Follows(x)
    BY <1>9 DEF FInv, Followed
  <2>2. ASSUME NEW v \in Nat, Coming(x, v) PROVE Coming(x, v)'
    <3>1. CASE \E k \in Clears : call[k].pc \in {"commit", "failed"} /\ call[k].rev > v
      <4>1. PICK k \in Clears : call[k].pc \in {"commit", "failed"} /\ call[k].rev > v
        BY <3>1
      <4>2. CASE k = c
        BY <4>1, <4>2, <1>5, <1>3 DEF Coming, r
      <4>3. CASE k # c
        BY <4>1, <4>3, <1>2 DEF Coming
      <4> QED
        BY <4>2, <4>3
    <3> QED
      BY <2>2, <3>1, <1>1, <1>5, Domains DEF Coming
  <2>3. ASSUME NEW y, y.rev \in Nat, Harmless(x, y) PROVE Harmless(x, y)'
    BY <2>2, <2>3, <1>1 DEF Harmless
  <2>4. \A t \in tasks : t.slot = x => Harmless(x, t)'
    BY <2>1, <2>3, Domains DEF Follows
  <2>5. Harmless(x, row[x])'
    <3>1. CASE row'[x].until = 0
      BY <3>1, <1>1, Domains DEF Harmless
    <3>2. CASE row'[x] = row[x]
      <4>1. Coming(x, row[x].rev) => Coming(x, row[x].rev)'
        <5> DEFINE v == row[x].rev
        <5>1. PICK w \in Nat : w = row[x].rev
          BY Domains
        <5>2. Coming(x, row[x].rev) => Coming(x, w)
          BY <5>1
        <5>3. Coming(x, w)' => Coming(x, row[x].rev)'
          BY <5>1, <3>2 DEF Coming
        <5> QED
          BY <5>2, <5>3, <2>2
      <4> QED
        BY <2>1, <3>2, <4>1, <1>1 DEF Harmless, Follows
    <3> QED
      BY <3>1, <3>2, <1>4
  <2>6. slot[x].until # 0 => row'[x].rev = slot[x].rev \/ \E t \in tasks : t.slot = x /\ t.rev = slot[x].rev
    BY <2>1, <1>3, <1>4, Domains DEF Follows
  <2> QED
    BY <2>4, <2>5, <2>6, <1>1 DEF Follows
<1>10. Followed'
  BY <1>1, <1>9 DEF Followed
<1> QED
  BY <1>6, <1>7, <1>8, <1>10 DEF FInv

\* The marker takes over what a failed clear owed; a clear that wrote its
\* tombstones removes the entry.
LEMMA MarkerFollows ==
  ASSUME IInv, FInv, NEW c \in Clears, UpdateMarker(c)
  PROVE  FInv'
<1> DEFINE r == call[c].rev
<1>1. /\ UNCHANGED <<now, slot, live, tasks, dbId, lastId, row, admin, crashes, cleared, lost>>
      /\ First' = First
      /\ call[c].pc \in {"failed", "written"}
      /\ marker' = IF marker.rev <= r
                   THEN [id |-> call[c].id, rev |-> r, pending |-> call[c].pc = "failed"]
                   ELSE marker
  BY DEF UpdateMarker, NotNewer, First
<1>2. /\ \A k \in Clears \ {c} : call'[k] = call[k]
      /\ call'[c].pc = "done" /\ call'[c].id = call[c].id
  BY DEF UpdateMarker, IInv, Types, Calls
<1>3. /\ r \in Nat /\ call[c].id \in Nat /\ marker.rev \in Nat /\ marker.id \in Nat
      /\ marker.pending \in BOOLEAN /\ call[c].id # 0 /\ call[c].id <= lastId
  BY <1>1, Domains DEF FInv, MarkerTypes, Markers, Identified
<1>4. MarkerTypes'
  <2>1. [id |-> call[c].id, rev |-> r, pending |-> call[c].pc = "failed"] \in Markers
    BY <1>3 DEF Markers
  <2> QED
    BY <1>1, <2>1 DEF FInv, MarkerTypes
<1>5. FirstOfName'
  BY <1>1, <1>2 DEF FInv, FirstOfName
<1>6. Identified'
  BY <1>1, <1>2, <1>3 DEF FInv, Identified
<1>7. Recorded'
  BY <1>1, <1>2, <1>3 DEF FInv, Recorded
<1>8. ASSUME First, NEW s \in Slots, NEW v \in Nat, Coming(s, v) PROVE Coming(s, v)'
  <2>1. call[c].id = 1 /\ (marker.pending => marker.id = 1)
    BY <1>3, <1>8 DEF FInv, Identified, First
  <2>2. CASE row[s].rev > v \/ \E t \in tasks : t.slot = s /\ t.rev > v
    BY <2>2, <1>1 DEF Coming
  <2>3. CASE \E k \in Clears \ {c} : call[k].pc \in {"commit", "failed"} /\ call[k].rev > v
    BY <2>3, <1>2 DEF Coming
  <2>4. CASE call[c].pc = "failed" /\ r > v
    <3>1. CASE marker.rev <= r
      BY <2>1, <2>4, <3>1, <1>1 DEF Coming
    <3>2. CASE marker.rev > r /\ marker.pending
      BY <2>1, <2>4, <3>2, <1>1, <1>3 DEF Coming
    <3>3. CASE marker.rev > r /\ ~marker.pending
      <4>1. row[s].rev >= marker.rev
        BY <3>3, <1>8 DEF FInv, Recorded
      <4> QED
        BY <4>1, <2>4, <3>3, <1>1, <1>3, Domains DEF Coming
    <3> QED
      BY <3>1, <3>2, <3>3, <1>3
  <2>5. CASE marker.pending /\ marker.id = 1 /\ marker.rev > v
    <3>1. CASE marker.rev > r
      BY <2>5, <3>1, <1>1, <1>3 DEF Coming
    <3>2. CASE marker.rev <= r /\ call[c].pc = "failed"
      <4>1. marker' = [id |-> 1, rev |-> r, pending |-> TRUE]
        BY <2>1, <3>2, <1>1
      <4>2. marker'.pending /\ marker'.id = 1 /\ marker'.rev > v
        BY <4>1, <2>5, <3>2, <1>3
      <4> QED
        BY <4>2 DEF Coming
    <3>3. CASE marker.rev <= r /\ call[c].pc = "written"
      <4>1. row[s].rev >= r
        BY <3>3, <1>8 DEF FInv, Recorded
      <4> QED
        BY <4>1, <2>5, <3>3, <1>1, <1>3, Domains DEF Coming
    <3> QED
      BY <3>1, <3>2, <3>3, <1>1, <1>3
  <2> QED
    BY <1>8, <1>1, <2>2, <2>3, <2>4, <2>5 DEF Coming
<1> QED
  BY <1>1, <1>4, <1>5, <1>6, <1>7, <1>8, KeptFollows DEF FInv

\* A deletion ends the first record, and a creation never brings it back.
LEMMA AdministerFollows ==
  ASSUME IInv, FInv, Administer
  PROVE  FInv'
<1>1. /\ UNCHANGED <<now, tasks, call, crashes>> /\ ~First'
      /\ lost' = lost \/ lost' = FALSE
      /\ marker' = marker \/ marker' = [id |-> 0, rev |-> 0, pending |-> FALSE]
  <2>1. CASE DeleteRecord
    BY <2>1 DEF DeleteRecord, First
  <2>2. CASE DeleteObject
    BY <2>2 DEF DeleteObject, First, FInv, FirstOfName
  <2>3. CASE DeleteMarker
    BY <2>3 DEF DeleteMarker, NoMarker, First, FInv, FirstOfName
  <2>4. CASE CreateRecord
    BY <2>4, Domains DEF CreateRecord, First, FInv, Identified
  <2>5. CASE CreateObject
    BY <2>5 DEF CreateObject, First, FInv, FirstOfName
  <2> QED
    BY <2>1, <2>2, <2>3, <2>4, <2>5 DEF Administer
<1>2. MarkerTypes'
  <2>1. [id |-> 0, rev |-> 0, pending |-> FALSE] \in Markers
    BY DEF Markers
  <2> QED
    BY <1>1, <2>1 DEF FInv, MarkerTypes
<1>3. FirstOfName'
  <2>1. lastId' = 1 /\ dbId' = 0 => live' = 0 \/ admin'.delete = "record"
    <3>1. CASE DeleteRecord
      BY <3>1 DEF DeleteRecord, IInv, Types
    <3>2. CASE DeleteObject
      BY <3>2 DEF DeleteObject
    <3>3. CASE DeleteMarker
      BY <3>3 DEF DeleteMarker, FInv, FirstOfName
    <3>4. CASE CreateRecord
      BY <3>4, Domains DEF CreateRecord
    <3>5. CASE CreateObject
      BY <3>5 DEF CreateObject, FInv, FirstOfName
    <3> QED
      BY <3>1, <3>2, <3>3, <3>4, <3>5 DEF Administer
  <2>2. admin'.create = "record" => lastId' # 1
    <3>1. CASE CreateRecord
      BY <3>1, Domains DEF CreateRecord, FInv, Identified
    <3>2. CASE CreateObject
      BY <3>2 DEF CreateObject, IInv, Types
    <3>3. CASE DeleteRecord \/ DeleteObject \/ DeleteMarker
      BY <3>3 DEF DeleteRecord, DeleteObject, DeleteMarker, FInv, FirstOfName, IInv, Types
    <3> QED
      BY <3>1, <3>2, <3>3 DEF Administer
  <2> QED
    BY <1>1, <2>1, <2>2 DEF FirstOfName
<1>4. Identified'
  <2>1. lastId \in Nat /\ lastId' \in Nat /\ lastId' >= lastId /\ dbId' <= lastId'
    BY Domains DEF Administer, DeleteRecord, DeleteObject, DeleteMarker, CreateRecord,
       CreateObject, FInv, Identified
  <2>2. marker'.id <= lastId' /\ (marker'.pending => marker'.id # 0)
    BY <1>1, <2>1 DEF FInv, Identified, MarkerTypes, Markers
  <2> QED
    BY <1>1, <2>1, <2>2, Domains DEF FInv, Identified
<1>5. Ordered'
  <2>1. row' = row \/ \A s \in Slots : row'[s].rev = 0 /\ row'[s].until = 0
    BY DEF Administer, DeleteRecord, DeleteObject, DeleteMarker, CreateRecord, CreateObject,
       EmptyRows, NoRow
  <2>2. slot' = slot \/ \A s \in Slots : slot'[s].until = 0
    BY DEF Administer, DeleteRecord, DeleteObject, DeleteMarker, CreateRecord, CreateObject,
       EmptySlots, NoCooldown
  <2> QED
    BY <1>1, <2>1, <2>2, Domains DEF FInv, Ordered
<1>6. Recorded' /\ Followed'
  BY <1>1 DEF Recorded, Followed
<1> QED
  BY <1>2, <1>3, <1>4, <1>5, <1>6 DEF FInv

\* A start finds the active rows in its slots and nothing in flight.
LEMMA RestartFollows ==
  ASSUME IInv, FInv, Restart
  PROVE  FInv'
<1>1. /\ UNCHANGED <<now, dbId, lastId, row, cleared>> /\ First' = First
      /\ live' = dbId /\ tasks' = {} /\ lost' = FALSE /\ crashes' = crashes + 1
      /\ admin' = [delete |-> "none", create |-> "none"]
      /\ marker' = [id |-> 0, rev |-> 0, pending |-> FALSE]
      /\ \A c \in Clears : call'[c].pc \in {"idle", "done"} /\ call'[c].id = 0
  BY DEF Restart, Idle, NoMarker, First
<1>2. \A s \in Slots :
        \/ slot'[s].until = row[s].until /\ slot'[s].rev = row[s].rev
        \/ slot'[s].until = 0 /\ row[s].until <= now
  BY Domains DEF Restart, Restored, NoCooldown
<1>3. MarkerTypes'
  <2>1. [id |-> 0, rev |-> 0, pending |-> FALSE] \in Markers
    BY DEF Markers
  <2>2. crashes' \in Nat
    BY <1>1 DEF FInv, MarkerTypes
  <2> QED
    BY <1>1, <2>1, <2>2 DEF MarkerTypes
<1>4. FirstOfName'
  BY <1>1 DEF FirstOfName, First
<1>5. Identified'
  BY <1>1, Domains DEF FInv, Identified
<1>6. \A s \in Slots : row[s].until # 0 => row[s].rev # 0
  BY Domains DEF IInv, NoResurrection
<1>7. Ordered'
  BY <1>1, <1>2, <1>6, Domains DEF Ordered
<1>8. Recorded'
  BY <1>1, Domains DEF Recorded
<1>9. Followed'
  BY <1>1, <1>2 DEF Followed, Follows, Harmless
<1> QED
  BY <1>3, <1>4, <1>5, <1>7, <1>8, <1>9 DEF FInv

LEMMA TickFollows ==
  ASSUME IInv, FInv, Tick \/ UNCHANGED vars
  PROVE  FInv'
<1>1. /\ now \in Nat /\ now' \in Nat /\ now' >= now
      /\ UNCHANGED <<slot, live, counter, tasks, dbId, lastId, row, admin, call, marker, crashes,
                     cleared, lost>>
  BY Domains DEF Tick, vars
<1>2. (MarkerTypes /\ FirstOfName /\ Identified /\ Ordered /\ Recorded)'
  BY <1>1 DEF FInv, MarkerTypes, FirstOfName, First, Identified, Ordered, Recorded
<1>3. ASSUME NEW s \in Slots, Follows(s) PROVE Follows(s)'
  BY <1>1, <1>3, Domains DEF Follows, Harmless, Coming
<1> QED
  BY <1>1, <1>2, <1>3 DEF FInv, Followed, First

\* The invariant about rows, slots and tasks, on top of the one above.
THEOREM RowsInvariant == Spec => [](IInv /\ FInv)
<1>1. IInv /\ FInv /\ [Next]_vars => FInv'
  <2> SUFFICES ASSUME IInv, FInv, [Next]_vars PROVE FInv'
    OBVIOUS
  <2>1. ASSUME NEW s \in Slots, NEW d \in Durations, SetCooldown(s, d) PROVE FInv'
    BY <2>1, SetFollows
  <2>2. ASSUME NEW t \in tasks, LookUpTask(t) \/ WriteTask(t) \/ LoseTask(t) PROVE FInv'
    BY <2>2, WriteFollows, OtherTaskFollows
  <2>3. ASSUME NEW c \in Clears, Clear(c) PROVE FInv'
    BY <2>3, CallFollows, ResetFollows, CommitFollows, MarkerFollows DEF Clear
  <2> QED
    BY <2>1, <2>2, <2>3, AdministerFollows, RestartFollows, TickFollows DEF Next, Persist
<1> QED
  BY <1>1, FollowInit, Invariant, PTL DEF Spec

\* Every variable stays in its domain.
THEOREM TypeCorrect == Spec => []TypeOK
<1>1. IInv /\ FInv => TypeOK
  BY DEF IInv, Types, FInv, MarkerTypes, TypeOK
<1> QED
  BY <1>1, RowsInvariant, PTL

\* When nothing is in flight and no write failed, what a restart would
\* restore is what memory holds, or the list shows the retry (app.go,
\* setupEndpointRuntimeStates, and ClearEndpointCooldown).
THEOREM RowsFollowSlots == Spec => []StoreFollowsMemory
<1>1. IInv /\ FInv => StoreFollowsMemory
  <2> SUFFICES ASSUME IInv, FInv, Quiet, ~lost, lastId = 1, ~PendingShown, NEW s \in Slots
               PROVE  ActiveUntil(row[s]) = ActiveUntil(slot[s])
    BY DEF StoreFollowsMemory
  <2>1. CASE dbId = 0
    BY <2>1, Domains DEF FInv, FirstOfName, Quiet, IInv, NothingWithoutObject, ActiveUntil
  <2>2. CASE First
    <3>1. Follows(s)
      BY <2>2 DEF FInv, Followed
    <3>2. \A c \in Clears : call[c].pc # "commit" /\ call[c].pc # "failed"
      BY Zenon DEF Quiet
    <3>3. row[s].until <= now \/ (row[s].rev = slot[s].rev /\ row[s].until = slot[s].until)
      BY <2>2, <3>1, <3>2, Domains DEF Follows, Harmless, Coming, Quiet, PendingShown, First
    <3>4. slot[s].until # 0 => row[s].until = slot[s].until
      BY <3>1 DEF FInv, Ordered, Follows, Quiet
    <3> QED
      BY <3>3, <3>4, Domains DEF ActiveUntil
  <2> QED
    BY <2>1, <2>2, Domains DEF FInv, Identified, First
<1> QED
  BY <1>1, RowsInvariant, PTL

\* The retry entry of a failed clear goes only when a clear at least as new
\* has written its tombstones (markCooldownPersistPending and
\* clearCooldownPersistPending).
THEOREM FailedClearKeepsItsRetry == Spec => RetryIsKept
<1>1. ASSUME IInv, FInv, [Next]_vars, PendingShown, dbId' = dbId, lastId = 1,
             crashes' = crashes, marker'.rev # 0
      PROVE  PendingShown' \/ (marker'.rev >= marker.rev /\ cleared' >= marker'.rev)
  <2>1. First
    BY <1>1, Domains DEF PendingShown, First, FInv, Identified
  <2>2. CASE marker' = marker
    BY <1>1, <2>2 DEF PendingShown
  <2>3. ASSUME NEW c \in Clears, UpdateMarker(c), marker' # marker
        PROVE  PendingShown' \/ (marker'.rev >= marker.rev /\ cleared' >= marker'.rev)
    <3>1. /\ marker' = [id |-> call[c].id, rev |-> call[c].rev, pending |-> call[c].pc = "failed"]
          /\ marker.rev <= call[c].rev /\ cleared' = cleared
          /\ call[c].pc \in {"failed", "written"}
      BY <2>3 DEF UpdateMarker, NotNewer
    <3>2. CASE call[c].pc = "written"
      BY <3>1, <3>2, <2>1, <1>1 DEF FInv, Recorded
    <3>3. CASE call[c].pc = "failed"
      <4>1. call[c].id = dbId
        BY <3>1, <1>1, <2>1, Domains DEF FInv, Identified, First
      <4> QED
        BY <3>1, <3>3, <4>1, <1>1 DEF PendingShown
    <3> QED
      BY <3>1, <3>2, <3>3
  <2>4. NoMarker.rev = 0 /\ crashes \in Nat
    BY <1>1 DEF NoMarker, FInv, MarkerTypes
  <2>5. marker' = marker \/ \E c \in Clears : UpdateMarker(c)
    <3>1. \A c \in Clears : Clear(c) => marker' = marker \/ UpdateMarker(c)
      BY <1>1, <2>4 DEF Clear, GetRecord, RemoveOrphan, ResetMemory, CommitTombstones, FailTombstones
    <3>2. Persist \/ Administer \/ Restart \/ Tick => marker' = marker
      BY <1>1, <2>4 DEF Persist, LookUpTask, WriteTask, LoseTask, Administer, DeleteRecord,
         DeleteObject, DeleteMarker, CreateRecord, CreateObject, Restart, Tick
    <3>3. \A s \in Slots, d \in Durations : SetCooldown(s, d) => marker' = marker
      BY DEF SetCooldown
    <3> QED
      BY <1>1, <3>1, <3>2, <3>3 DEF Next, vars
  <2> QED
    BY <2>2, <2>3, <2>5
<1> QED
  BY <1>1, RowsInvariant, PTL DEF Spec, RetryIsKept

-----------------------------------------------------------------------------
(* The user's route.  Its inductive invariant, in parts.                    *)

Choice(r) == Routing!Choice(r)

\* Before a start has read the route, no call is under way and the manager routes
\* automatically; a manual route was published while routing was open.
RouteStarts ==
  /\ phase # "running" => rtCall.pc = "free" /\ route = Routing!Auto(0) /\ ~reset
  /\ ~ready \/ reset => route.mode = "auto"

\* What a call has planned: the next revision, a target the manager has, and for
\* a deletion that clears a route to its target, that route.
CallPlans ==
  /\ rtCall.pc = "free" => rtCall = Routing!Free
  /\ rtCall.pc \in {"persist", "publish", "rewrite", "republish"} => rtCall.next.rev = route.rev + 1
  /\ rtCall.pc # "free" /\ rtCall.op # "delete" => rtCall.pc \in {"persist", "publish"}
  /\ rtCall.pc # "free" /\ rtCall.op # "delete" /\ rtCall.next.mode # "auto" =>
       rtCall.next.target \in rtLive /\ ready
  /\ rtCall.op = "delete" /\ rtCall.next.rev # 0 =>
       /\ rtCall.prev.mode # "auto" /\ rtCall.prev.target = rtCall.target
       /\ rtCall.target \in rtLive /\ ready /\ ~reset
       /\ Choice(rtCall.prev) = left
       /\ rtCall.pc \in {"persist", "publish"} =>
            Choice(rtCall.next) = Choice(Routing!Auto(0)) /\ rtCall.prev = route
       /\ rtCall.pc \in {"rewrite", "republish"} => Choice(rtCall.next) = Choice(rtCall.prev)
  /\ rtCall.op = "delete" => rtCall.pc \in {"persist", "publish", "row", "remove", "rewrite", "republish"}
  /\ rtCall.op = "delete" /\ rtCall.next.rev = 0 => rtCall.pc \in {"row", "remove"}

\* A deletion in its second half has left no route to its target.
TargetIsFree ==
  rtCall.pc \in {"row", "remove", "rewrite", "republish"} =>
    route.mode = "auto" \/ route.target # rtCall.target

\* The deletion has cleared the route and not yet put it back.
Cleared == rtCall.op = "delete" /\ rtCall.next.rev # 0 /\ rtCall.pc \in {"row", "remove", "rewrite"}

\* What is saved and what is published, wherever the call under way is.
SavedAndPublished ==
  /\ route.mode # "auto" => route.target \in rtLive
  /\ rtCall.pc \in {"publish", "republish"} => saved = rtCall.next
  /\ Cleared => Choice(saved) = Choice(route)
  /\ ~Cleared /\ rtCall.pc \notin {"publish", "republish"} =>
       /\ Choice(saved) = left
       /\ phase = "running" /\ ready => Choice(route) = left \/ reset

RouteInv ==
  /\ Routing!TypeOK /\ RouteStarts /\ CallPlans /\ TargetIsFree /\ SavedAndPublished

\* Facts about the records of a route and a call.
LEMMA RouteRecords ==
  /\ \A n \in Nat : /\ Routing!Auto(n) \in Routing!Routes /\ Routing!Auto(n).rev = n
                    /\ Routing!Auto(n).mode = "auto"
                    /\ Choice(Routing!Auto(n)) = Choice(Routing!Auto(0))
  /\ Routing!Free.pc = "free" /\ Routing!Free.op = "none" /\ Routing!Free.next = Routing!Auto(0)
  /\ \A r \in Routing!Routes, s \in Routing!Routes :
       Choice(r) = Choice(s) => r.mode = s.mode /\ r.target = s.target
<1>1. \A n \in Nat : /\ Routing!Auto(n) \in Routing!Routes /\ Routing!Auto(n).rev = n
                     /\ Routing!Auto(n).mode = "auto"
                     /\ Choice(Routing!Auto(n)) = Choice(Routing!Auto(0))
  BY DEF Routing!Auto, Routing!Routes, Routing!Names, Routing!NoName, Routing!Modes, Choice, Routing!Choice
<1>2. Routing!Free.pc = "free" /\ Routing!Free.op = "none" /\ Routing!Free.next = Routing!Auto(0)
  BY DEF Routing!Free
<1>3. ASSUME NEW r \in Routing!Routes, NEW s \in Routing!Routes, Choice(r) = Choice(s)
      PROVE  r.mode = s.mode /\ r.target = s.target
  BY <1>3 DEF Choice, Routing!Choice
<1> QED BY <1>1, <1>2, <1>3

RouteCalls == [op : {"none", "set", "clear", "delete"}, target : Routing!Names, next : Routing!Routes,
          prev : Routing!Routes,
          pc : {"free", "persist", "publish", "row", "remove", "rewrite", "republish"}]

\* The lock that nobody holds.
LEMMA FreeTypes == Routing!Free \in RouteCalls
BY RouteRecords DEF RouteCalls, Routing!Free, Routing!Names

\* A call that takes the lock.
LEMMA LockKeeps ==
  ASSUME RouteInv, NEW op \in {"set", "clear", "delete"}, NEW at \in {"persist", "row"},
         NEW e \in Routing!Names, NEW next \in Routing!Routes,
         Routing!Lock(op, at, e, next),
         at = "persist" => next.rev = route.rev + 1,
         op # "delete" => at = "persist",
         op # "delete" /\ next.mode # "auto" => next.target \in rtLive /\ ready,
         op = "delete" /\ next.rev # 0 =>
           /\ route.mode # "auto" /\ route.target = e /\ at = "persist"
           /\ Choice(next) = Choice(Routing!Auto(0)),
         op = "delete" /\ next.rev = 0 => at = "row" /\ (route.mode = "auto" \/ route.target # e)
  PROVE  RouteInv'
<1> USE DEF RouteInv
<1>1. /\ rtCall = Routing!Free /\ phase = "running"
      /\ rtCall' = [op |-> op, pc |-> at, target |-> e, next |-> next, prev |-> route]
      /\ UNCHANGED <<rtRows, rtLive, route, saved, ready, phase, adding, left, reset>>
  BY DEF Routing!Lock, Routing!Running
<1>2. /\ rtCall'.op = op /\ rtCall'.pc = at /\ rtCall'.target = e /\ rtCall'.next = next
      /\ rtCall'.prev = route
  BY <1>1
<1>3. Routing!TypeOK'
  BY <1>1 DEF Routing!TypeOK
<1>4. RouteStarts'
  BY <1>1 DEF RouteStarts
<1>5. ~Cleared /\ rtCall.pc = "free"
  BY <1>1, RouteRecords DEF Cleared
<1>6. /\ Choice(saved) = left /\ (ready => Choice(route) = left \/ reset)
      /\ (route.mode # "auto" => route.target \in rtLive /\ ready /\ ~reset)
  BY <1>1, <1>5 DEF SavedAndPublished, RouteStarts
<1>7. CallPlans'
  <2>1. rtCall'.pc # "free" /\ rtCall'.pc \notin {"rewrite", "republish"}
    BY <1>2
  <2>2. rtCall'.op = "delete" /\ rtCall'.next.rev # 0 =>
          /\ route.mode # "auto" /\ route.target = e /\ e \in rtLive /\ ready /\ ~reset
          /\ Choice(route) = left
          /\ at = "persist" /\ Choice(next) = Choice(Routing!Auto(0))
    BY <1>2, <1>6
  <2> QED BY <1>1, <1>2, <2>1, <2>2 DEF CallPlans, Choice
<1>8. TargetIsFree'
  BY <1>1, <1>2 DEF TargetIsFree, Routing!TypeOK, Routing!Routes
<1>9. SavedAndPublished'
  <2>1. ~Cleared'
    BY <1>2 DEF Cleared
  <2> QED BY <1>1, <1>2, <1>6, <2>1 DEF SavedAndPublished, Choice
<1> QED BY <1>3, <1>4, <1>7, <1>8, <1>9

LEMMA RouteCallsBegin ==
  ASSUME RouteInv,
         \/ \E e \in Endpoints, m \in Routing!Modes \ {"auto"}, f \in BOOLEAN :
              Routing!SetRoute(m, e, f)
         \/ Routing!ClearRoute
         \/ \E e \in Endpoints : Routing!DeleteEndpoint(e)
  PROVE  RouteInv'
<1>t. route \in Routing!Routes /\ route.rev \in Nat /\ route.rev + 1 \in Nat /\ rtLive \subseteq Endpoints
      /\ Endpoints \subseteq Routing!Names /\ Routing!NoName \in Routing!Names
  BY DEF RouteInv, Routing!TypeOK, Routing!Routes, Routing!Names
<1>1. ASSUME NEW e \in Endpoints, NEW m \in Routing!Modes \ {"auto"}, NEW f \in BOOLEAN,
             Routing!SetRoute(m, e, f)
      PROVE  RouteInv'
  <2> DEFINE next == Routing!Manual(m, e, f, route.rev + 1)
  <2>1. next \in Routing!Routes /\ next.rev = route.rev + 1 /\ next.target = e
    BY <1>t DEF Routing!Manual, Routing!Routes
  <2>2. e \in rtLive /\ ready /\ Routing!Lock("set", "persist", e, next)
    BY <1>1 DEF Routing!SetRoute
  <2> HIDE DEF next
  <2> QED BY <1>t, <2>1, <2>2, LockKeeps
<1>2. CASE Routing!ClearRoute
  <2>1. Routing!Lock("clear", "persist", Routing!NoName, Routing!Auto(route.rev + 1))
    BY <1>2 DEF Routing!ClearRoute
  <2> QED BY <1>t, <2>1, RouteRecords, LockKeeps
<1>3. ASSUME NEW e \in Endpoints, Routing!DeleteEndpoint(e)
      PROVE  RouteInv'
  <2>1. CASE route.mode # "auto" /\ route.target = e
    <3>1. Routing!Lock("delete", "persist", e, Routing!Auto(route.rev + 1))
      BY <1>3, <2>1 DEF Routing!DeleteEndpoint
    <3>2. route.rev + 1 # 0
      BY <1>t
    <3> QED BY <1>t, <2>1, <3>1, <3>2, RouteRecords, LockKeeps
  <2>2. CASE ~(route.mode # "auto" /\ route.target = e)
    <3>1. Routing!Lock("delete", "row", e, Routing!Auto(0))
      BY <1>3, <2>2 DEF Routing!DeleteEndpoint
    <3> QED BY <1>t, <2>2, <3>1, RouteRecords, LockKeeps
  <2> QED BY <2>1, <2>2
<1> QED BY <1>1, <1>2, <1>3

\* The settings written, or not.
LEMMA RoutePersistKeeps ==
  ASSUME RouteInv, Routing!Persist \/ Routing!PersistFails
  PROVE  RouteInv'
<1> USE DEF RouteInv
<1>t. /\ rtCall \in RouteCalls /\ route \in Routing!Routes /\ saved \in Routing!Routes
      /\ rtCall.next \in Routing!Routes /\ rtCall.next.rev = route.rev + 1 /\ rtCall.next.rev # 0
      /\ rtCall.pc \in {"persist", "rewrite"}
  BY DEF Routing!TypeOK, RouteCalls, Routing!Persist, Routing!PersistFails, CallPlans, Routing!Routes
<1>1. CASE Routing!Persist
  <2> DEFINE at == IF rtCall.pc = "persist" THEN "publish" ELSE "republish"
  <2>1. /\ saved' = rtCall.next /\ rtCall' = [rtCall EXCEPT !.pc = at]
        /\ UNCHANGED <<rtRows, rtLive, route, ready, phase, adding, left, reset>>
    BY <1>1 DEF Routing!Persist
  <2>2. /\ rtCall' \in RouteCalls /\ rtCall'.pc = at /\ rtCall'.op = rtCall.op
        /\ rtCall'.target = rtCall.target /\ rtCall'.next = rtCall.next /\ rtCall'.prev = rtCall.prev
    BY <1>t, <2>1 DEF RouteCalls
  <2>3. Routing!TypeOK'
    BY <1>t, <2>1, <2>2 DEF Routing!TypeOK, RouteCalls
  <2>4. RouteStarts' /\ TargetIsFree'
    BY <1>t, <2>1, <2>2 DEF RouteStarts, TargetIsFree
  <2>5. CallPlans'
    BY <1>t, <2>1, <2>2 DEF CallPlans, Choice, Routing!Choice
  <2>6. SavedAndPublished'
    BY <1>t, <2>1, <2>2 DEF SavedAndPublished, Cleared
  <2> QED BY <2>3, <2>4, <2>5, <2>6
<1>2. CASE Routing!PersistFails
  <2>1. /\ rtCall' = Routing!Free
        /\ left' = IF rtCall.pc = "rewrite" THEN Choice(route) ELSE left
        /\ UNCHANGED <<rtRows, rtLive, route, saved, ready, phase, adding, reset>>
    BY <1>2 DEF Routing!PersistFails, Choice
  <2>2. Routing!TypeOK'
    BY <2>1, FreeTypes DEF Routing!TypeOK, RouteCalls
  <2>3. RouteStarts' /\ CallPlans' /\ TargetIsFree' /\ ~Cleared'
    BY <2>1, RouteRecords DEF RouteStarts, CallPlans, TargetIsFree, Cleared
  <2>4. rtCall.pc = "rewrite" => Cleared
    BY <1>t DEF CallPlans, Cleared
  <2>5. rtCall.pc = "persist" => ~Cleared
    BY DEF Cleared
  <2>6. SavedAndPublished'
    BY <1>t, <2>1, <2>3, <2>4, <2>5, RouteRecords DEF SavedAndPublished, Choice, Routing!Choice
  <2> QED BY <2>2, <2>3, <2>6
<1> QED BY <1>1, <1>2

LEMMA RoutePublishKeeps ==
  ASSUME RouteInv, Routing!Publish
  PROVE  RouteInv'
<1> USE DEF RouteInv
<1>t. /\ rtCall \in RouteCalls /\ route \in Routing!Routes
      /\ rtCall.next \in Routing!Routes /\ rtCall.next.rev = route.rev + 1 /\ rtCall.next.rev # 0
      /\ rtCall.pc \in {"publish", "republish"} /\ saved = rtCall.next /\ rtCall.pc # "free"
  BY DEF Routing!TypeOK, RouteCalls, Routing!Publish, CallPlans, Routing!Routes, SavedAndPublished
<1>1. /\ route' = rtCall.next /\ reset' = FALSE
      /\ UNCHANGED <<rtRows, rtLive, saved, ready, phase, adding>>
  BY <1>t DEF Routing!Publish, Routing!ApplyPersisted, Routing!Routes
<1>2. phase = "running"
  BY <1>t DEF RouteStarts
<1>3. CASE rtCall.op = "delete" /\ rtCall.pc = "publish"
  <2>1. rtCall' = [rtCall EXCEPT !.pc = "row"] /\ left' = left
    BY <1>3 DEF Routing!Publish
  <2>2. /\ rtCall' \in RouteCalls /\ rtCall'.pc = "row" /\ rtCall'.op = "delete"
        /\ rtCall'.target = rtCall.target /\ rtCall'.next = rtCall.next /\ rtCall'.prev = rtCall.prev
    BY <1>t, <1>3, <2>1 DEF RouteCalls
  <2>3. Choice(rtCall.next) = Choice(Routing!Auto(0)) /\ route'.mode = "auto"
    BY <1>t, <1>1, <1>3, RouteRecords DEF CallPlans
  <2>4. Routing!TypeOK'
    BY <1>t, <1>1, <2>1, <2>2 DEF Routing!TypeOK, RouteCalls
  <2>5. RouteStarts' /\ TargetIsFree'
    BY <1>1, <1>2, <2>3 DEF RouteStarts, TargetIsFree
  <2>6. CallPlans'
    BY <1>t, <1>1, <1>3, <2>1, <2>2 DEF CallPlans, Choice, Routing!Choice
  <2>7. SavedAndPublished'
    <3>1. Cleared'
      BY <1>t, <2>2 DEF Cleared
    <3> QED BY <1>t, <1>1, <2>2, <2>3, <3>1 DEF SavedAndPublished, Choice
  <2> QED BY <2>4, <2>5, <2>6, <2>7
<1>4. CASE ~(rtCall.op = "delete" /\ rtCall.pc = "publish")
  <2>1. /\ rtCall' = Routing!Free
        /\ left' = IF rtCall.op = "delete" THEN left ELSE Choice(rtCall.next)
    BY <1>t, <1>4 DEF Routing!Publish, Choice
  <2>2. Choice(route') = left' /\ saved' = route'
    BY <1>t, <1>1, <1>4, <2>1 DEF CallPlans, Choice
  <2>3. Routing!TypeOK'
    BY <1>t, <1>1, <2>1, FreeTypes DEF Routing!TypeOK, RouteCalls
  <2>4. route'.mode # "auto" => route'.target \in rtLive
    <3>1. CASE rtCall.op # "delete"
      BY <1>t, <1>1, <3>1 DEF CallPlans
    <3>2. CASE rtCall.op = "delete"
      <4>1. Choice(rtCall.next) = Choice(rtCall.prev) /\ rtCall.prev.target \in rtLive
        BY <1>t, <1>4, <3>2 DEF CallPlans
      <4>2. rtCall.prev \in Routing!Routes
        BY <1>t DEF RouteCalls
      <4> QED BY <1>t, <1>1, <4>1, <4>2, RouteRecords
    <3> QED BY <3>1, <3>2
  <2>5. CallPlans' /\ TargetIsFree' /\ ~Cleared' /\ rtCall'.pc = "free"
    BY <2>1, RouteRecords DEF CallPlans, TargetIsFree, Cleared
  <2>6. ~ready => route'.mode = "auto"
    <3>1. CASE rtCall.op # "delete"
      BY <1>t, <1>1, <3>1 DEF CallPlans
    <3>2. CASE rtCall.op = "delete"
      BY <1>t, <3>2 DEF CallPlans
    <3> QED BY <3>1, <3>2
  <2>7. RouteStarts'
    BY <1>1, <1>2, <2>6 DEF RouteStarts
  <2>8. SavedAndPublished'
    BY <1>1, <2>2, <2>4, <2>5 DEF SavedAndPublished, Choice
  <2> QED BY <2>3, <2>5, <2>7, <2>8
<1> QED BY <1>3, <1>4

\* What DeleteFails and RemoveLive do about a route they have cleared.
LEMMA RestoreKeeps ==
  ASSUME RouteInv, Routing!Restore, rtCall.op = "delete", rtCall.pc \in {"row", "remove"},
         rtCall.next.rev # 0 \/ rtCall.pc = "row" \/ rtCall.target \notin rtLive,
         UNCHANGED <<rtRows, rtLive, route, saved, ready, phase, adding, left, reset>>
  PROVE  RouteInv'
<1> USE DEF RouteInv
<1>t. /\ rtCall \in RouteCalls /\ route \in Routing!Routes /\ rtCall.prev \in Routing!Routes
      /\ route.rev + 1 \in Nat /\ route.rev + 1 # 0
  BY DEF Routing!TypeOK, RouteCalls, Routing!Routes
<1>1. CASE rtCall.next.rev = 0
  <2>1. rtCall' = Routing!Free /\ ~Cleared
    BY <1>1 DEF Routing!Restore, Cleared
  <2>2. Routing!TypeOK'
    BY <2>1, FreeTypes DEF Routing!TypeOK, RouteCalls
  <2>3. RouteStarts' /\ CallPlans' /\ TargetIsFree' /\ ~Cleared'
    BY <2>1, RouteRecords DEF RouteStarts, CallPlans, TargetIsFree, Cleared
  <2>4. SavedAndPublished'
    BY <2>1, <2>3, RouteRecords DEF SavedAndPublished, Choice
  <2> QED BY <2>2, <2>3, <2>4
<1>2. CASE rtCall.next.rev # 0
  <2> DEFINE again == [rtCall.prev EXCEPT !.rev = route.rev + 1]
  <2>1. rtCall' = [rtCall EXCEPT !.pc = "rewrite", !.next = again]
    BY <1>2 DEF Routing!Restore
  <2>2. again \in Routing!Routes /\ again.rev = route.rev + 1 /\ Choice(again) = Choice(rtCall.prev)
    BY <1>t DEF Routing!Routes, Choice, Routing!Choice
  <2> HIDE DEF again
  <2>3. /\ rtCall' \in RouteCalls /\ rtCall'.pc = "rewrite" /\ rtCall'.op = "delete"
        /\ rtCall'.target = rtCall.target /\ rtCall'.next = again /\ rtCall'.prev = rtCall.prev
    BY <1>t, <2>1, <2>2 DEF RouteCalls
  <2>4. Routing!TypeOK'
    BY <2>3 DEF Routing!TypeOK, RouteCalls
  <2>5. RouteStarts' /\ TargetIsFree'
    BY <2>3 DEF RouteStarts, TargetIsFree
  <2>6. CallPlans'
    BY <1>t, <1>2, <2>2, <2>3 DEF CallPlans, Choice, Routing!Choice
  <2>7. Cleared /\ Cleared'
    BY <1>t, <1>2, <2>2, <2>3 DEF Cleared
  <2>8. SavedAndPublished'
    BY <2>3, <2>7 DEF SavedAndPublished, Choice
  <2> QED BY <2>4, <2>5, <2>6, <2>8
<1> QED BY <1>1, <1>2

LEMMA RouteDeleteKeeps ==
  ASSUME RouteInv, Routing!DeleteRow \/ Routing!DeleteFails \/ Routing!RemoveLive
  PROVE  RouteInv'
<1> USE DEF RouteInv
<1>t. /\ rtCall \in RouteCalls /\ route \in Routing!Routes /\ rtCall.op = "delete"
      /\ rtCall.pc \in {"row", "remove"}
  BY DEF Routing!TypeOK, RouteCalls, Routing!DeleteRow, Routing!DeleteFails, Routing!RemoveLive, CallPlans
<1>1. CASE Routing!DeleteRow
  <2>1. /\ rtRows' \subseteq Endpoints /\ rtCall' = [rtCall EXCEPT !.pc = "remove"] /\ rtCall.pc = "row"
        /\ UNCHANGED <<rtLive, route, saved, ready, phase, adding, left, reset>>
    BY <1>1 DEF Routing!DeleteRow, Routing!TypeOK
  <2>2. /\ rtCall' \in RouteCalls /\ rtCall'.pc = "remove" /\ rtCall'.op = "delete"
        /\ rtCall'.target = rtCall.target /\ rtCall'.next = rtCall.next /\ rtCall'.prev = rtCall.prev
    BY <1>t, <2>1 DEF RouteCalls
  <2>3. Routing!TypeOK'
    BY <2>1, <2>2 DEF Routing!TypeOK, RouteCalls
  <2>4. RouteStarts' /\ TargetIsFree'
    BY <2>1, <2>2 DEF RouteStarts, TargetIsFree
  <2>5. CallPlans'
    BY <1>t, <2>1, <2>2 DEF CallPlans, Choice, Routing!Choice
  <2>6. Cleared' <=> Cleared
    BY <1>t, <2>1, <2>2 DEF Cleared
  <2>7. SavedAndPublished'
    BY <1>t, <2>1, <2>2, <2>6 DEF SavedAndPublished, Choice
  <2> QED BY <2>3, <2>4, <2>5, <2>7
<1>2. CASE Routing!DeleteFails
  BY <1>2, <1>t, RestoreKeeps DEF Routing!DeleteFails
<1>3. CASE Routing!RemoveLive
  <2>1. CASE rtCall.target \in rtLive
    <3>1. /\ rtLive' = rtLive \ {rtCall.target} /\ rtCall' = Routing!Free
          /\ left' = IF rtCall.next.rev = 0 THEN left ELSE Choice(route)
          /\ UNCHANGED <<rtRows, route, saved, ready, phase, adding, reset>>
      BY <1>3, <2>1 DEF Routing!RemoveLive, Choice
    <3>2. Routing!TypeOK'
      BY <3>1, FreeTypes DEF Routing!TypeOK, RouteCalls
    <3>3. RouteStarts' /\ CallPlans' /\ TargetIsFree' /\ ~Cleared'
      BY <3>1, RouteRecords DEF RouteStarts, CallPlans, TargetIsFree, Cleared
    <3>4. route.mode # "auto" => route.target \in rtLive'
      BY <1>t, <3>1 DEF SavedAndPublished, TargetIsFree
    <3>5. Cleared <=> rtCall.next.rev # 0
      BY <1>t DEF Cleared
    <3>6. SavedAndPublished'
      BY <1>t, <3>1, <3>3, <3>4, <3>5, RouteRecords DEF SavedAndPublished, Choice, Routing!Choice
    <3> QED BY <3>2, <3>3, <3>6
  <2>2. CASE rtCall.target \notin rtLive
    <3>1. /\ Routing!Restore
          /\ UNCHANGED <<rtRows, rtLive, route, saved, ready, phase, adding, left, reset>>
      BY <1>3, <2>2 DEF Routing!RemoveLive
    <3> QED BY <1>t, <2>2, <3>1, RestoreKeeps
  <2> QED BY <2>1, <2>2
<1> QED BY <1>1, <1>2, <1>3

LEMMA RouteAddKeeps ==
  ASSUME RouteInv, (\E e \in Endpoints : Routing!AddRow(e)) \/ Routing!AddLive
  PROVE  RouteInv'
<1> USE DEF RouteInv
<1>1. /\ rtRows' \subseteq Endpoints /\ rtLive' \subseteq Endpoints /\ rtLive \subseteq rtLive'
      /\ adding' \in Routing!Names
      /\ UNCHANGED <<route, saved, ready, phase, rtCall, left, reset>>
  BY DEF Routing!AddRow, Routing!AddLive, Routing!TypeOK, Routing!Names
<1>2. Routing!TypeOK'
  BY <1>1 DEF Routing!TypeOK
<1>3. RouteStarts' /\ TargetIsFree' /\ (Cleared' <=> Cleared)
  BY <1>1 DEF RouteStarts, TargetIsFree, Cleared
<1>4. CallPlans'
  BY <1>1 DEF CallPlans, Choice, Routing!Choice
<1>5. SavedAndPublished'
  BY <1>1, <1>3 DEF SavedAndPublished, Choice
<1> QED BY <1>2, <1>3, <1>4, <1>5

\* Starts.
LEMMA RouteStartKeeps ==
  ASSUME RouteInv,
         \/ Routing!Restart \/ Routing!SyncEndpoints \/ Routing!RouteUnreadable
         \/ Routing!RestoreRoute \/ Routing!ResetRoute
  PROVE  RouteInv'
<1> USE DEF RouteInv
<1>t. /\ route \in Routing!Routes /\ saved \in Routing!Routes /\ saved.rev \in Nat /\ saved.rev + 1 \in Nat
      /\ Routing!Auto(0) \in Routing!Routes
  BY RouteRecords DEF Routing!TypeOK, Routing!Routes
<1>f. ASSUME rtCall' = Routing!Free
      PROVE  CallPlans' /\ TargetIsFree' /\ ~Cleared' /\ rtCall'.pc = "free" /\ rtCall' \in RouteCalls
  BY <1>f, RouteRecords, FreeTypes DEF CallPlans, TargetIsFree, Cleared
<1>1. CASE Routing!Restart
  <2>1. /\ rtLive' = {} /\ route' = Routing!Auto(0) /\ ready' = TRUE /\ phase' = "sync"
        /\ rtCall' = Routing!Free /\ adding' = Routing!NoName /\ reset' = FALSE
        /\ left' = IF rtCall = Routing!Free THEN left ELSE Choice(saved)
        /\ UNCHANGED <<rtRows, saved>>
    BY <1>1 DEF Routing!Restart, Choice
  <2>2. Routing!TypeOK'
    BY <1>t, <1>f, <2>1 DEF Routing!TypeOK, RouteCalls, Routing!Names
  <2>3. RouteStarts'
    BY <1>f, <2>1, RouteRecords DEF RouteStarts
  <2>4. rtCall = Routing!Free => Choice(saved) = left
    BY RouteRecords DEF SavedAndPublished, Cleared
  <2>5. SavedAndPublished'
    BY <1>f, <2>1, <2>4, RouteRecords DEF SavedAndPublished, Choice
  <2> QED BY <1>f, <2>1, <2>2, <2>3, <2>5
<1>2. ASSUME phase # "running"
      PROVE  /\ rtCall = Routing!Free /\ route = Routing!Auto(0) /\ Choice(saved) = left
             /\ rtCall.pc = "free"
  BY <1>2, RouteRecords DEF RouteStarts, CallPlans, SavedAndPublished, Cleared
<1>3. CASE Routing!SyncEndpoints
  <2>1. /\ rtLive' \subseteq Endpoints /\ phase = "sync" /\ phase' = "route"
        /\ UNCHANGED <<rtRows, route, saved, ready, rtCall, adding, left, reset>>
    BY <1>3 DEF Routing!SyncEndpoints, Routing!TypeOK
  <2>2. Routing!TypeOK' /\ RouteStarts'
    BY <2>1 DEF Routing!TypeOK, RouteStarts
  <2>3. SavedAndPublished'
    BY <1>2, <1>f, <2>1, RouteRecords DEF SavedAndPublished, Choice
  <2> QED BY <1>2, <1>f, <2>1, <2>2, <2>3
<1>4. CASE Routing!RouteUnreadable
  <2>1. /\ phase = "route" /\ phase' = "running" /\ ready' = FALSE
        /\ UNCHANGED <<rtRows, rtLive, route, saved, rtCall, adding, left, reset>>
    BY <1>4 DEF Routing!RouteUnreadable, Routing!Booted
  <2>2. Routing!TypeOK'
    BY <2>1 DEF Routing!TypeOK
  <2>3. RouteStarts'
    BY <1>2, <2>1, RouteRecords DEF RouteStarts
  <2>4. SavedAndPublished'
    BY <1>2, <1>f, <2>1, RouteRecords DEF SavedAndPublished, Choice
  <2> QED BY <1>2, <1>f, <2>1, <2>2, <2>3, <2>4
<1>5. CASE Routing!RestoreRoute
  <2>1. /\ phase = "route" /\ phase' = "running" /\ ready' = TRUE
        /\ route' = Routing!ApplyPersisted(saved)
        /\ saved.mode # "auto" => saved.target \in rtLive
        /\ UNCHANGED <<rtRows, rtLive, saved, rtCall, adding, left, reset>>
    BY <1>5 DEF Routing!RestoreRoute, Routing!Booted, Routing!Opened
  <2>2. route' = saved
    BY <1>2, <1>t, <2>1, RouteRecords DEF Routing!ApplyPersisted
  <2>3. ~reset
    BY <2>1 DEF RouteStarts
  <2>4. Routing!TypeOK' /\ RouteStarts'
    BY <1>2, <2>1, <2>2, <2>3 DEF Routing!TypeOK, RouteStarts
  <2>5. SavedAndPublished'
    BY <1>2, <1>f, <2>1, <2>2, RouteRecords DEF SavedAndPublished, Choice
  <2> QED BY <1>2, <1>f, <2>1, <2>4, <2>5
<1>6. CASE Routing!ResetRoute
  <2> DEFINE next == Routing!Auto(saved.rev + 1)
  <2>1. /\ phase = "route" /\ phase' = "running" /\ ready' = TRUE
        /\ route' = Routing!ApplyPersisted(next)
        /\ \/ saved' = next /\ left' = Choice(next) /\ reset' = reset
           \/ reset' = TRUE /\ UNCHANGED <<saved, left>>
        /\ UNCHANGED <<rtRows, rtLive, rtCall, adding>>
    BY <1>6 DEF Routing!ResetRoute, Routing!Booted, Routing!Opened, Choice
  <2>2. next \in Routing!Routes /\ next.mode = "auto" /\ next.rev = saved.rev + 1
    BY <1>t, RouteRecords
  <2> HIDE DEF next
  <2>3. route' = next
    BY <1>2, <1>t, <2>1, <2>2, RouteRecords DEF Routing!ApplyPersisted
  <2>4. Routing!TypeOK' /\ RouteStarts'
    BY <1>2, <2>1, <2>2, <2>3 DEF Routing!TypeOK, RouteStarts
  <2>5. SavedAndPublished'
    BY <1>2, <1>f, <2>1, <2>2, <2>3, RouteRecords DEF SavedAndPublished, Choice
  <2> QED BY <1>2, <1>f, <2>1, <2>4, <2>5
<1> QED BY <1>1, <1>3, <1>4, <1>5, <1>6

\* The program starts on automatic routing, with nothing saved.
LEMMA RouteInitial == Routing!Init => RouteInv
<1> SUFFICES ASSUME Routing!Init
             PROVE  RouteInv
  OBVIOUS
<1>1. /\ rtRows \subseteq Endpoints /\ rtLive = rtRows /\ route = Routing!Auto(0)
      /\ saved = Routing!Auto(0) /\ ready = TRUE /\ phase = "running" /\ rtCall = Routing!Free
      /\ adding = Routing!NoName /\ left = Choice(Routing!Auto(0)) /\ reset = FALSE
  BY DEF Routing!Init, Choice
<1>2. Routing!TypeOK
  BY <1>1, RouteRecords, FreeTypes DEF Routing!TypeOK, RouteCalls, Routing!Names
<1>3. RouteStarts /\ CallPlans /\ TargetIsFree
  BY <1>1, RouteRecords DEF RouteStarts, CallPlans, TargetIsFree
<1>4. SavedAndPublished
  BY <1>1, RouteRecords DEF SavedAndPublished, Choice
<1> QED BY <1>2, <1>3, <1>4 DEF RouteInv

\* Every step leaves the invariant.
LEMMA RouteStep == RouteInv /\ [Routing!Next]_routingVars => RouteInv'
<1> SUFFICES ASSUME RouteInv, [Routing!Next]_routingVars
             PROVE  RouteInv'
  OBVIOUS
<1>1. CASE Routing!Next
  BY <1>1, RouteCallsBegin, RoutePersistKeeps, RoutePublishKeeps, RouteDeleteKeeps, RouteAddKeeps,
     RouteStartKeeps DEF Routing!Next
<1>2. CASE UNCHANGED routingVars
  BY <1>2 DEF routingVars, RouteInv, Routing!TypeOK, RouteStarts, CallPlans, TargetIsFree,
     SavedAndPublished, Cleared, Choice, Routing!Choice
<1> QED BY <1>1, <1>2

\* What the specification with all its parts does to the variables of the route.
LEMMA RouteParts ==
  /\ MCInit => Routing!Init
  /\ [MCNext]_allVars => [Routing!Next]_routingVars
BY DEF MCInit, MCNext, allVars, routingVars, cooldownVars, CooldownStep, RoutingStep, MigrationStep, PrivacyStep, Input

\* Between calls the published and the saved route are what the calls that ended
\* left, and a manual route names an endpoint the manager has, whatever writes
\* fail, deletions stop half way and starts come between, for any endpoints,
\* calls, failures and restarts (SetClaudeRoute, DeleteEndpointRecord,
\* restoreClaudeRouting).
THEOREM RouteStands == MCSpec => []RouteIsKept
<1>1. RouteInv => RouteIsKept
  <2> SUFFICES ASSUME RouteInv
               PROVE  RouteIsKept
    OBVIOUS
  <2>1. Routing!ManualTargetKnown
    BY DEF RouteInv, SavedAndPublished, Routing!ManualTargetKnown
  <2>2. Routing!RouteIsAsLeft
    BY RouteRecords DEF RouteInv, SavedAndPublished, Cleared, Choice, Routing!RouteIsAsLeft,
       Routing!AtRest, Routing!Running
  <2> QED BY <2>1, <2>2 DEF RouteInv, RouteIsKept
<1>2. MCSpec => []RouteInv
  BY RouteParts, RouteInitial, RouteStep, PTL DEF MCSpec
<1> QED BY <1>1, <1>2, PTL

-----------------------------------------------------------------------------
(* The migrations of a start.  Their inductive invariant, in parts.         *)

ZoneNames == Zones \cup {"UTC+8", Migrate!None}
Columns   == [Migrate!Kinds -> [utc : BOOLEAN, by : Seq(ZoneNames)]]
Backups   == [times : Columns, zone : ZoneNames]
Ledgers   == [phase : {Migrate!None, "db_committed", "config_committed", "prepared", "failed",
                       "completed"},
              backup : Nat, zone : ZoneNames]
MigrationTypes ==
  /\ config \in [mode : {"yaml", "sqlite"}, listed : SUBSET Endpoints, zone : Zones]
  /\ mgRows \in [Endpoints -> {0, 1}] /\ flat \in BOOLEAN
  /\ flatLedger \in Ledgers /\ zoneLedger \in Ledgers /\ made \in Ledgers
  /\ times \in Columns /\ backups \in Seq(Backups)

\* The endpoints in the table are those there were.
TableHasAll == origin = {e \in Endpoints : mgRows[e] > 0}

\* What the flattening has done so far: its ledger is behind the table and the file
\* by one step at most.
Flattening ==
  /\ flatLedger.phase \in {Migrate!None, "db_committed", "config_committed", "completed"}
  /\ config.mode = "sqlite" => config.listed = {} /\ TableHasAll
  /\ config.mode = "yaml" => origin = config.listed
  /\ flatLedger.phase # Migrate!None => flat /\ TableHasAll
  /\ flatLedger.phase \in {"config_committed", "completed"} => config.mode = "sqlite"
  /\ pc \in {"backup", "database"} => flatLedger.phase = Migrate!None
  /\ pc \in {"rewrite", "mark"} => flatLedger.phase = "db_committed"
  /\ pc = "mark" => config.mode = "sqlite"
  /\ pc = "validate" => flatLedger.phase = "config_committed"
  /\ pc \in {"zone", "zonebackup", "zoneledger", "convert", "ready"} => ~Migrate!NeedsFlatten

\* A backup with this number holds unconverted values and this zone.
Holds(n, z) ==
  /\ n \in 1 .. Len(backups) /\ backups[n].zone = z
  /\ \A k \in Migrate!Kinds : backups[n].times[k].by = << >>

Unconverted == \A k \in Migrate!Kinds : times[k].by = << >>

\* The conversion: until its ledger says completed nothing has been converted, and
\* the backup it names pins the zone.
Converting ==
  /\ zoneLedger.backup > 0 => Holds(zoneLedger.backup, zoneLedger.zone)
  /\ zoneLedger.phase # "completed" => Unconverted
  /\ zoneLedger.phase = "completed" =>
       /\ zoneLedger.backup > 0 /\ ~Migrate!NeedsUTC
       /\ \A k \in Migrate!Kinds : Len(times[k].by) <= 1
       /\ times["wall"].by # << >> => times["wall"].by[1] = zoneLedger.zone
  /\ pc \in {"zonebackup", "zoneledger", "convert"} => zoneLedger.phase # "completed"
  /\ pc = "zoneledger" => made.backup > 0 /\ Holds(made.backup, made.zone)
  /\ pc = "convert" => zoneLedger.backup > 0 /\ made.zone = zoneLedger.zone
  /\ pc = "ready" => ~Migrate!NeedsUTC

MigrationInv ==
  /\ MigrationTypes /\ Flattening /\ Converting
  /\ status = "ready" <=> pc = "ready"

\* The ledger of a migration that has not begun.
LEMMA UnsetTypes ==
  /\ Migrate!Unset \in Ledgers /\ Migrate!Unset.phase = Migrate!None /\ Migrate!Unset.backup = 0
  /\ Migrate!Unset.zone = Migrate!None
BY DEF Ledgers, Migrate!Unset, ZoneNames

\* A ledger that names another phase, another zone, another backup.
LEMMA LedgerMarked ==
  ASSUME NEW l \in Ledgers,
         NEW p \in {"db_committed", "config_committed", "prepared", "failed", "completed"}
  PROVE  /\ [l EXCEPT !.phase = p] \in Ledgers /\ [l EXCEPT !.phase = p].phase = p
         /\ [l EXCEPT !.phase = p].backup = l.backup /\ [l EXCEPT !.phase = p].zone = l.zone
BY DEF Ledgers

LEMMA LedgerZoned ==
  ASSUME NEW l \in Ledgers, NEW z \in ZoneNames
  PROVE  /\ [l EXCEPT !.zone = z] \in Ledgers /\ [l EXCEPT !.zone = z].zone = z
         /\ [l EXCEPT !.zone = z].backup = l.backup
BY DEF Ledgers

LEMMA LedgerMade ==
  ASSUME NEW n \in Nat, NEW z \in ZoneNames
  PROVE  /\ [Migrate!Unset EXCEPT !.backup = n, !.zone = z] \in Ledgers
         /\ [Migrate!Unset EXCEPT !.backup = n, !.zone = z].backup = n
         /\ [Migrate!Unset EXCEPT !.backup = n, !.zone = z].zone = z
BY DEF Ledgers, Migrate!Unset

\* Each step leaves the types.
LEMMA MigrationTypesKept ==
  ASSUME MigrationTypes, Migrate!Next
  PROVE  MigrationTypes'
<1> USE DEF MigrationTypes
<1>d. ASSUME UNCHANGED <<config, mgRows, flat, flatLedger, zoneLedger, times, backups>>, made' \in Ledgers
      PROVE  MigrationTypes'
  BY <1>d
<1>z. config.zone \in ZoneNames /\ made.zone \in ZoneNames /\ Migrate!None \in ZoneNames
  BY DEF ZoneNames, Ledgers
<1>b. ASSUME NEW z \in ZoneNames, Migrate!MakeBackup(z)
      PROVE  backups' \in Seq(Backups) /\ made' \in Ledgers
  <2>1. Migrate!Snapshot(z) \in Backups
    BY DEF Migrate!Snapshot, Backups
  <2>2. backups' = Append(backups, Migrate!Snapshot(z)) /\ Len(backups) + 1 \in Nat
        /\ made' = [Migrate!Unset EXCEPT !.backup = Len(backups) + 1, !.zone = z]
    BY <1>b DEF Migrate!MakeBackup
  <2>3. backups' \in Seq(Backups)
    BY <2>1, <2>2
  <2> QED BY <2>2, <2>3, LedgerMade
<1>1. CASE Migrate!StepFails \/ Migrate!RunFlatten
  BY <1>1, <1>d DEF Migrate!StepFails, Migrate!RunFlatten, Migrate!Data
<1>2. CASE Migrate!Crash \/ Migrate!Startup
  BY <1>2, <1>d, UnsetTypes DEF Migrate!Crash, Migrate!Startup, Migrate!Data
<1>3. CASE Migrate!ZoneEdited
  BY <1>3 DEF Migrate!ZoneEdited
<1>4. CASE Migrate!CreateBackup
  BY <1>4, <1>b, <1>z DEF Migrate!CreateBackup
<1>5. CASE Migrate!MigrateDatabase
  <2>1. mgRows' \in [Endpoints -> {0, 1}] /\ flat' = TRUE
    BY <1>5 DEF Migrate!MigrateDatabase, Migrate!Rebuilt
  <2>2. flatLedger' \in Ledgers
    BY <1>5, LedgerMarked, <1>z DEF Migrate!MigrateDatabase
  <2> QED BY <1>5, <2>1, <2>2 DEF Migrate!MigrateDatabase
<1>6. CASE Migrate!RewriteConfig
  BY <1>6 DEF Migrate!RewriteConfig
<1>7. CASE Migrate!MarkConfig \/ Migrate!Validate
  <2>1. flatLedger' \in {[flatLedger EXCEPT !.phase = "config_committed"],
                         [flatLedger EXCEPT !.phase = "completed"]}
    BY <1>7 DEF Migrate!MarkConfig, Migrate!Validate, Migrate!Mark
  <2>2. flatLedger' \in Ledgers
    BY <2>1 DEF Ledgers
  <2> QED BY <1>7, <2>2 DEF Migrate!MarkConfig, Migrate!Validate, Migrate!Mark
<1>8. CASE Migrate!RunTimezone
  <2>1. made' \in Ledgers
    <3>1. made' \in {made, zoneLedger, [Migrate!Unset EXCEPT !.zone = config.zone]}
      BY <1>8 DEF Migrate!RunTimezone, Migrate!Pinned
    <3> QED BY <1>z, <3>1, UnsetTypes, LedgerZoned
  <2> QED BY <1>8, <1>d, <2>1 DEF Migrate!RunTimezone, Migrate!Data
<1>9. CASE Migrate!ZoneBackup
  BY <1>9, <1>b, <1>z DEF Migrate!ZoneBackup
<1>10. CASE Migrate!PrepareLedger
  BY <1>10, <1>z, LedgerMarked DEF Migrate!PrepareLedger
<1>11. CASE Migrate!Convert
  <2>1. \A k \in Migrate!Kinds : Migrate!Converted(k, made.zone) \in [utc : BOOLEAN, by : Seq(ZoneNames)]
    <3> SUFFICES ASSUME NEW k \in Migrate!Kinds
                 PROVE  Migrate!Converted(k, made.zone) \in [utc : BOOLEAN, by : Seq(ZoneNames)]
      OBVIOUS
    <3>1. times[k] \in [utc : BOOLEAN, by : Seq(ZoneNames)] /\ times[k].by \in Seq(ZoneNames)
      BY DEF Columns
    <3>2. \A z \in ZoneNames : Append(times[k].by, z) \in Seq(ZoneNames)
      BY <3>1
    <3>3. "UTC+8" \in ZoneNames
      BY DEF ZoneNames
    <3> QED BY <1>z, <3>1, <3>2, <3>3 DEF Migrate!Converted
  <2>2. times' \in Columns
    BY <1>11, <2>1 DEF Migrate!Convert, Columns
  <2>3. zoneLedger' \in Ledgers
    BY <1>11, <1>z, LedgerMarked DEF Migrate!Convert
  <2> QED BY <1>11, <2>2, <2>3 DEF Migrate!Convert
<1>12. CASE Migrate!ConvertFails
  <2>1. zoneLedger' \in {zoneLedger, [zoneLedger EXCEPT !.phase = "failed"]}
    BY <1>12 DEF Migrate!ConvertFails
  <2>2. zoneLedger' \in Ledgers
    BY <2>1 DEF Ledgers
  <2> QED BY <1>12, <2>2 DEF Migrate!ConvertFails
<1>13. ASSUME NEW e \in Endpoints, Migrate!EndpointDeleted(e)
       PROVE  MigrationTypes'
  BY <1>13 DEF Migrate!EndpointDeleted
<1> QED BY <1>1, <1>2, <1>3, <1>4, <1>5, <1>6, <1>7, <1>8, <1>9, <1>10, <1>11, <1>12, <1>13 DEF Migrate!Next

\* The flattening.
LEMMA FlatteningKept ==
  ASSUME MigrationTypes, Flattening, status = "ready" <=> pc = "ready", Migrate!Next
  PROVE  Flattening' /\ (status = "ready" <=> pc = "ready")'
<1> USE DEF Flattening
<1>t. /\ config \in [mode : {"yaml", "sqlite"}, listed : SUBSET Endpoints, zone : Zones]
      /\ mgRows \in [Endpoints -> {0, 1}] /\ flatLedger \in Ledgers /\ made \in Ledgers
  BY DEF MigrationTypes
<1>d. ASSUME UNCHANGED <<config, mgRows, flat, flatLedger, origin>>,
             pc' \in {"zone", "zonebackup", "zoneledger", "convert", "ready"} => ~Migrate!NeedsFlatten,
             pc' \in {"backup", "database"} => flatLedger.phase = Migrate!None,
             pc' \in {"rewrite", "mark"} => flatLedger.phase = "db_committed",
             pc' = "mark" => config.mode = "sqlite",
             pc' = "validate" => flatLedger.phase = "config_committed"
      PROVE  Flattening'
  BY <1>d DEF TableHasAll, Migrate!NeedsFlatten
<1>1. CASE Migrate!StepFails \/ Migrate!Crash \/ Migrate!Startup
  <2>1. /\ UNCHANGED <<config, mgRows, flat, flatLedger, origin>>
        /\ pc' \in {"failed", "down", "flatten"} /\ status' # "ready"
    BY <1>1 DEF Migrate!StepFails, Migrate!Failed, Migrate!Crash, Migrate!Startup, Migrate!Data
  <2> QED BY <1>d, <2>1
<1>2. CASE Migrate!ZoneEdited
  <2>1. /\ config'.mode = config.mode /\ config'.listed = config.listed /\ pc \in {"down", "failed"}
        /\ UNCHANGED <<pc, mgRows, flat, flatLedger, origin, status>>
    BY <1>t, <1>2 DEF Migrate!ZoneEdited
  <2> QED BY <2>1 DEF TableHasAll
<1>3. CASE Migrate!RunFlatten
  <2>1. /\ UNCHANGED <<config, mgRows, flat, flatLedger, origin>> /\ pc = "flatten"
        /\ \/ pc' = "failed" /\ status' = "failed"
           \/ ~Migrate!NeedsFlatten /\ pc' = "zone" /\ status' = status
           \/ /\ flatLedger.phase # "completed"
              /\ pc' = Migrate!Resume(flatLedger.phase) /\ status' = "migrating"
    BY <1>3 DEF Migrate!RunFlatten, Migrate!Failed, Migrate!Data
  <2>2. /\ flatLedger.phase = Migrate!None => Migrate!Resume(flatLedger.phase) = "backup"
        /\ flatLedger.phase = "db_committed" => Migrate!Resume(flatLedger.phase) = "rewrite"
        /\ flatLedger.phase = "config_committed" => Migrate!Resume(flatLedger.phase) = "validate"
    BY DEF Migrate!Resume, Migrate!None
  <2> QED BY <1>d, <2>1, <2>2
<1>4. CASE Migrate!CreateBackup
  <2>1. /\ UNCHANGED <<config, mgRows, flat, flatLedger, origin, status>> /\ pc = "backup" /\ pc' = "database"
    BY <1>4 DEF Migrate!CreateBackup
  <2> QED BY <1>d, <2>1
<1>5. CASE Migrate!MigrateDatabase
  <2>1. /\ mgRows' = Migrate!Rebuilt /\ flat' = TRUE
        /\ flatLedger' = [made EXCEPT !.phase = "db_committed"] /\ pc = "database" /\ pc' = "rewrite"
        /\ UNCHANGED <<config, origin, status>>
    BY <1>5 DEF Migrate!MigrateDatabase
  <2>2. flatLedger'.phase = "db_committed"
    BY <1>t, <2>1, LedgerMarked
  <2>3. TableHasAll'
    <3>1. CASE config.mode = "sqlite"
      BY <2>1, <3>1 DEF Migrate!Rebuilt, TableHasAll
    <3>2. CASE config.mode = "yaml"
      BY <1>t, <2>1, <3>2 DEF Migrate!Rebuilt, TableHasAll
    <3> QED BY <1>t, <3>1, <3>2
  <2> QED BY <2>1, <2>2, <2>3 DEF Migrate!None
<1>6. CASE Migrate!RewriteConfig
  <2>1. /\ config' = [config EXCEPT !.mode = "sqlite", !.listed = {}] /\ pc = "rewrite" /\ pc' = "mark"
        /\ UNCHANGED <<mgRows, flat, flatLedger, origin, status>>
    BY <1>6 DEF Migrate!RewriteConfig
  <2>2. config'.mode = "sqlite" /\ config'.listed = {}
    BY <1>t, <2>1
  <2> QED BY <2>1, <2>2 DEF TableHasAll, Migrate!None
<1>7. CASE Migrate!MarkConfig \/ Migrate!Validate
  <2>1. /\ \/ /\ pc = "mark" /\ pc' = "validate"
              /\ flatLedger' = [flatLedger EXCEPT !.phase = "config_committed"]
           \/ /\ pc = "validate" /\ pc' = "zone"
              /\ flatLedger' = [flatLedger EXCEPT !.phase = "completed"]
        /\ UNCHANGED <<config, mgRows, flat, origin, status>>
    BY <1>7 DEF Migrate!MarkConfig, Migrate!Validate, Migrate!Mark
  <2>2. /\ pc = "mark" => flatLedger'.phase = "config_committed"
        /\ pc = "validate" => flatLedger'.phase = "completed"
    BY <1>t, <2>1 DEF Ledgers
  <2> QED BY <2>1, <2>2 DEF TableHasAll, Migrate!NeedsFlatten, Migrate!None
<1>8. CASE \/ Migrate!RunTimezone \/ Migrate!ZoneBackup \/ Migrate!PrepareLedger
           \/ Migrate!Convert \/ Migrate!ConvertFails
  <2>1. /\ UNCHANGED <<config, mgRows, flat, flatLedger, origin>>
        /\ pc \in {"zone", "zonebackup", "zoneledger", "convert"}
        /\ pc' \in {"ready", "convert", "zonebackup", "zoneledger", "failed"}
        /\ status' = "ready" <=> pc' = "ready"
    BY <1>8 DEF Migrate!RunTimezone, Migrate!ZoneBackup, Migrate!PrepareLedger, Migrate!Convert,
       Migrate!ConvertFails, Migrate!Failed, Migrate!Data
  <2> QED BY <1>d, <2>1
<1>9. ASSUME NEW e \in Endpoints, Migrate!EndpointDeleted(e)
      PROVE  Flattening' /\ (status = "ready" <=> pc = "ready")'
  <2>1. /\ mgRows' = [mgRows EXCEPT ![e] = 0] /\ origin' = origin \ {e} /\ pc = "ready"
        /\ UNCHANGED <<pc, config, flat, flatLedger, status>>
    BY <1>9 DEF Migrate!EndpointDeleted
  <2>2. config.mode = "sqlite" /\ TableHasAll'
    BY <1>t, <2>1 DEF Migrate!NeedsFlatten, TableHasAll
  <2> QED BY <2>1, <2>2 DEF Migrate!NeedsFlatten
<1> QED BY <1>1, <1>2, <1>3, <1>4, <1>5, <1>6, <1>7, <1>8, <1>9 DEF Migrate!Next

\* A new backup leaves what the others hold.
LEMMA BackupKept ==
  ASSUME MigrationTypes, NEW z \in ZoneNames, Migrate!MakeBackup(z)
  PROVE  /\ \A n, y : Holds(n, y) => Holds(n, y)'
         /\ made'.backup \in Nat /\ made'.backup > 0 /\ made'.zone = z
         /\ Unconverted => /\ made'.backup \in 1 .. Len(backups') /\ backups'[made'.backup].zone = z
                           /\ \A k \in Migrate!Kinds : backups'[made'.backup].times[k].by = << >>
<1> DEFINE b == Migrate!Snapshot(z)
<1>1. /\ backups' = Append(backups, b) /\ backups \in Seq(Backups)
      /\ made' = [Migrate!Unset EXCEPT !.backup = Len(backups) + 1, !.zone = z]
  BY DEF Migrate!MakeBackup, MigrationTypes
<1>2. b \in Backups /\ b.times = times /\ b.zone = z
  BY DEF Migrate!Snapshot, Backups, MigrationTypes
<1> HIDE DEF b
<1>3. /\ Len(backups) \in Nat /\ Len(backups') = Len(backups) + 1
      /\ \A n \in 1 .. Len(backups) : backups'[n] = backups[n]
      /\ backups'[Len(backups) + 1] = b
  BY <1>1, <1>2
<1>4. made'.backup = Len(backups) + 1 /\ made'.zone = z
  <2>1. Len(backups) + 1 \in Nat
    BY <1>3
  <2> QED BY <1>1, <2>1, LedgerMade
<1>5. ASSUME NEW n, NEW y, Holds(n, y)
      PROVE  Holds(n, y)'
  BY <1>3, <1>5 DEF Holds
<1>6. ASSUME Unconverted
      PROVE  /\ made'.backup \in 1 .. Len(backups') /\ backups'[made'.backup].zone = z
             /\ \A k \in Migrate!Kinds : backups'[made'.backup].times[k].by = << >>
  BY <1>2, <1>3, <1>4, <1>6 DEF Unconverted
<1> QED BY <1>3, <1>4, <1>5, <1>6

\* The conversion of unconverted values.
LEMMA ConvertedValues ==
  ASSUME MigrationTypes, Unconverted, made.zone \in ZoneNames,
         times' = [k \in Migrate!Kinds |-> Migrate!Converted(k, made.zone)]
  PROVE  /\ ~Migrate!NeedsUTC'
         /\ \A k \in Migrate!Kinds : Len(times'[k].by) <= 1
         /\ times'["wall"].by # << >> => times'["wall"].by[1] = made.zone
<1>1. \A z \in ZoneNames : Append(<< >>, z) = <<z>> /\ Len(<<z>>) = 1 /\ <<z>>[1] = z
  OBVIOUS
<1>2. \A k \in Migrate!Kinds : times[k] \in [utc : BOOLEAN, by : Seq(ZoneNames)] /\ times[k].by = << >>
  BY DEF MigrationTypes, Columns, Unconverted
<1>3. "UTC+8" \in ZoneNames /\ "wall" \in Migrate!Kinds /\ "wall" # "account" /\ Len(<< >>) = 0
  BY DEF ZoneNames, Migrate!Kinds
<1>4. ASSUME NEW k \in Migrate!Kinds
      PROVE  /\ times'[k].utc /\ Len(times'[k].by) <= 1
             /\ k = "wall" /\ times'[k].by # << >> => times'[k].by[1] = made.zone
  <2>1. times'[k] = Migrate!Converted(k, made.zone)
    OBVIOUS
  <2>2. CASE k = "account"
    BY <1>1, <1>2, <1>3, <2>1, <2>2 DEF Migrate!Converted
  <2>3. CASE k # "account" /\ times[k].utc
    BY <1>2, <1>3, <2>1, <2>3 DEF Migrate!Converted
  <2>4. CASE k # "account" /\ ~times[k].utc
    BY <1>1, <1>2, <2>1, <2>4 DEF Migrate!Converted
  <2> QED BY <2>2, <2>3, <2>4
<1> QED BY <1>3, <1>4 DEF Migrate!NeedsUTC

\* Each step leaves what the conversion has done with its ledger and its backup.
LEMMA ConvertingKept ==
  ASSUME MigrationTypes, Flattening, Converting, Migrate!Next
  PROVE  Converting'
<1> USE DEF Converting
<1>t. /\ zoneLedger \in Ledgers /\ made \in Ledgers /\ made.zone \in ZoneNames
      /\ config.zone \in ZoneNames /\ Migrate!None \in ZoneNames
  BY DEF MigrationTypes, Ledgers, ZoneNames
<1>d. ASSUME UNCHANGED <<zoneLedger, times, backups>>,
             pc' \notin {"zonebackup", "zoneledger", "convert", "ready"}
      PROVE  Converting'
  BY <1>d DEF Holds, Unconverted, Migrate!NeedsUTC
<1>1. CASE Migrate!StepFails \/ Migrate!Crash \/ Migrate!Startup
  BY <1>1, <1>d DEF Migrate!StepFails, Migrate!Failed, Migrate!Crash, Migrate!Startup, Migrate!Data
<1>1a. CASE Migrate!RunFlatten
  <2>1. /\ UNCHANGED <<zoneLedger, times, backups>>
        /\ pc' \in {"failed", "zone"} \/ /\ flatLedger.phase # "completed"
                                         /\ pc' = Migrate!Resume(flatLedger.phase)
    BY <1>1a DEF Migrate!RunFlatten, Migrate!Failed, Migrate!Data
  <2>2. /\ flatLedger.phase = Migrate!None => Migrate!Resume(flatLedger.phase) = "backup"
        /\ flatLedger.phase = "db_committed" => Migrate!Resume(flatLedger.phase) = "rewrite"
        /\ flatLedger.phase = "config_committed" => Migrate!Resume(flatLedger.phase) = "validate"
    BY DEF Migrate!Resume, Migrate!None
  <2> QED BY <1>d, <2>1, <2>2 DEF Flattening
<1>2. CASE Migrate!ZoneEdited
  BY <1>2, <1>d DEF Migrate!ZoneEdited
<1>3. CASE Migrate!CreateBackup
  <2>1. Migrate!MakeBackup(Migrate!None) /\ pc' = "database" /\ UNCHANGED <<zoneLedger, times>>
    BY <1>3 DEF Migrate!CreateBackup
  <2> QED BY <1>t, <2>1, BackupKept DEF Unconverted, Migrate!NeedsUTC
<1>4. CASE Migrate!MigrateDatabase \/ Migrate!RewriteConfig \/ Migrate!MarkConfig \/ Migrate!Validate
  BY <1>4, <1>d DEF Migrate!MigrateDatabase, Migrate!RewriteConfig, Migrate!MarkConfig,
     Migrate!Validate, Migrate!Mark
<1>5. CASE Migrate!RunTimezone
  <2>1. UNCHANGED <<zoneLedger, times, backups>> /\ pc = "zone"
    BY <1>5 DEF Migrate!RunTimezone, Migrate!Data
  <2>2. \/ (zoneLedger.phase = "completed" \/ ~Migrate!NeedsUTC) /\ pc' = "ready"
        \/ zoneLedger.phase # "completed" /\ zoneLedger.backup > 0 /\ pc' = "convert" /\ made' = zoneLedger
        \/ zoneLedger.phase # "completed" /\ pc' = "zonebackup"
    BY <1>5 DEF Migrate!RunTimezone, Migrate!Pinned
  <2> QED BY <2>1, <2>2 DEF Holds, Unconverted, Migrate!NeedsUTC
<1>6. CASE Migrate!ZoneBackup
  <2>1. Migrate!MakeBackup(made.zone) /\ pc = "zonebackup" /\ pc' = "zoneledger" /\ UNCHANGED <<zoneLedger, times>>
    BY <1>6 DEF Migrate!ZoneBackup
  <2>2. made'.backup > 0 /\ Holds(made.backup, made.zone)'
    BY <1>t, <2>1, BackupKept DEF Holds
  <2>3. zoneLedger'.backup > 0 => Holds(zoneLedger.backup, zoneLedger.zone)'
    BY <1>t, <2>1, BackupKept DEF Holds
  <2> QED BY <2>1, <2>2, <2>3 DEF Unconverted, Migrate!NeedsUTC
<1>7. CASE Migrate!PrepareLedger
  <2>1. /\ zoneLedger' = [made EXCEPT !.phase = "prepared"] /\ pc = "zoneledger" /\ pc' = "convert"
        /\ UNCHANGED <<times, backups, made>>
    BY <1>7 DEF Migrate!PrepareLedger
  <2>2. zoneLedger'.phase = "prepared" /\ zoneLedger'.backup = made.backup /\ zoneLedger'.zone = made.zone
    BY <1>t, <2>1 DEF Ledgers
  <2> QED BY <2>1, <2>2 DEF Holds, Unconverted, Migrate!NeedsUTC
<1>8. CASE Migrate!Convert
  <2>1. /\ times' = [k \in Migrate!Kinds |-> Migrate!Converted(k, made.zone)]
        /\ zoneLedger' = [zoneLedger EXCEPT !.phase = "completed"] /\ pc = "convert" /\ pc' = "ready"
        /\ UNCHANGED backups
    BY <1>8 DEF Migrate!Convert
  <2>2. /\ zoneLedger'.phase = "completed" /\ zoneLedger'.backup = zoneLedger.backup
        /\ zoneLedger'.zone = zoneLedger.zone
    BY <1>t, <2>1 DEF Ledgers
  <2>3. /\ ~Migrate!NeedsUTC'
        /\ \A k \in Migrate!Kinds : Len(times'[k].by) <= 1
        /\ times'["wall"].by # << >> => times'["wall"].by[1] = made.zone
    BY <1>t, <2>1, ConvertedValues
  <2> QED BY <2>1, <2>2, <2>3 DEF Holds
<1>9. CASE Migrate!ConvertFails
  <2>1. /\ zoneLedger' \in {zoneLedger, [zoneLedger EXCEPT !.phase = "failed"]}
        /\ pc = "convert" /\ pc' = "failed" /\ UNCHANGED <<times, backups>>
    BY <1>9 DEF Migrate!ConvertFails, Migrate!Failed
  <2>2. /\ zoneLedger'.phase # "completed" /\ zoneLedger'.backup = zoneLedger.backup
        /\ zoneLedger'.zone = zoneLedger.zone
    BY <1>t, <2>1 DEF Ledgers
  <2> QED BY <2>1, <2>2 DEF Holds, Unconverted
<1>10. ASSUME NEW e \in Endpoints, Migrate!EndpointDeleted(e)
       PROVE  Converting'
  BY <1>10 DEF Migrate!EndpointDeleted, Holds, Unconverted, Migrate!NeedsUTC
<1> QED BY <1>1, <1>1a, <1>2, <1>3, <1>4, <1>5, <1>6, <1>7, <1>8, <1>9, <1>10 DEF Migrate!Next

\* An old installation of either kind, or a fresh one.
LEMMA MigrationInitial == Migrate!Init => MigrationInv
<1> SUFFICES ASSUME Migrate!Init
             PROVE  MigrationInv
  OBVIOUS
<1>1. /\ pc = "down" /\ status = "initializing" /\ made = Migrate!Unset
      /\ flatLedger = Migrate!Unset /\ zoneLedger = Migrate!Unset /\ backups = << >>
      /\ origin = {e \in Endpoints : e \in config.listed \/ mgRows[e] > 0}
      /\ Migrate!FromYaml \/ Migrate!FromSqlite \/ Migrate!Fresh
  BY DEF Migrate!Init
<1>2. \A k \in Migrate!Kinds : times[k].by = << >>
  BY <1>1 DEF Migrate!FromYaml, Migrate!FromSqlite, Migrate!Fresh, Migrate!Legacy, Migrate!Canonical
<1>3. times \in Columns
  <2>1. << >> \in Seq(ZoneNames)
    OBVIOUS
  <2>2. PICK u \in BOOLEAN : times = [k \in Migrate!Kinds |-> [utc |-> u, by |-> << >>]]
    BY <1>1 DEF Migrate!FromYaml, Migrate!FromSqlite, Migrate!Fresh, Migrate!Legacy, Migrate!Canonical
  <2> DEFINE column == [utc |-> u, by |-> << >>]
  <2>3. column \in [utc : BOOLEAN, by : Seq(ZoneNames)]
    BY <2>1
  <2>4. times = [k \in Migrate!Kinds |-> column]
    BY <2>2
  <2> HIDE DEF column
  <2> QED BY <2>3, <2>4 DEF Columns
<1>4. config \in [mode : {"yaml", "sqlite"}, listed : SUBSET Endpoints, zone : Zones]
  BY <1>1 DEF Migrate!FromYaml, Migrate!FromSqlite, Migrate!Fresh
<1>5. mgRows \in [Endpoints -> {0, 1}] /\ flat \in BOOLEAN
  BY <1>1 DEF Migrate!FromYaml, Migrate!FromSqlite, Migrate!Fresh
<1>6. /\ config.mode = "sqlite" => config.listed = {}
      /\ config.mode = "yaml" => config.listed = Endpoints /\ \A e \in Endpoints : mgRows[e] = 0
  BY <1>1 DEF Migrate!FromYaml, Migrate!FromSqlite, Migrate!Fresh
<1>7. MigrationTypes
  BY <1>1, <1>3, <1>4, <1>5, UnsetTypes DEF MigrationTypes
<1>8. Flattening
  <2>1. config.mode = "sqlite" => TableHasAll
    BY <1>1, <1>6 DEF TableHasAll
  <2>2. config.mode = "yaml" => origin = config.listed
    BY <1>1, <1>4, <1>6
  <2>3. flatLedger.phase = Migrate!None
    BY <1>1, UnsetTypes
  <2> QED BY <1>1, <1>6, <2>1, <2>2, <2>3 DEF Flattening, Migrate!None
<1>9. Converting
  BY <1>1, <1>2, UnsetTypes DEF Converting, Unconverted, Migrate!None
<1> QED BY <1>1, <1>7, <1>8, <1>9 DEF MigrationInv

\* Every step leaves the invariant.
LEMMA MigrationStepKeeps == MigrationInv /\ [Migrate!Next]_migrationVars => MigrationInv'
<1> SUFFICES ASSUME MigrationInv, [Migrate!Next]_migrationVars
             PROVE  MigrationInv'
  OBVIOUS
<1>1. CASE Migrate!Next
  <2>1. MigrationTypes' /\ Flattening' /\ Converting' /\ (status = "ready" <=> pc = "ready")'
    BY <1>1, MigrationTypesKept, FlatteningKept, ConvertingKept DEF MigrationInv
  <2> QED BY <2>1 DEF MigrationInv
<1>2. CASE UNCHANGED migrationVars
  BY <1>2 DEF migrationVars, MigrationInv, MigrationTypes, Flattening, TableHasAll, Converting, Holds,
     Unconverted, Migrate!NeedsFlatten, Migrate!NeedsUTC
<1> QED BY <1>1, <1>2

\* What the specification with all its parts does to the variables of the migration.
LEMMA MigrationParts ==
  /\ MCInit => Migrate!Init
  /\ [MCNext]_allVars => [Migrate!Next]_migrationVars
BY DEF MCInit, MCNext, allVars, migrationVars, cooldownVars, CooldownStep, RoutingStep, MigrationStep, PrivacyStep, Input

\* However many crashes, failed steps and edits of the configured zone come between
\* the attempts, for any endpoints and zones: no time is converted twice or in a zone
\* other than the one pinned with its backup, and no endpoint is lost, duplicated or
\* brought back (runEndpointFlatten, runTimezoneUTCMigration).
THEOREM MigrationStands == MCSpec => []MigrationIsSafe
<1>1. MigrationInv => Migrate!ConvertedOnce
  <2> SUFFICES ASSUME MigrationInv
               PROVE  Migrate!ConvertedOnce
    OBVIOUS
  <2>1. MigrationTypes /\ Converting /\ Len(<< >>) = 0
    BY DEF MigrationInv
  <2>2. DOMAIN backups = 1 .. Len(backups) /\ zoneLedger.backup \in Nat
    BY <2>1 DEF MigrationTypes, Ledgers
  <2>3. \A k \in Migrate!Kinds : Len(times[k].by) <= 1
    BY <2>1 DEF Converting, Unconverted
  <2>4. ASSUME \E k \in Migrate!Kinds : times[k].by # << >>
        PROVE  /\ Holds(zoneLedger.backup, zoneLedger.zone)
               /\ times["wall"].by # << >> => times["wall"].by[1] = zoneLedger.zone
    BY <2>1, <2>4 DEF Converting, Unconverted
  <2> QED BY <2>2, <2>3, <2>4 DEF Migrate!ConvertedOnce, Holds
<1>2. MigrationInv => Migrate!EndpointsSurvive
  BY DEF MigrationInv, MigrationTypes, Flattening, TableHasAll, Converting, Migrate!EndpointsSurvive,
     Migrate!NeedsFlatten
<1>3. MCSpec => []MigrationInv
  BY MigrationParts, MigrationInitial, MigrationStepKeeps, PTL DEF MCSpec
<1>4. MigrationInv => MigrationIsSafe
  BY <1>1, <1>2 DEF MigrationIsSafe
<1> QED BY <1>3, <1>4, PTL

-----------------------------------------------------------------------------
(* The privacy rules.  Their inductive invariant, in parts.                 *)

\* The attempt under way began with a version that is not newer than the one in
\* force, and the rules in force now are among those it may be given; the key it
\* scans for is the one of its upstream as long as the rules have not changed.
AttemptKnows ==
  attempt.pc # "idle" =>
    /\ attempt = [pc |-> attempt.pc, upstream |-> attempt.upstream, body |-> attempt.body,
                  version |-> attempt.version, key |-> attempt.key, right |-> attempt.right]
    /\ attempt.pc \in {"key", "scan"} /\ attempt.upstream \in Upstreams
    /\ attempt.version \in Nat /\ attempt.version <= snapshot.version
    /\ Privacy!AppliedBy(snapshot, attempt.upstream) \in attempt.right
    /\ attempt.pc = "scan" =>
         /\ attempt.key[1] = attempt.version /\ attempt.key[3] = attempt.body
         /\ attempt.version = snapshot.version =>
              attempt.key = Privacy!Key(attempt.version, snapshot, attempt.upstream, attempt.body)

\* A result is of its own body; one that was looked up under the version in force
\* is what the rules in force do for every upstream its key stands for; and those
\* of the version the attempt began with are right for the attempt.
KeptFits ==
  \A k \in DOMAIN kept :
    /\ kept[k].body = k[3] /\ k[1] \in Nat /\ k[1] <= snapshot.version
    /\ k[1] = snapshot.version =>
         \A u \in Upstreams : k[2] = {} \/ k[2] = {u} => kept[k].applied = Privacy!AppliedBy(snapshot, u)
    /\ attempt.pc = "key" /\ k[1] = attempt.version /\ (k[2] = {} \/ k[2] = {attempt.upstream}) =>
         kept[k].applied \in attempt.right

PrivacyInv ==
  /\ RulesAreApplied
  /\ snapshot.version \in Nat
  /\ attempt.pc = "idle" => attempt = Privacy!NoAttempt
  /\ AttemptKnows /\ KeptFits

RowsFine(rs) == DOMAIN rs \subseteq Privacy!AllRules /\ \A r \in DOMAIN rs : rs[r] \in Privacy!RuleRows

\* A step of the service that publishes nothing leaves the request alone.
LEMMA RequestKept ==
  ASSUME PrivacyInv, UNCHANGED <<snapshot, attempt, kept, sent>>,
         Privacy!TypeOK', Privacy!SavedIsInForce'
  PROVE  PrivacyInv'
<1>1. AttemptKnows'
  BY DEF PrivacyInv, AttemptKnows
<1>2. KeptFits'
  BY DEF PrivacyInv, KeptFits
<1>3. Privacy!FilteredForUpstream'
  BY DEF PrivacyInv, RulesAreApplied, Privacy!FilteredForUpstream
<1> QED BY <1>1, <1>2, <1>3 DEF PrivacyInv, RulesAreApplied

\* The rows that a change or a start may write are rows.
LEMMA RowShapes ==
  /\ Privacy!BuiltinRow \in Privacy!RuleRows
  /\ Privacy!FromUser \subseteq Privacy!RuleRows
  /\ \A old \in Privacy!RuleRows, scope \in {{}} \cup {{u} : u \in Upstreams}, b \in BOOLEAN :
       /\ [old EXCEPT !.ok = b] \in Privacy!RuleRows
       /\ [on |-> old.on, ok |-> TRUE, scope |-> scope] \in Privacy!RuleRows
BY DEF Privacy!BuiltinRow, Privacy!FromUser, Privacy!RuleRows

\* A change that is being made, or whose write failed.
LEMMA ChangeKeeps ==
  ASSUME PrivacyInv, NEW m, NEW rs, NEW c \in {"written", "importing"},
         RowsFine(rs), Privacy!Change(m, rs, c)
  PROVE  PrivacyInv'
<1>1. /\ UNCHANGED <<snapshot, installed, attempt, kept, sent>>
      /\ \/ rules' = rs /\ change' = c /\ told' = told
         \/ rules' = rules /\ change' = change /\ told' = "error"
  BY DEF Privacy!Change, Privacy!RequestAlone
<1>2. Privacy!TypeOK'
  BY <1>1 DEF PrivacyInv, RulesAreApplied, Privacy!TypeOK, RowsFine
<1>3. Privacy!SavedIsInForce'
  BY <1>1 DEF Privacy!SavedIsInForce
<1> QED BY <1>1, <1>2, <1>3, RequestKept

\* Every kind of change.
LEMMA ChangesKeep ==
  ASSUME PrivacyInv,
         Privacy!SetMode \/ Privacy!SaveAnyRule \/ Privacy!DeleteRule \/ Privacy!ImportPreset
  PROVE  PrivacyInv'
<1>1. RowsFine(rules)
  BY DEF PrivacyInv, RulesAreApplied, Privacy!TypeOK, RowsFine
<1>2. CASE Privacy!SetMode
  BY <1>1, <1>2, ChangeKeeps DEF Privacy!SetMode
<1>3. CASE Privacy!SaveAnyRule
  <2>1. PICK r \in Privacy!AllRules, new \in Privacy!FromUser : Privacy!SaveRule(r, new)
    BY <1>3 DEF Privacy!SaveAnyRule
  <2> DEFINE rs == [x \in DOMAIN rules \cup {r} |-> IF x = r THEN new ELSE rules[x]]
  <2>2. RowsFine(rs)
    BY <1>1, RowShapes DEF RowsFine
  <2>3. Privacy!Change(mode, rs, "written")
    BY <2>1 DEF Privacy!SaveRule
  <2> QED BY <2>2, <2>3, ChangeKeeps
<1>4. CASE Privacy!DeleteRule
  <2>1. PICK r \in DOMAIN rules : Privacy!Change(mode, [x \in DOMAIN rules \ {r} |-> rules[x]], "written")
    BY <1>4 DEF Privacy!DeleteRule
  <2>2. RowsFine([x \in DOMAIN rules \ {r} |-> rules[x]])
    BY <1>1 DEF RowsFine
  <2> QED BY <2>1, <2>2, ChangeKeeps
<1>5. CASE Privacy!ImportPreset /\ Preset \in DOMAIN rules
  <2>1. PICK scope \in {{}} \cup {{u} : u \in Upstreams} :
          Privacy!Change(mode, [rules EXCEPT ![Preset].scope = scope, ![Preset].ok = TRUE], "importing")
    BY <1>5 DEF Privacy!ImportPreset
  <2> DEFINE rs == [rules EXCEPT ![Preset].scope = scope, ![Preset].ok = TRUE]
  <2>2. rules[Preset] \in Privacy!RuleRows
    BY <1>1, <1>5 DEF RowsFine
  <2>3. rules[Preset] = [on |-> rules[Preset].on, ok |-> rules[Preset].ok, scope |-> rules[Preset].scope]
    BY <2>2 DEF Privacy!RuleRows
  <2>4. /\ DOMAIN rs = DOMAIN rules /\ \A x \in DOMAIN rules \ {Preset} : rs[x] = rules[x]
        /\ rs[Preset] = [[rules[Preset] EXCEPT !.scope = scope] EXCEPT !.ok = TRUE]
    BY <1>5
  <2>5. Privacy!Change(mode, rs, "importing")
    BY <2>1
  <2> HIDE DEF rs
  <2> DEFINE old == rules[Preset]
  <2>6. /\ old = [on |-> old.on, ok |-> old.ok, scope |-> old.scope] /\ old \in Privacy!RuleRows
        /\ rs[Preset] = [[old EXCEPT !.scope = scope] EXCEPT !.ok = TRUE]
    BY <2>2, <2>3, <2>4
  <2> HIDE DEF old
  <2>7. rs[Preset] = [on |-> old.on, ok |-> TRUE, scope |-> scope]
    BY <2>6
  <2>8. rs[Preset] \in Privacy!RuleRows
    BY <2>6, <2>7, RowShapes
  <2>9. RowsFine(rs)
    BY <1>1, <1>5, <2>4, <2>8 DEF RowsFine
  <2> QED BY <2>5, <2>9, ChangeKeeps
<1>6. CASE Privacy!ImportPreset /\ Preset \notin DOMAIN rules
  <2> DEFINE rs == [x \in DOMAIN rules \cup {Preset} |->
                      IF x = Preset THEN Privacy!BuiltinRow ELSE rules[x]]
  <2>1. Privacy!Change(mode, rs, "written")
    BY <1>6 DEF Privacy!ImportPreset
  <2>2. RowsFine(rs)
    BY <1>1, RowShapes, PartsAssumption DEF RowsFine, Privacy!AllRules
  <2> QED BY <2>1, <2>2, ChangeKeeps
<1> QED BY <1>2, <1>3, <1>4, <1>5, <1>6

\* The second half of an import, and a snapshot that cannot be built.
LEMMA FailuresKeep ==
  ASSUME PrivacyInv, Privacy!ImportRest \/ Privacy!RebuildFails
  PROVE  PrivacyInv'
<1>1. /\ UNCHANGED <<rules, snapshot, installed, attempt, kept, sent>>
      /\ \/ change' = "written" /\ told' = told
         \/ change' = "none" /\ told' = "error"
  BY DEF Privacy!ImportRest, Privacy!RebuildFails, Privacy!RequestAlone
<1>2. Privacy!TypeOK'
  BY <1>1 DEF PrivacyInv, RulesAreApplied, Privacy!TypeOK
<1>3. Privacy!SavedIsInForce'
  BY <1>1 DEF Privacy!SavedIsInForce
<1> QED BY <1>1, <1>2, <1>3, RequestKept

\* A new snapshot is newer than every result that is kept.
LEMMA RebuildKeeps ==
  ASSUME PrivacyInv, Privacy!Rebuild
  PROVE  PrivacyInv'
<1>1. /\ rules' = Privacy!WithBuiltin(rules) /\ mode' = mode
      /\ snapshot' = [version |-> snapshot.version + 1, mode |-> mode,
                      rules |-> Privacy!Compiled(rules')]
      /\ change' = "none" /\ told' = "ok" /\ installed' = TRUE
      /\ attempt' = IF attempt.pc = "idle" THEN attempt
                    ELSE [attempt EXCEPT !.right = @ \cup {Privacy!AppliedBy(snapshot', attempt.upstream)}]
      /\ UNCHANGED <<kept, sent>>
  BY DEF Privacy!Rebuild, Privacy!Published
<1>2. /\ snapshot.version \in Nat /\ snapshot'.version = snapshot.version + 1
      /\ snapshot'.mode = mode' /\ snapshot'.rules = Privacy!Compiled(rules')
  BY <1>1 DEF PrivacyInv
<1>3. Privacy!TypeOK'
  <2>1. DOMAIN rules' \subseteq Privacy!AllRules /\ \A r \in DOMAIN rules' : rules'[r] \in Privacy!RuleRows
    BY <1>1, RowShapes DEF PrivacyInv, RulesAreApplied, Privacy!TypeOK, Privacy!WithBuiltin, Privacy!AllRules
  <2> QED BY <1>1, <1>2, <2>1 DEF Privacy!TypeOK
<1>4. Privacy!SavedIsInForce'
  BY <1>2 DEF Privacy!SavedIsInForce
<1>5. Privacy!FilteredForUpstream'
  BY <1>1 DEF PrivacyInv, RulesAreApplied, Privacy!FilteredForUpstream
<1>6. CASE attempt.pc = "idle"
  <2>1. attempt' = attempt
    BY <1>1, <1>6
  <2>2. AttemptKnows' /\ KeptFits'
    BY <1>1, <1>2, <1>6, <2>1 DEF PrivacyInv, AttemptKnows, KeptFits
  <2> QED BY <1>2, <1>3, <1>4, <1>5, <2>1, <2>2 DEF PrivacyInv, RulesAreApplied
<1>7. CASE attempt.pc # "idle"
  <2> DEFINE new == attempt.right \cup {Privacy!AppliedBy(snapshot', attempt.upstream)}
  <2>1. attempt = [pc |-> attempt.pc, upstream |-> attempt.upstream, body |-> attempt.body,
                   version |-> attempt.version, key |-> attempt.key, right |-> attempt.right]
    BY <1>7 DEF PrivacyInv, AttemptKnows
  <2>2. attempt' = [attempt EXCEPT !.right = new]
    BY <1>1, <1>7
  <2> HIDE DEF new
  <2>3. attempt' = [pc |-> attempt.pc, upstream |-> attempt.upstream, body |-> attempt.body,
                    version |-> attempt.version, key |-> attempt.key, right |-> new]
    BY <2>1, <2>2
  <2>4. /\ attempt'.pc = attempt.pc /\ attempt'.upstream = attempt.upstream /\ attempt'.body = attempt.body
        /\ attempt'.version = attempt.version /\ attempt'.key = attempt.key /\ attempt'.right = new
    BY <2>3
  <2>5. attempt.right \subseteq new /\ Privacy!AppliedBy(snapshot', attempt.upstream) \in new
    BY DEF new
  <2>6. AttemptKnows'
    BY <1>2, <1>7, <2>3, <2>4, <2>5 DEF PrivacyInv, AttemptKnows
  <2>7. KeptFits'
    BY <1>1, <1>2, <2>4, <2>5 DEF PrivacyInv, KeptFits
  <2> QED BY <1>2, <1>3, <1>4, <1>5, <1>7, <2>4, <2>6, <2>7 DEF PrivacyInv, RulesAreApplied
<1> QED BY <1>6, <1>7

\* A restart forgets what requests kept.
LEMMA RestartKeeps ==
  ASSUME PrivacyInv, Privacy!Restart
  PROVE  PrivacyInv'
<1>1. PICK r \in DOMAIN rules, good \in BOOLEAN : rules' = [rules EXCEPT ![r].ok = good]
  BY DEF Privacy!Restart
<1>2. /\ snapshot' = Privacy!Silent /\ installed' = FALSE /\ change' = "starting" /\ told' = told
      /\ attempt' = Privacy!NoAttempt /\ kept' = << >> /\ sent' = << >>
  BY DEF Privacy!Restart
<1>3. snapshot'.version = 0 /\ DOMAIN kept' = {} /\ attempt'.pc = "idle"
  BY <1>2 DEF Privacy!Silent, Privacy!NoAttempt
<1>4. Privacy!TypeOK'
  <2>1. DOMAIN rules' = DOMAIN rules /\ \A x \in DOMAIN rules \ {r} : rules'[x] = rules[x]
    BY <1>1
  <2>2. rules[r] \in Privacy!RuleRows /\ rules'[r] = [rules[r] EXCEPT !.ok = good]
    BY <1>1 DEF PrivacyInv, RulesAreApplied, Privacy!TypeOK
  <2>3. rules'[r] \in Privacy!RuleRows
    BY <2>2, RowShapes
  <2> QED BY <1>2, <2>1, <2>3 DEF PrivacyInv, RulesAreApplied, Privacy!TypeOK
<1>5. Privacy!SavedIsInForce' /\ Privacy!FilteredForUpstream'
  BY <1>2 DEF Privacy!SavedIsInForce, Privacy!FilteredForUpstream
<1>6. AttemptKnows' /\ KeptFits'
  BY <1>3 DEF AttemptKnows, KeptFits
<1> QED BY <1>2, <1>3, <1>4, <1>5, <1>6 DEF PrivacyInv, RulesAreApplied

\* A step of the request leaves the service alone.
LEMMA ServiceKept ==
  ASSUME PrivacyInv, Privacy!ServiceAlone, Privacy!FilteredForUpstream', AttemptKnows', KeptFits',
         (attempt.pc = "idle" => attempt = Privacy!NoAttempt)'
  PROVE  PrivacyInv'
BY DEF PrivacyInv, RulesAreApplied, Privacy!ServiceAlone, Privacy!TypeOK, Privacy!SavedIsInForce

\* An attempt begins with the version in force.
LEMMA BeginKeeps ==
  ASSUME PrivacyInv, NEW u \in Upstreams, NEW b, Privacy!BeginAttempt(u, b)
  PROVE  PrivacyInv'
<1> DEFINE new == [pc |-> "key", upstream |-> u, body |-> b, version |-> snapshot.version,
                   key |-> << >>, right |-> {Privacy!AppliedBy(snapshot, u)}]
<1>1. attempt' = new /\ Privacy!ServiceAlone /\ snapshot' = snapshot /\ kept' = kept /\ sent' = << >>
  BY DEF Privacy!BeginAttempt, Privacy!Request, Privacy!ServiceAlone
<1>2. /\ new = [pc |-> new.pc, upstream |-> new.upstream, body |-> new.body,
                version |-> new.version, key |-> new.key, right |-> new.right]
      /\ new.pc = "key" /\ new.upstream = u /\ new.version = snapshot.version
      /\ new.right = {Privacy!AppliedBy(snapshot, u)}
  OBVIOUS
<1> HIDE DEF new
<1>3. snapshot.version \in Nat
  BY DEF PrivacyInv
<1>4. AttemptKnows'
  BY <1>1, <1>2, <1>3 DEF AttemptKnows
<1>5. KeptFits'
  BY <1>1, <1>2 DEF PrivacyInv, KeptFits
<1>6. Privacy!FilteredForUpstream' /\ attempt'.pc # "idle"
  BY <1>1, <1>2 DEF Privacy!FilteredForUpstream
<1> QED BY <1>1, <1>4, <1>5, <1>6, ServiceKept

\* An attempt that ends leaves what is kept right for the next one.
LEMMA EndKeeps ==
  ASSUME PrivacyInv, Privacy!Request(Privacy!NoAttempt), KeptFits', Privacy!FilteredForUpstream'
  PROVE  PrivacyInv'
<1>1. attempt' = Privacy!NoAttempt /\ attempt'.pc = "idle" /\ Privacy!ServiceAlone
  BY DEF Privacy!Request, Privacy!NoAttempt
<1>2. AttemptKnows'
  BY <1>1 DEF AttemptKnows
<1> QED BY <1>1, <1>2, ServiceKept

\* What the key of an attempt says.
LEMMA KeyParts ==
  ASSUME NEW v, NEW s, NEW u, NEW b
  PROVE  /\ Privacy!Key(v, s, u, b)[1] = v /\ Privacy!Key(v, s, u, b)[3] = b
         /\ Privacy!Key(v, s, u, b)[2] \in {{}, {u}}
         /\ Privacy!Key(v, s, u, b)[2] = {} => ~Privacy!Scoped(s)
BY DEF Privacy!Key

\* A result that is found is the attempt's own.
LEMMA LookUpKeeps ==
  ASSUME PrivacyInv, Privacy!LookUp
  PROVE  PrivacyInv'
<1> DEFINE key == Privacy!Key(attempt.version, snapshot, attempt.upstream, attempt.body)
<1>1. /\ attempt.pc = "key" /\ kept' = kept
      /\ \/ /\ key \in DOMAIN kept
            /\ Privacy!Send(kept[key].body, kept[key].applied) /\ Privacy!Request(Privacy!NoAttempt)
         \/ /\ Privacy!Request([attempt EXCEPT !.pc = "scan", !.key = key]) /\ sent' = sent
  BY DEF Privacy!LookUp
<1>2. key[1] = attempt.version /\ key[3] = attempt.body /\ key[2] \in {{}, {attempt.upstream}}
  BY KeyParts
<1>3. snapshot' = snapshot /\ Privacy!ServiceAlone
  BY <1>1 DEF Privacy!Request, Privacy!ServiceAlone
<1>a. key = Privacy!Key(attempt.version, snapshot, attempt.upstream, attempt.body)
  OBVIOUS
<1> HIDE DEF key
<1>4. CASE /\ key \in DOMAIN kept
           /\ Privacy!Send(kept[key].body, kept[key].applied) /\ Privacy!Request(Privacy!NoAttempt)
  <2>1. kept[key].body = attempt.body /\ kept[key].applied \in attempt.right
    BY <1>1, <1>2, <1>4 DEF PrivacyInv, KeptFits
  <2>2. Privacy!FilteredForUpstream'
    BY <1>4, <2>1 DEF Privacy!Send, Privacy!FilteredForUpstream
  <2>3. attempt'.pc = "idle"
    BY <1>4 DEF Privacy!Request, Privacy!NoAttempt
  <2>4. KeptFits'
    BY <1>1, <1>3, <2>3 DEF PrivacyInv, KeptFits
  <2> QED BY <1>4, <2>2, <2>4, EndKeeps
<1>5. CASE Privacy!Request([attempt EXCEPT !.pc = "scan", !.key = key]) /\ sent' = sent
  <2>1. /\ attempt = [pc |-> attempt.pc, upstream |-> attempt.upstream, body |-> attempt.body,
                      version |-> attempt.version, key |-> attempt.key, right |-> attempt.right]
        /\ attempt' = [[attempt EXCEPT !.pc = "scan"] EXCEPT !.key = key]
    BY <1>1, <1>5 DEF PrivacyInv, AttemptKnows, Privacy!Request
  <2>2. attempt' = [pc |-> "scan", upstream |-> attempt.upstream, body |-> attempt.body,
                    version |-> attempt.version, key |-> key, right |-> attempt.right]
    BY <2>1
  <2>3. /\ attempt'.pc = "scan" /\ attempt'.upstream = attempt.upstream /\ attempt'.body = attempt.body
        /\ attempt'.version = attempt.version /\ attempt'.key = key /\ attempt'.right = attempt.right
    BY <2>2
  <2>4. AttemptKnows'
    BY <1>1, <1>2, <1>3, <1>a, <2>2, <2>3 DEF PrivacyInv, AttemptKnows
  <2>5. KeptFits'
    BY <1>1, <1>3, <2>3 DEF PrivacyInv, KeptFits
  <2>6. Privacy!FilteredForUpstream'
    BY <1>5 DEF PrivacyInv, RulesAreApplied, Privacy!FilteredForUpstream
  <2> QED BY <1>3, <2>3, <2>4, <2>5, <2>6, ServiceKept
<1> QED BY <1>1, <1>4, <1>5

\* Rules without a scope are the same for every upstream.
LEMMA UnscopedForAll ==
  ASSUME NEW s, NEW u, NEW y, ~Privacy!Scoped(s)
  PROVE  Privacy!AppliedBy(s, u) = Privacy!AppliedBy(s, y)
BY DEF Privacy!Scoped, Privacy!AppliedBy, Privacy!InScope

\* What a scan keeps is what the rules in force do for whatever its key stands for.
LEMMA ScanKeeps ==
  ASSUME PrivacyInv, Privacy!Scan
  PROVE  PrivacyInv'
<1> DEFINE found == [body |-> attempt.body, applied |-> Privacy!AppliedBy(snapshot, attempt.upstream)]
<1>1. /\ attempt.pc = "scan"
      /\ kept' = [k \in DOMAIN kept \cup {attempt.key} |-> IF k = attempt.key THEN found ELSE kept[k]]
      /\ Privacy!Send(attempt.body, Privacy!AppliedBy(snapshot, attempt.upstream))
      /\ Privacy!Request(Privacy!NoAttempt)
  BY DEF Privacy!Scan
<1>2. found.body = attempt.body /\ found.applied = Privacy!AppliedBy(snapshot, attempt.upstream)
  OBVIOUS
<1> HIDE DEF found
<1>3. /\ DOMAIN kept' = DOMAIN kept \cup {attempt.key} /\ kept'[attempt.key] = found
      /\ \A k \in DOMAIN kept \ {attempt.key} : kept'[k] = kept[k]
      /\ snapshot' = snapshot /\ attempt'.pc = "idle"
  BY <1>1 DEF Privacy!Request, Privacy!ServiceAlone, Privacy!NoAttempt
<1>4. /\ found.applied \in attempt.right /\ attempt.upstream \in Upstreams
      /\ attempt.key[1] = attempt.version /\ attempt.key[3] = attempt.body
      /\ attempt.version \in Nat /\ attempt.version <= snapshot.version
      /\ attempt.version = snapshot.version =>
           attempt.key = Privacy!Key(attempt.version, snapshot, attempt.upstream, attempt.body)
  BY <1>1, <1>2 DEF PrivacyInv, AttemptKnows
<1>5. Privacy!FilteredForUpstream'
  BY <1>1, <1>2, <1>4 DEF Privacy!Send, Privacy!FilteredForUpstream
<1>6. ASSUME attempt.key[1] = snapshot.version, NEW u \in Upstreams,
             attempt.key[2] = {} \/ attempt.key[2] = {u}
      PROVE  found.applied = Privacy!AppliedBy(snapshot, u)
  <2>1. /\ attempt.key[2] \in {{}, {attempt.upstream}}
        /\ attempt.key[2] = {} => ~Privacy!Scoped(snapshot)
    BY <1>4, <1>6, KeyParts
  <2>2. CASE attempt.key[2] = {}
    BY <1>2, <2>1, <2>2, UnscopedForAll
  <2>3. CASE attempt.key[2] = {u}
    <3>1. u = attempt.upstream
      BY <2>1, <2>3
    <3> QED BY <1>2, <3>1
  <2> QED BY <1>6, <2>2, <2>3
<1>7. KeptFits'
  BY <1>2, <1>3, <1>4, <1>6 DEF PrivacyInv, KeptFits
<1> QED BY <1>1, <1>5, <1>7, EndKeeps

\* The next request starts with nothing kept.
LEMMA NextRequestKeeps ==
  ASSUME PrivacyInv, Privacy!NextRequest
  PROVE  PrivacyInv'
<1>1. kept' = << >> /\ sent' = << >> /\ Privacy!Request(Privacy!NoAttempt) /\ DOMAIN << >> = {}
  BY DEF Privacy!NextRequest
<1>2. KeptFits' /\ Privacy!FilteredForUpstream'
  BY <1>1 DEF KeptFits, Privacy!FilteredForUpstream
<1> QED BY <1>1, <1>2, EndKeeps

\* The service before its first snapshot.
LEMMA PrivacyInitial == Privacy!Init => PrivacyInv
<1> SUFFICES ASSUME Privacy!Init
             PROVE  PrivacyInv
  OBVIOUS
<1>1. /\ rules = [r \in {Builtin} |-> Privacy!BuiltinRow] /\ snapshot.version = 0 /\ installed = FALSE
      /\ change = "starting" /\ told = "ok" /\ DOMAIN kept = {} /\ sent = << >>
      /\ attempt = Privacy!NoAttempt /\ attempt.pc = "idle"
  BY DEF Privacy!Init, Privacy!Silent, Privacy!NoAttempt
<1>2. Privacy!TypeOK
  BY <1>1, RowShapes DEF Privacy!TypeOK, Privacy!AllRules
<1>3. Privacy!SavedIsInForce /\ Privacy!FilteredForUpstream
  BY <1>1 DEF Privacy!SavedIsInForce, Privacy!FilteredForUpstream
<1>4. AttemptKnows /\ KeptFits
  BY <1>1 DEF AttemptKnows, KeptFits
<1> QED BY <1>1, <1>2, <1>3, <1>4 DEF PrivacyInv, RulesAreApplied

\* Every step leaves the invariant.
LEMMA PrivacyStepKeeps == PrivacyInv /\ [Privacy!Next]_privacyVars => PrivacyInv'
<1> SUFFICES ASSUME PrivacyInv, [Privacy!Next]_privacyVars
             PROVE  PrivacyInv'
  OBVIOUS
<1>1. CASE UNCHANGED privacyVars
  <2>1. Privacy!TypeOK' /\ Privacy!SavedIsInForce' /\ UNCHANGED <<snapshot, attempt, kept, sent>>
    BY <1>1 DEF privacyVars, PrivacyInv, RulesAreApplied, Privacy!TypeOK, Privacy!SavedIsInForce
  <2> QED BY <2>1, RequestKept
<1>2. CASE \E u \in Upstreams, b \in 1 .. 2 : Privacy!BeginAttempt(u, b)
  BY <1>2, BeginKeeps
<1> QED BY <1>1, <1>2, ChangesKeep, FailuresKeep, RebuildKeeps, RestartKeeps, LookUpKeeps, ScanKeeps,
        NextRequestKeeps DEF Privacy!Next

\* What the specification with all its parts does to the variables of the privacy rules.
LEMMA PrivacyParts ==
  /\ MCInit => Privacy!Init
  /\ [MCNext]_allVars => [Privacy!Next]_privacyVars
BY DEF MCInit, MCNext, allVars, privacyVars, cooldownVars, CooldownStep, RoutingStep, MigrationStep, PrivacyStep, Input

\* Whatever changes of the rules come between and during the attempts of a request,
\* for any rules and upstreams: an attempt sends its own body, filtered by rules that
\* were in force for its upstream while it ran, and a change that reported success is
\* in force (applyPrivacyFilter, rebuildSnapshotLocked).
THEOREM RulesStand == MCSpec => []RulesAreApplied
<1>1. MCSpec => []PrivacyInv
  BY PrivacyParts, PrivacyInitial, PrivacyStepKeeps, PTL DEF MCSpec
<1>2. PrivacyInv => RulesAreApplied
  BY DEF PrivacyInv
<1> QED BY <1>1, <1>2, PTL
-----------------------------------------------------------------------------
(* Induction over numbers, sorting, and folding one after the other.        *)

\* The natural numbers, in their order, are well founded.
LEMMA Less == IsWellFoundedOn({ss \in Nat \X Nat : ss[1] < ss[2]}, Nat)
  BY NatLessThanWellFounded, Zenon DEF OpToRel

\* What holds of 0 and with every number of the next holds up to n.
LEMMA UpTo ==
  ASSUME NEW n \in Nat, NEW S, 0 \in S, \A k \in 0 .. n - 1 : k \in S => k + 1 \in S
  PROVE  \A k \in 0 .. n : k \in S
<1>1. SUFFICES ASSUME {k \in 0 .. n : k \notin S} # {} PROVE FALSE
  OBVIOUS
<1>2. PICK m \in {k \in 0 .. n : k \notin S} :
             \A y \in {k \in 0 .. n : k \notin S} : ~(<<y, m>> \in {ss \in Nat \X Nat : ss[1] < ss[2]})
  BY <1>1, Less, WFMin, {k \in 0 .. n : k \notin S} \in SUBSET Nat
<1>3. m \in Nat /\ m # 0 /\ m - 1 \in 0 .. n - 1 /\ (m - 1) + 1 = m
  OBVIOUS
<1>4. m - 1 \in {k \in 0 .. n : k \notin S}
  BY <1>3
<1>5. <<m - 1, m>> \in {ss \in Nat \X Nat : ss[1] < ss[2]}
  BY <1>3
<1> QED
  BY <1>2, <1>4, <1>5

\* Sequence q has every member of S at its rank in the order R: after as many as are
\* before it.
Ranked(q, S, R) ==
  /\ q \in Seq(S) /\ Len(q) = Cardinality(S) /\ Cardinality(S) \in Nat
  /\ \A x \in S : LET k == Cardinality({y \in S : <<y, x>> \in R}) + 1
                  IN  k \in 1 .. Len(q) /\ q[k] = x
  /\ \A i, j \in 1 .. Len(q) : i < j => q[i] # q[j] /\ <<q[i], q[j]>> \in R

\* Relation R is a strict and total order on S.
Orders(R, S) ==
  /\ \A x \in S : <<x, x>> \notin R
  /\ \A x, y \in S : x # y => (<<x, y>> \in R <=> <<y, x>> \notin R)
  /\ \A x, y, z \in S : <<x, y>> \in R /\ <<y, z>> \in R => <<x, z>> \in R

\* A strict and total order puts every member of a finite set at one place: the
\* numbers of those before it are all different.
LEMMA ArrangedRanks ==
  ASSUME NEW S, NEW R, IsFiniteSet(S), Orders(R, S)
  PROVE  Ranked(Arranged(S, R), S, R)
<1> DEFINE n == Cardinality(S)
           before(x) == {y \in S : <<y, x>> \in R}
           rank == [x \in S |-> Cardinality(before(x))]
           q == Arranged(S, R)
<1>1. n \in Nat
  BY FS_CardinalityType
<1>2. \A x \in S : IsFiniteSet(before(x)) /\ Cardinality(before(x)) \in Nat /\ Cardinality(before(x)) < n
  <2> TAKE x \in S
  <2>1. before(x) \in SUBSET S /\ before(x) # S
    BY DEF Orders
  <2>2. IsFiniteSet(before(x)) /\ Cardinality(before(x)) <= n /\ Cardinality(before(x)) # n
    BY <2>1, FS_Subset
  <2>3. Cardinality(before(x)) \in Nat
    BY <2>2, FS_CardinalityType
  <2> QED
    BY <1>1, <2>2, <2>3
<1>3. \A x, y \in S : <<x, y>> \in R => rank[x] < rank[y]
  <2> TAKE x, y \in S
  <2> HAVE <<x, y>> \in R
  <2>1. before(x) \in SUBSET before(y)
    BY DEF Orders
  <2>3. x \in before(y) /\ x \notin before(x)
    BY DEF Orders
  <2>2. /\ Cardinality(before(x)) <= Cardinality(before(y))
        /\ Cardinality(before(x)) # Cardinality(before(y))
    BY <1>2, <2>1, <2>3, FS_Subset
  <2>4. Cardinality(before(x)) \in Nat /\ Cardinality(before(y)) \in Nat
    BY <1>2
  <2>5. rank[x] = Cardinality(before(x)) /\ rank[y] = Cardinality(before(y))
    OBVIOUS
  <2> HIDE DEF rank, before
  <2> QED
    BY <2>2, <2>4, <2>5
<1>4. rank \in [S -> 0 .. n - 1]
  BY <1>1, <1>2
<1>5. \A x \in S : rank[x] = Cardinality(before(x))
  OBVIOUS
<1>6. rank \in Surjection(S, 0 .. n - 1)
  <2>1. rank \in Injection(S, 0 .. n - 1)
    <3>1. \A x, y \in S : x # y => rank[x] # rank[y]
      <4> TAKE x, y \in S
      <4> HAVE x # y
      <4>1. <<x, y>> \in R \/ <<y, x>> \in R
        BY DEF Orders
      <4>2. rank[x] \in 0 .. n - 1 /\ rank[y] \in 0 .. n - 1
        BY <1>4
      <4> QED
        BY <1>1, <1>3, <4>1, <4>2
    <3> QED
      BY <1>4, <3>1 DEF Injection, IsInjective
  <2>2. IsFiniteSet(0 .. n - 1) /\ Cardinality(0 .. n - 1) = n
    <3>1. 0 \in Int /\ n - 1 \in Int
      BY <1>1
    <3>2. IsFiniteSet(0 .. n - 1) /\ Cardinality(0 .. n - 1) = IF 0 > n - 1 THEN 0 ELSE (n - 1) - 0 + 1
      BY <3>1, FS_Interval
    <3> QED
      BY <1>1, <3>2
  <2> QED
    BY <2>1, <2>2, FS_Injection
<1>7. \A k \in 1 .. n : \E x \in S : rank[x] = k - 1
  <2>1. \A m \in 0 .. n - 1 : \E x \in S : rank[x] = m
    BY <1>6, Zenon DEF Surjection
  <2> HIDE DEF rank, n
  <2>2. \A k \in 1 .. n : k - 1 \in 0 .. n - 1
    BY <1>1
  <2> QED
    BY <2>1, <2>2, Zenon
<1>8. q = [k \in 1 .. n |-> CHOOSE x \in S : Cardinality(before(x)) = k - 1]
  BY Zenon DEF Arranged
<1>9. \A k \in 1 .. n : q[k] \in S /\ rank[q[k]] = k - 1
  <2> TAKE k \in 1 .. n
  <2>1. q[k] = CHOOSE x \in S : Cardinality(before(x)) = k - 1
    BY <1>8
  <2>2. \E x \in S : Cardinality(before(x)) = k - 1
    BY <1>5, <1>7
  <2> HIDE DEF rank, q
  <2>3. q[k] \in S /\ Cardinality(before(q[k])) = k - 1
    BY <2>1, <2>2
  <2> QED
    BY <1>5, <2>3
<1>10. q \in Seq(S) /\ Len(q) = n
  <2>1. q = [k \in 1 .. n |-> q[k]]
    BY <1>8
  <2> HIDE DEF q, rank
  <2> QED
    BY <1>1, <1>9, <2>1
<1> HIDE DEF q, rank, n
<1>11. \A x \in S : rank[x] + 1 \in 1 .. n /\ q[rank[x] + 1] = x
  <2> TAKE x \in S
  <2>1. rank[x] + 1 \in 1 .. n /\ rank[x] \in Int
    BY <1>1, <1>4
  <2>2. q[rank[x] + 1] \in S /\ rank[q[rank[x] + 1]] = rank[x]
    BY <1>9, <2>1
  <2>3. q[rank[x] + 1] = x
    <3> SUFFICES ASSUME q[rank[x] + 1] # x PROVE FALSE
      OBVIOUS
    <3>1. <<q[rank[x] + 1], x>> \in R \/ <<x, q[rank[x] + 1]>> \in R
      BY <2>2 DEF Orders
    <3> QED
      BY <1>3, <2>1, <2>2, <3>1
  <2> QED
    BY <2>1, <2>3
<1>12. \A i, j \in 1 .. n : i < j => q[i] # q[j] /\ <<q[i], q[j]>> \in R
  <2> TAKE i, j \in 1 .. n
  <2> HAVE i < j
  <2>1. q[i] \in S /\ q[j] \in S /\ rank[q[i]] < rank[q[j]]
    BY <1>1, <1>9
  <2>2. q[i] # q[j] /\ ~(rank[q[j]] < rank[q[i]])
    BY <1>1, <1>9, <2>1
  <2> QED
    BY <1>3, <2>1, <2>2 DEF Orders
<1>13. \A x \in S : Cardinality(before(x)) + 1 \in 1 .. n /\ q[Cardinality(before(x)) + 1] = x
  BY <1>5, <1>11
<1> QED
  BY <1>1, <1>10, <1>12, <1>13 DEF Ranked, q, n

\* The greatest of a set that holds n + 1 and nothing above it.
LEMMA MaxOfPrefix ==
  ASSUME NEW n \in Nat, NEW s \in SUBSET (1 .. n + 1), n + 1 \in s
  PROVE  Scan!Max(s) = n + 1
<1>1. \A x \in s : n + 1 >= x
  OBVIOUS
<1>2. \A y \in s : (\A x \in s : y >= x) => y = n + 1
  OBVIOUS
<1> QED
  BY <1>1, <1>2, Zenon DEF Scan!Max

\* One more number: the first k + 1 of n numbers without the last are the first k.
LEMMA OneMore ==
  ASSUME NEW n \in Nat, NEW k \in 0 .. n - 1
  PROVE  /\ 1 .. k + 1 \in SUBSET (1 .. n) /\ 1 .. k + 1 # {}
         /\ k + 1 \in 1 .. k + 1 /\ (1 .. k + 1) \ {k + 1} = 1 .. k
         /\ k \in 0 .. n /\ k + 1 \in 0 .. n /\ k \in Nat
<1>1. k \in Nat /\ k + 1 <= n
  OBVIOUS
<1>2. \A x : x \in (1 .. k + 1) \ {k + 1} <=> x \in 1 .. k
  BY <1>1
<1> QED
  BY <1>1, <1>2

\* What is folded here takes one of these steps at a member r, with the parameters q.
FoldStep(what, q, x, r) ==
  IF what = "match" THEN Scan!TakeMatch(x, r, q.text, q.pattern)
  ELSE IF what = "find" THEN Scan!TakeFind(x, r, q.rule)
  ELSE IF what = "rule" THEN Scan!TakeRule(x, r, q.text)
  ELSE IF what = "piece" THEN Scan!TakePiece(x, r, q.scan, q.rules)
  ELSE IF what = "size" THEN IF r.text THEN x + Len(r.value) ELSE x
  ELSE IF what = "row" THEN Split!AddRow(x, r, q.entries)
  ELSE Scan!After(x, r, q.text, q.rules)

\* The table that folding the first n of them fills in.
Filled(g, what, q, p, ls, n) ==
  g = [s \in SUBSET (1 .. n) |->
         IF s = {} THEN p ELSE FoldStep(what, q, g[s \ {Scan!Max(s)}], ls[Scan!Max(s)])]

\* A table of the folds of k members extends to one of k + 1.
LEMMA TableGrows ==
  ASSUME NEW what, NEW q, NEW p, NEW ls, NEW k \in Nat, NEW g, Filled(g, what, q, p, ls, k)
  PROVE  \E h : Filled(h, what, q, p, ls, k + 1)
<1> DEFINE h == [s \in SUBSET (1 .. k + 1) |->
                   IF k + 1 \in s THEN FoldStep(what, q, g[s \ {k + 1}], ls[k + 1]) ELSE g[s]]
<1>1. ASSUME NEW s \in SUBSET (1 .. k + 1)
      PROVE  h[s] = IF s = {} THEN p
                    ELSE FoldStep(what, q, h[s \ {Scan!Max(s)}], ls[Scan!Max(s)])
  <2>1. CASE k + 1 \in s
    <3>1. Scan!Max(s) = k + 1
      BY <2>1, MaxOfPrefix
    <3>2. h[s \ {k + 1}] = g[s \ {k + 1}]
      OBVIOUS
    <3>3. s # {} /\ h[s] = FoldStep(what, q, g[s \ {k + 1}], ls[k + 1])
      BY <2>1
    <3> QED
      BY <3>1, <3>2, <3>3, Zenon
  <2>2. CASE k + 1 \notin s
    <3>1. s \in SUBSET (1 .. k) /\ h[s] = g[s]
      BY <2>2
    <3>2. g[s] = IF s = {} THEN p
                 ELSE FoldStep(what, q, g[s \ {Scan!Max(s)}], ls[Scan!Max(s)])
      BY <3>1, Zenon DEF Filled
    <3>3. h[s \ {Scan!Max(s)}] = g[s \ {Scan!Max(s)}]
      BY <2>2
    <3> QED
      BY <3>1, <3>2, <3>3, Zenon
  <2> QED
    BY <2>1, <2>2
<1>2. h = [s \in SUBSET (1 .. k + 1) |-> h[s]]
  BY Zenon
<1> HIDE DEF h
<1>3. Filled(h, what, q, p, ls, k + 1)
  BY <1>1, <1>2, Zenon DEF Filled
<1> QED
  BY <1>3, Zenon

\* So there is one for any number of members.
LEMMA TableExists ==
  ASSUME NEW what, NEW q, NEW p, NEW ls, NEW n \in Nat
  PROVE  \E g : Filled(g, what, q, p, ls, n)
<1> DEFINE S == {k \in 0 .. n : \E g : Filled(g, what, q, p, ls, k)}
<1>1. 0 \in S
  <2>1. \A s \in SUBSET (1 .. 0) : s = {}
    OBVIOUS
  <2>2. Filled([s \in SUBSET (1 .. 0) |-> p], what, q, p, ls, 0)
    BY <2>1, Zenon DEF Filled
  <2> QED
    BY <2>2, SMT
<1>2. ASSUME NEW k \in 0 .. n - 1, k \in S PROVE k + 1 \in S
  <2>1. \E g : Filled(g, what, q, p, ls, k + 1)
    BY <1>2, TableGrows
  <2>2. k + 1 \in 0 .. n
    OBVIOUS
  <2> QED
    BY <2>1, <2>2, Zenon
<1>3. n \in 0 .. n
  OBVIOUS
<1> HIDE DEF S
<1>4. n \in S
  BY <1>1, <1>2, <1>3, UpTo
<1> QED
  BY <1>4 DEF S

\* Folding is taking one after the other.
OneByOne(a, what, q, p, ls) ==
  /\ a[0] = p
  /\ \A k \in 0 .. Len(ls) - 1 : a[k + 1] = FoldStep(what, q, a[k], ls[k + 1])

\* What the table says of all members is what taking them one after the other gives.
LEMMA TableOneByOne ==
  ASSUME NEW what, NEW q, NEW p, NEW T, NEW ls \in Seq(T), NEW g, Filled(g, what, q, p, ls, Len(ls))
  PROVE  \E a : OneByOne(a, what, q, p, ls) /\ g[1 .. Len(ls)] = a[Len(ls)]
<1> DEFINE n == Len(ls)
           a == [k \in 0 .. n |-> g[1 .. k]]
<1>0. n \in Nat
  OBVIOUS
<1>1. a[0] = p
  <2>1. 1 .. 0 = {} /\ {} \in SUBSET (1 .. n) /\ 0 \in 0 .. n
    BY <1>0
  <2>2. g[{}] = p
    BY <2>1, Zenon DEF Filled
  <2> QED
    BY <2>1, <2>2
<1>2. ASSUME NEW k \in 0 .. n - 1 PROVE a[k + 1] = FoldStep(what, q, a[k], ls[k + 1])
  <2>1. /\ 1 .. k + 1 \in SUBSET (1 .. n) /\ 1 .. k + 1 # {}
        /\ k + 1 \in 1 .. k + 1 /\ (1 .. k + 1) \ {k + 1} = 1 .. k
        /\ k \in 0 .. n /\ k + 1 \in 0 .. n /\ k \in Nat
    BY <1>0, OneMore
  <2>2. Scan!Max(1 .. k + 1) = k + 1
    BY <2>1, MaxOfPrefix
  <2>3. g[1 .. k + 1] = FoldStep(what, q, g[1 .. k], ls[k + 1])
    BY <2>1, <2>2, Zenon DEF Filled
  <2> QED
    BY <2>1, <2>3, Zenon
<1>3. a[n] = g[1 .. n]
  BY <1>0
<1> HIDE DEF a
<1> QED
  BY <1>1, <1>2, <1>3, Zenon DEF OneByOne

\* Folding has one course only.
SameStart(ms, ls, n) == \A k \in 1 .. n : ms[k] = ls[k]

\* Two courses over the same first members agree up to them.
LEMMA OneCourse ==
  ASSUME NEW what, NEW q, NEW p, NEW ls, NEW a, NEW b, NEW n \in Nat, n <= Len(ls), Len(ls) \in Nat,
         OneByOne(a, what, q, p, ls), NEW ms, OneByOne(b, what, q, p, ms), Len(ms) = n,
         SameStart(ms, ls, n)
  PROVE  a[n] = b[n]
<1> DEFINE S == {k \in 0 .. n : a[k] = b[k]}
<1>1. 0 \in S
  BY DEF OneByOne
<1>2. ASSUME NEW k \in 0 .. n - 1, k \in S PROVE k + 1 \in S
  <2>1. k \in 0 .. Len(ls) - 1 /\ k \in 0 .. Len(ms) - 1 /\ k + 1 \in 1 .. n /\ k + 1 \in 0 .. n
    OBVIOUS
  <2>2. a[k + 1] = FoldStep(what, q, a[k], ls[k + 1]) /\ b[k + 1] = FoldStep(what, q, b[k], ms[k + 1])
    BY <2>1, Zenon DEF OneByOne
  <2>3. a[k] = b[k] /\ ls[k + 1] = ms[k + 1]
    BY <1>2, <2>1 DEF SameStart
  <2> QED
    BY <2>1, <2>2, <2>3
<1>3. n \in 0 .. n
  OBVIOUS
<1> HIDE DEF S
<1>4. n \in S
  BY <1>1, <1>2, <1>3, UpTo
<1> QED
  BY <1>4 DEF S

\* The sort of PrivacyScan is that of Ordering.
LEMMA SameArranged == \A S, R : Scan!Arranged(S, R) = Arranged(S, R)
  BY Zenon DEF Scan!Arranged, Arranged, Scan!Cardinality, Cardinality

\* The folds of a scan, step by step.
LEMMA FoundOneByOne ==
  ASSUME NEW q, NEW T, NEW ls \in Seq(T), Scan!Starts(q.text, q.pattern) = ls
  PROVE  \E a : OneByOne(a, "match", q, << >>, ls) /\ Scan!Found(q.text, q.pattern) = a[Len(ls)]
<1> DEFINE g == CHOOSE g : Filled(g, "match", q, << >>, ls, Len(ls))
<1>1. DOMAIN ls = 1 .. Len(ls) /\ Len(ls) \in Nat
  OBVIOUS
<1>2. Filled(g, "match", q, << >>, ls, Len(ls))
  BY <1>1, TableExists, Zenon
<1>3. Scan!Found(q.text, q.pattern) = g[1 .. Len(ls)]
  BY <1>1, ZenonT(60) DEF Scan!Found, Scan!FoldLeft, Scan!MapThenFoldSet, Filled, FoldStep
<1> HIDE DEF g
<1>4. \E a : OneByOne(a, "match", q, << >>, ls) /\ g[1 .. Len(ls)] = a[Len(ls)]
  BY ONLY <1>2, TableOneByOne, ls \in Seq(T)
<1> QED
  BY <1>3, <1>4, Zenon

\* The finds of one rule are taken one after the other.
LEMMA RuleOneByOne ==
  ASSUME NEW q, NEW acc, NEW T, NEW ls \in Seq(T), Scan!Found(q.text, q.rule.pattern) = ls
  PROVE  \E a : OneByOne(a, "find", q, acc, ls) /\ Scan!TakeRule(acc, q.rule, q.text) = a[Len(ls)]
<1> DEFINE g == CHOOSE g : Filled(g, "find", q, acc, ls, Len(ls))
<1>1. DOMAIN ls = 1 .. Len(ls) /\ Len(ls) \in Nat /\ "find" # "match"
  OBVIOUS
<1>2. Filled(g, "find", q, acc, ls, Len(ls))
  BY <1>1, TableExists, Zenon
<1>4. Scan!TakeRule(acc, q.rule, q.text) = g[1 .. Len(ls)]
  BY <1>1, ZenonT(60) DEF Scan!TakeRule, Scan!FoldLeft, Scan!MapThenFoldSet, Filled, FoldStep
<1> HIDE DEF g
<1>5. \E a : OneByOne(a, "find", q, acc, ls) /\ g[1 .. Len(ls)] = a[Len(ls)]
  BY ONLY <1>2, TableOneByOne, ls \in Seq(T)
<1> QED
  BY <1>4, <1>5, Zenon

\* The rules are taken one after the other.
LEMMA SpansOneByOne ==
  ASSUME NEW q, NEW T, NEW rs \in Seq(T)
  PROVE  \E a : OneByOne(a, "rule", q, {}, rs) /\ Scan!Spans(rs, q.text) = a[Len(rs)]
<1> DEFINE g == CHOOSE g : Filled(g, "rule", q, {}, rs, Len(rs))
<1>1. DOMAIN rs = 1 .. Len(rs) /\ Len(rs) \in Nat /\ "rule" # "match" /\ "rule" # "find"
  OBVIOUS
<1>2. Filled(g, "rule", q, {}, rs, Len(rs))
  BY <1>1, TableExists, Zenon
<1>4. Scan!Spans(rs, q.text) = g[1 .. Len(rs)]
  BY <1>1, ZenonT(60) DEF Scan!Spans, Scan!FoldLeft, Scan!MapThenFoldSet, Filled, FoldStep
<1> HIDE DEF g
<1>5. \E a : OneByOne(a, "rule", q, {}, rs) /\ g[1 .. Len(rs)] = a[Len(rs)]
  BY ONLY <1>2, TableOneByOne, rs \in Seq(T)
<1> QED
  BY <1>4, <1>5, Zenon

\* The pieces of a body are taken one after the other.
LEMMA ScanOneByOne ==
  ASSUME NEW q, NEW T, NEW ls \in Seq(T), q.scan.body = ls
  PROVE  \E a : /\ OneByOne(a, "piece", q, Scan!State(0, FALSE, FALSE, 0, << >>), ls)
                /\ Scan!Scan(q.scan, q.rules) = a[Len(ls)]
<1> DEFINE p == Scan!State(0, FALSE, FALSE, 0, << >>)
           g == CHOOSE g : Filled(g, "piece", q, p, ls, Len(ls))
<1>1. /\ DOMAIN ls = 1 .. Len(ls) /\ Len(ls) \in Nat
      /\ "piece" # "match" /\ "piece" # "find" /\ "piece" # "rule"
  OBVIOUS
<1>2. Filled(g, "piece", q, p, ls, Len(ls))
  BY <1>1, TableExists, Zenon
<1>4. Scan!Scan(q.scan, q.rules) = g[1 .. Len(ls)]
  BY <1>1, ZenonT(60) DEF Scan!Scan, Scan!FoldLeft, Scan!MapThenFoldSet, Filled, FoldStep
<1> HIDE DEF g, p
<1>5. \E a : OneByOne(a, "piece", q, p, ls) /\ g[1 .. Len(ls)] = a[Len(ls)]
  BY ONLY <1>2, TableOneByOne, ls \in Seq(T)
<1> QED
  BY <1>4, <1>5, Zenon DEF p

\* x is what taking the members of ls one after the other comes to.
Course(what, q, p, ls, x) == \E a : OneByOne(a, what, q, p, ls) /\ x = a[Len(ls)]

\* The sizes of the fields before a piece are added one after the other.
LEMMA BeforeOneByOne ==
  ASSUME NEW q, NEW T, NEW ls \in Seq(T), NEW scan, NEW k, Scan!Earlier(scan, k) = ls
  PROVE  Course("size", q, 0, ls, Scan!Before(scan, k))
<1> DEFINE g == CHOOSE g : Filled(g, "size", q, 0, ls, Len(ls))
<1>1. /\ DOMAIN ls = 1 .. Len(ls) /\ Len(ls) \in Nat
      /\ "size" # "match" /\ "size" # "find" /\ "size" # "rule" /\ "size" # "piece"
  OBVIOUS
<1>2. Filled(g, "size", q, 0, ls, Len(ls))
  BY <1>1, TableExists, Zenon
<1>4. Scan!Before(scan, k) = g[1 .. Len(ls)]
  BY <1>1, ZenonT(60) DEF Scan!Before, Scan!FoldLeft, Scan!MapThenFoldSet, Filled, FoldStep
<1> HIDE DEF g
<1>5. \E a : OneByOne(a, "size", q, 0, ls) /\ g[1 .. Len(ls)] = a[Len(ls)]
  BY ONLY <1>2, TableOneByOne, ls \in Seq(T)
<1> QED
  BY <1>4, <1>5, Zenon DEF Course

\* What a redacted text accounts for is found one symbol after the other.
LEMMA AccountedOneByOne ==
  ASSUME NEW q, NEW T, NEW out \in Seq(T)
  PROVE  \E a : /\ OneByOne(a, "account", q, 1, out)
                /\ Scan!Accounted(out, q.text, q.rules) <=> a[Len(out)] = Len(q.text) + 1
<1> DEFINE n == Len(out)
           g == CHOOSE g : Filled(g, "account", q, 1, out, n)
<1>1. /\ DOMAIN out = 1 .. n /\ n \in Nat
      /\ "account" # "match" /\ "account" # "find" /\ "account" # "rule" /\ "account" # "piece"
      /\ "account" # "size" /\ "account" # "row"
  OBVIOUS
<1>2. Filled(g, "account", q, 1, out, n)
  BY <1>1, TableExists, Zenon
<1>3. Scan!FoldLeft(LAMBDA at, x : Scan!After(at, x, q.text, q.rules), 1, out) = g[1 .. n]
  BY <1>1, ZenonT(60) DEF Scan!FoldLeft, Scan!MapThenFoldSet, Filled, FoldStep
<1>4. Scan!Accounted(out, q.text, q.rules) <=> g[1 .. n] = Len(q.text) + 1
  BY <1>3, Zenon DEF Scan!Accounted
<1> HIDE DEF g
<1>5. \E a : OneByOne(a, "account", q, 1, out) /\ g[1 .. n] = a[n]
  BY ONLY <1>2, TableOneByOne, out \in Seq(T)
<1> QED
  BY <1>4, <1>5, Zenon

-----------------------------------------------------------------------------
(* What a rule finds.                                                       *)

\* The finds f are occurrences of p in t that begin at k at the latest, in their order
\* and apart from each other, and every occurrence that does begins within one.
Finds(f, t, p, k) ==
  /\ f \in Seq(Int \X Int)
  /\ \A x \in 1 .. Len(f) : /\ f[x][1] \in 1 .. k /\ f[x][2] = f[x][1] + Len(p) - 1
                            /\ Scan!Matches(t, p, f[x][1])
  /\ \A x, y \in 1 .. Len(f) : x < y => f[x][2] < f[y][1]
  /\ \A i \in 1 .. k : Scan!Matches(t, p, i) =>
       \E x \in 1 .. Len(f) : f[x][1] <= i /\ i <= f[x][2]

\* One more beginning is looked at.
LEMMA MatchTaken ==
  ASSUME NEW t, NEW p, Len(p) \in Nat \ {0}, NEW k \in Nat, NEW f, Finds(f, t, p, k)
  PROVE  Finds(Scan!TakeMatch(f, k + 1, t, p), t, p, k + 1)
<1> DEFINE n == Len(f)
           free == f = << >> \/ f[n][2] < k + 1
           m == <<k + 1, k + 1 + Len(p) - 1>>
           g == Append(f, m)
<1>1. f \in Seq(Int \X Int) /\ n \in Nat /\ (f = << >> <=> n = 0)
  BY DEF Finds
<1>2. \A x \in 1 .. n : /\ f[x][1] \in 1 .. k /\ f[x][2] = f[x][1] + Len(p) - 1
                        /\ Scan!Matches(t, p, f[x][1])
  BY DEF Finds
<1>3. \A x, y \in 1 .. n : x < y => f[x][2] < f[y][1]
  BY DEF Finds
<1>4. \A i \in 1 .. k : Scan!Matches(t, p, i) => \E x \in 1 .. n : f[x][1] <= i /\ i <= f[x][2]
  BY DEF Finds
<1>5. Scan!TakeMatch(f, k + 1, t, p) = IF free /\ Scan!Matches(t, p, k + 1) THEN g ELSE f
  BY Zenon DEF Scan!TakeMatch, Scan!Last
<1>6. CASE free /\ Scan!Matches(t, p, k + 1)
  <2>1. m \in Int \X Int /\ m[1] = k + 1 /\ m[2] = k + 1 + Len(p) - 1
    OBVIOUS
  <2>2. /\ g \in Seq(Int \X Int) /\ Len(g) = n + 1 /\ g[n + 1] = m
        /\ \A x \in 1 .. n : g[x] = f[x]
    BY <1>1, <2>1
  <2> HIDE DEF m, g
  <2>3. \A x \in 1 .. n + 1 : x \in 1 .. n \/ x = n + 1
    BY <1>1
  <2>4. \A x \in 1 .. n : f[x][2] < k + 1
    <3> TAKE x \in 1 .. n
    <3>1. n \in 1 .. n /\ f[n][2] < k + 1
      BY <1>1, <1>6
    <3>2. x = n \/ f[x][2] < f[n][1]
      BY <1>1, <1>3, <3>1
    <3> QED
      BY <1>2, <3>1, <3>2
  <2>5. \A x \in 1 .. n + 1 : /\ g[x][1] \in 1 .. k + 1 /\ g[x][2] = g[x][1] + Len(p) - 1
                              /\ Scan!Matches(t, p, g[x][1])
    <3> TAKE x \in 1 .. n + 1
    <3>1. CASE x \in 1 .. n
      <4>1. f[x][1] \in 1 .. k /\ f[x][2] = f[x][1] + Len(p) - 1 /\ Scan!Matches(t, p, f[x][1]) /\ g[x] = f[x]
        BY <1>2, <2>2, <3>1
      <4> QED
        BY <4>1
    <3>2. CASE x = n + 1
      <4>1. g[x][1] = k + 1 /\ g[x][2] = k + 1 + Len(p) - 1
        BY <2>1, <2>2, <3>2
      <4> QED
        BY <1>6, <4>1
    <3> QED
      BY <2>3, <3>1, <3>2
  <2>6. \A x, y \in 1 .. n + 1 : x < y => g[x][2] < g[y][1]
    <3> TAKE x, y \in 1 .. n + 1
    <3> HAVE x < y
    <3>1. x \in 1 .. n
      BY <1>1
    <3>2. CASE y \in 1 .. n
      BY <1>3, <2>2, <3>1, <3>2
    <3>3. CASE y = n + 1
      BY <2>1, <2>2, <2>4, <3>1, <3>3
    <3> QED
      BY <2>3, <3>2, <3>3
  <2>7. ASSUME NEW i \in 1 .. k + 1, Scan!Matches(t, p, i)
        PROVE  \E x \in 1 .. n + 1 : g[x][1] <= i /\ i <= g[x][2]
    <3>1. CASE i = k + 1
      <4>1. n + 1 \in 1 .. n + 1 /\ g[n + 1][1] <= i /\ i <= g[n + 1][2]
        BY <1>1, <2>1, <2>2, <3>1
      <4> QED
        BY <4>1
    <3>2. CASE i \in 1 .. k
      <4>1. PICK x \in 1 .. n : f[x][1] <= i /\ i <= f[x][2]
        BY <1>4, <2>7, <3>2
      <4>2. x \in 1 .. n + 1 /\ g[x] = f[x]
        BY <1>1, <2>2
      <4> QED
        BY <4>1, <4>2
    <3> QED
      BY <3>1, <3>2
  <2>8. Scan!TakeMatch(f, k + 1, t, p) = g
    BY <1>5, <1>6
  <2> QED
    BY <2>2, <2>5, <2>6, <2>7, <2>8 DEF Finds
<1>7. CASE ~(free /\ Scan!Matches(t, p, k + 1))
  <2>1. ASSUME NEW i \in 1 .. k + 1, Scan!Matches(t, p, i)
        PROVE  \E x \in 1 .. n : f[x][1] <= i /\ i <= f[x][2]
    <3>1. CASE i = k + 1
      <4>1. n \in 1 .. n /\ ~(f[n][2] < k + 1)
        BY <1>1, <1>7, <2>1, <3>1
      <4>2. f[n][1] \in 1 .. k /\ f[n][2] = f[n][1] + Len(p) - 1
        BY <1>2, <4>1
      <4>3. f[n][1] <= i /\ i <= f[n][2]
        BY <3>1, <4>1, <4>2
      <4> QED
        BY <4>1, <4>3
    <3>2. CASE i \in 1 .. k
      BY <1>4, <2>1, <3>2
    <3> QED
      BY <3>1, <3>2
  <2>2. \A x \in 1 .. n : f[x][1] \in 1 .. k + 1
    BY <1>2
  <2>3. Scan!TakeMatch(f, k + 1, t, p) = f
    BY <1>5, <1>7
  <2> QED
    BY <1>1, <1>2, <1>3, <2>1, <2>2, <2>3 DEF Finds
<1> QED
  BY <1>6, <1>7

\* A rule finds its occurrences, apart from each other, and overlaps all others.
LEMMA FoundRight ==
  ASSUME NEW A, NEW t \in Seq(A), NEW p \in Seq(A), p # << >>
  PROVE  \E k \in Nat : Finds(Scan!Found(t, p), t, p, k) /\ 1 .. k = 1 .. Len(t) - Len(p) + 1
<1> DEFINE ls == Scan!Starts(t, p)
           m == Len(t) - Len(p) + 1
           n == IF m < 0 THEN 0 ELSE m
           q == [text |-> t, pattern |-> p]
<1>1. Len(t) \in Nat /\ Len(p) \in Nat \ {0}
  OBVIOUS
<1>2. n \in Nat /\ 1 .. n = 1 .. m
  BY <1>1
<1>3. ls = [i \in 1 .. n |-> i]
  BY <1>2 DEF Scan!Starts
<1> HIDE DEF n, m, ls
<1>4. ls \in Seq(Nat) /\ Len(ls) = n /\ \A i \in 1 .. n : ls[i] = i
  BY <1>2, <1>3
<1>5. q.text = t /\ q.pattern = p
  OBVIOUS
<1> HIDE DEF q
<1>6. Scan!Starts(q.text, q.pattern) = ls
  BY <1>5, Zenon DEF ls
<1>7. PICK a : OneByOne(a, "match", q, << >>, ls) /\ Scan!Found(q.text, q.pattern) = a[Len(ls)]
  BY <1>4, <1>6, FoundOneByOne
<1> DEFINE S == {k \in 0 .. n : Finds(a[k], t, p, k)}
<1>8. 0 \in S
  <2>1. a[0] = << >> /\ 0 \in 0 .. n
    BY <1>2, <1>7 DEF OneByOne
  <2>2. Finds(<< >>, t, p, 0)
    BY DEF Finds
  <2> QED
    BY <2>1, <2>2
<1>9. ASSUME NEW k \in 0 .. n - 1, k \in S PROVE k + 1 \in S
  <2>1. a[k + 1] = FoldStep("match", q, a[k], ls[k + 1])
    BY <1>4, <1>7 DEF OneByOne
  <2>2. k \in Nat /\ k + 1 \in 0 .. n /\ ls[k + 1] = k + 1
    BY <1>2, <1>4
  <2>3. a[k + 1] = Scan!TakeMatch(a[k], k + 1, t, p)
    BY <1>5, <2>1, <2>2, Zenon DEF FoldStep
  <2>4. Finds(a[k], t, p, k)
    BY <1>9
  <2>5. Finds(Scan!TakeMatch(a[k], k + 1, t, p), t, p, k + 1)
    BY <1>1, <2>2, <2>4, MatchTaken
  <2> QED
    BY <2>2, <2>3, <2>5
<1>10. n \in 0 .. n
  BY <1>2
<1> HIDE DEF S
<1>11. n \in S
  BY <1>2, <1>8, <1>9, <1>10, UpTo
<1>12. Finds(Scan!Found(t, p), t, p, n)
  BY <1>4, <1>5, <1>7, <1>11 DEF S
<1> QED
  BY <1>2, <1>12 DEF m

-----------------------------------------------------------------------------
(* The spans of a text.                                                     *)

\* The span that rule r makes of an occurrence at i.
Mark(r, i) == [first |-> i, last |-> i + Len(r.pattern) - 1, id |-> r.id, redact |-> r.redact]

\* Two spans overlap.
Clash(x, y) == x.first <= y.last /\ y.first <= x.last

\* No two spans of S overlap.
Apart(S) == \A x, y \in S : x # y => ~Clash(x, y)

\* What acc has of the first m finds f of rule r, when there was base before: all but
\* those that clash with a span of base.
Taken(acc, base, r, f, m) ==
  /\ base \subseteq acc
  /\ \A x \in acc : x \in base \/ \E y \in 1 .. m : x = Mark(r, f[y][1])
  /\ \A y \in 1 .. m : Mark(r, f[y][1]) \in acc \/ \E x \in base : Clash(x, Mark(r, f[y][1]))
  /\ Apart(acc)

\* One more find is taken, or dropped for a span of a rule before.
LEMMA FindTaken ==
  ASSUME NEW r, NEW f, NEW t, NEW k, Len(r.pattern) \in Nat \ {0}, Finds(f, t, r.pattern, k),
         NEW m \in Nat, m < Len(f), NEW acc, NEW base, Taken(acc, base, r, f, m)
  PROVE  Taken(Scan!TakeFind(acc, f[m + 1], r), base, r, f, m + 1)
<1> DEFINE new == Mark(r, f[m + 1][1])
           g == Scan!TakeFind(acc, f[m + 1], r)
<1>1. Len(f) \in Nat /\ m + 1 \in 1 .. Len(f) /\ \A y \in 1 .. m : y \in 1 .. Len(f) /\ y < m + 1
  BY DEF Finds
<1>2. f[m + 1][2] = f[m + 1][1] + Len(r.pattern) - 1
  BY <1>1 DEF Finds
<1>3. \A x : Scan!Overlap(<<x.first, x.last>>, f[m + 1]) <=> Clash(x, new)
  BY <1>2 DEF Scan!Overlap, Clash, Mark
<1>4. g = IF \E x \in acc : Clash(x, new) THEN acc ELSE acc \cup {new}
  <2>1. new = [first |-> f[m + 1][1], last |-> f[m + 1][2], id |-> r.id, redact |-> r.redact]
    BY <1>2 DEF Mark
  <2> HIDE DEF new
  <2> QED
    BY <1>3, <2>1, Zenon DEF Scan!TakeFind, Scan!OverlapsAny
<1>5. \A y \in 1 .. m : ~Clash(Mark(r, f[y][1]), new)
  <2> TAKE y \in 1 .. m
  <2>1. f[y][2] < f[m + 1][1] /\ f[y][2] = f[y][1] + Len(r.pattern) - 1
    BY <1>1 DEF Finds
  <2>2. f[y][2] \in Int /\ f[m + 1][1] \in Int
    <3>1. f \in Seq(Int \X Int)
      BY DEF Finds
    <3>2. f[y] \in Int \X Int /\ f[m + 1] \in Int \X Int
      BY ONLY <1>1, <3>1, y \in 1 .. m
    <3> QED
      BY <3>2
  <2>3. Mark(r, f[y][1]).last = f[y][2] /\ new.first = f[m + 1][1]
    BY <2>1 DEF Mark
  <2> HIDE DEF new
  <2> QED
    BY <2>1, <2>2, <2>3 DEF Clash
<1> HIDE DEF new, g
<1>6. /\ base \subseteq acc /\ \A x \in acc : x \in base \/ \E y \in 1 .. m : x = Mark(r, f[y][1])
      /\ \A y \in 1 .. m : Mark(r, f[y][1]) \in acc \/ \E x \in base : Clash(x, Mark(r, f[y][1]))
      /\ Apart(acc)
  BY DEF Taken
<1>7. \A y : y \in 1 .. m + 1 <=> y \in 1 .. m \/ y = m + 1
  OBVIOUS
<1>8. CASE \E x \in acc : Clash(x, new)
  <2>1. PICK x \in acc : Clash(x, new)
    BY <1>8
  <2>2. x \in base
    BY <1>5, <1>6, <2>1, Zenon
  <2>3. g = acc
    BY <1>4, <1>8
  <2> QED
    BY <1>6, <1>7, <2>1, <2>2, <2>3, Zenon DEF Taken, new, g
<1>9. CASE ~\E x \in acc : Clash(x, new)
  <2>1. g = acc \cup {new}
    BY <1>4, <1>9
  <2>2. \A x, y : Clash(x, y) <=> Clash(y, x)
    BY Zenon DEF Clash
  <2>3. Apart(g)
    <3> SUFFICES ASSUME NEW x \in g, NEW y \in g, x # y PROVE ~Clash(x, y)
      BY Zenon DEF Apart
    <3>1. CASE x \in acc /\ y \in acc
      BY <1>6, <3>1, Zenon DEF Apart
    <3>2. CASE x \in acc /\ y = new
      BY <1>9, <3>2, Zenon
    <3>3. CASE x = new /\ y \in acc
      BY <1>9, <2>2, <3>3, Zenon
    <3> QED
      BY <2>1, <3>1, <3>2, <3>3
  <2>4. base \subseteq g
    BY <1>6, <2>1
  <2>5. \A x \in g : x \in base \/ \E y \in 1 .. m + 1 : x = Mark(r, f[y][1])
    BY <1>6, <1>7, <2>1, Zenon DEF new
  <2>6. \A y \in 1 .. m + 1 : Mark(r, f[y][1]) \in g \/ \E x \in base : Clash(x, Mark(r, f[y][1]))
    BY <1>6, <1>7, <2>1, Zenon DEF new
  <2> QED
    BY <2>3, <2>4, <2>5, <2>6, Zenon DEF Taken, g
<1> QED
  BY <1>8, <1>9, Zenon DEF g

\* A rule's finds are all taken.
LEMMA FindsTaken ==
  ASSUME NEW A, NEW t \in Seq(A), NEW r, r.pattern \in Seq(A), r.pattern # << >>, NEW base, Apart(base)
  PROVE  \E f, k : /\ k \in Nat /\ 1 .. k = 1 .. Len(t) - Len(r.pattern) + 1 /\ Finds(f, t, r.pattern, k)
                   /\ Taken(Scan!TakeRule(base, r, t), base, r, f, Len(f))
<1> DEFINE q == [text |-> t, rule |-> r]
           f == Scan!Found(t, r.pattern)
<1>1. PICK k \in Nat : Finds(f, t, r.pattern, k) /\ 1 .. k = 1 .. Len(t) - Len(r.pattern) + 1
  BY FoundRight
<1>2. q.text = t /\ q.rule = r /\ Len(r.pattern) \in Nat \ {0}
  OBVIOUS
<1> HIDE DEF q, f
<1>3. f \in Seq(Int \X Int) /\ Len(f) \in Nat
  BY <1>1 DEF Finds
<1>4. Scan!Found(q.text, q.rule.pattern) = f
  BY <1>2, Zenon DEF f
<1>5. PICK a : OneByOne(a, "find", q, base, f) /\ Scan!TakeRule(base, q.rule, q.text) = a[Len(f)]
  BY <1>3, <1>4, RuleOneByOne
<1> DEFINE S == {m \in 0 .. Len(f) : Taken(a[m], base, r, f, m)}
<1>6. 0 \in S
  <2>1. a[0] = base /\ 0 \in 0 .. Len(f)
    BY <1>3, <1>5 DEF OneByOne
  <2>2. \A y : y \notin 1 .. 0
    OBVIOUS
  <2>3. Taken(base, base, r, f, 0)
    BY <2>2, Zenon DEF Taken
  <2> QED
    BY <2>1, <2>3
<1>7. ASSUME NEW m \in 0 .. Len(f) - 1, m \in S PROVE m + 1 \in S
  <2>1. a[m + 1] = FoldStep("find", q, a[m], f[m + 1])
    BY <1>5 DEF OneByOne
  <2>2. m \in Nat /\ m < Len(f) /\ m + 1 \in 0 .. Len(f) /\ "find" # "match"
    BY <1>3
  <2>3. a[m + 1] = Scan!TakeFind(a[m], f[m + 1], r)
    BY <1>2, <2>1, <2>2, Zenon DEF FoldStep
  <2>4. Taken(a[m], base, r, f, m)
    BY <1>7
  <2>5. Taken(Scan!TakeFind(a[m], f[m + 1], r), base, r, f, m + 1)
    BY <1>1, <1>2, <2>2, <2>4, FindTaken
  <2> QED
    BY <2>2, <2>3, <2>5
<1>8. Len(f) \in 0 .. Len(f)
  BY <1>3
<1> HIDE DEF S
<1>9. Len(f) \in S
  BY <1>3, <1>6, <1>7, <1>8, UpTo
<1>10. Taken(Scan!TakeRule(base, r, t), base, r, f, Len(f))
  BY <1>2, <1>5, <1>9 DEF S
<1> QED
  BY <1>1, <1>10, Zenon

\* The rules of a scan of texts over the symbols A.
RuleOver(A) == [id : Int, prio : Int, pattern : Seq(A) \ {<< >>}, redact : BOOLEAN]

\* Where the pattern of r occurs in t.
PlacesOf(r, t) == Scan!Places(t, r.pattern, Len(t))

\* The occurrence of rule rs[q] at i begins in one at j that has its span, or that an
\* earlier rule's clashes with.
Held(acc, rs, t, q, j) ==
  \/ Mark(rs[q], j) \in acc
  \/ \E p \in 1 .. q - 1 : \E h \in PlacesOf(rs[p], t) :
       Mark(rs[p], h) \in acc /\ Clash(Mark(rs[p], h), Mark(rs[q], j))

\* Place i is within the occurrence of r at j.
Covers(r, j, i) == j <= i /\ i <= j + Len(r.pattern) - 1

\* The spans of the first k rules.
SpansTo(acc, t, rs, k) ==
  /\ Apart(acc)
  /\ \A x \in acc : \E q \in 1 .. k : \E i \in PlacesOf(rs[q], t) : x = Mark(rs[q], i)
  /\ \A q \in 1 .. k : \A i \in PlacesOf(rs[q], t) :
       \E j \in PlacesOf(rs[q], t) : Covers(rs[q], j, i) /\ Held(acc, rs, t, q, j)

\* What is held stays held as spans are added.
LEMMA HeldLonger ==
  ASSUME NEW acc, NEW new, acc \subseteq new, NEW rs, NEW t, NEW q, NEW j, Held(acc, rs, t, q, j)
  PROVE  Held(new, rs, t, q, j)
  BY Zenon DEF Held

\* One more rule is taken.
LEMMA RuleTaken ==
  ASSUME NEW A, NEW t \in Seq(A), NEW rs \in Seq(RuleOver(A)), NEW k \in Nat, k < Len(rs),
         NEW acc, SpansTo(acc, t, rs, k)
  PROVE  SpansTo(Scan!TakeRule(acc, rs[k + 1], t), t, rs, k + 1)
<1> DEFINE r == rs[k + 1]
           new == Scan!TakeRule(acc, r, t)
<1>1. r \in RuleOver(A)
  OBVIOUS
<1>2. r.pattern \in Seq(A) /\ r.pattern # << >> /\ Len(r.pattern) \in Nat \ {0}
  <2>1. r.pattern \in Seq(A) \ {<< >>}
    BY <1>1, Zenon DEF RuleOver
  <2> HIDE DEF r
  <2> QED
    BY <2>1
<1>3. Apart(acc)
  BY DEF SpansTo
<1> HIDE DEF r, new
<1>4. PICK f, m : /\ m \in Nat /\ 1 .. m = 1 .. Len(t) - Len(r.pattern) + 1 /\ Finds(f, t, r.pattern, m)
                  /\ Taken(Scan!TakeRule(acc, r, t), acc, r, f, Len(f))
  BY <1>2, <1>3, FindsTaken
<1>5. Taken(new, acc, r, f, Len(f))
  BY <1>4 DEF new
<1>6. PlacesOf(r, t) = {i \in 1 .. m : Scan!Matches(t, r.pattern, i)}
  BY <1>4, Zenon DEF PlacesOf, Scan!Places
<1>7. \A y \in 1 .. Len(f) : f[y][1] \in PlacesOf(r, t) /\ f[y][2] = f[y][1] + Len(r.pattern) - 1
  BY <1>4, <1>6, Zenon DEF Finds
<1>8. \A i \in PlacesOf(r, t) : \E y \in 1 .. Len(f) : Covers(r, f[y][1], i)
  <2> TAKE i \in PlacesOf(r, t)
  <2>1. PICK y \in 1 .. Len(f) : f[y][1] <= i /\ i <= f[y][2]
    BY <1>4, <1>6, Zenon DEF Finds
  <2>2. Covers(r, f[y][1], i)
    BY <1>7, <2>1, Zenon DEF Covers
  <2> QED
    BY <2>2
<1>9. /\ acc \subseteq new /\ Apart(new)
      /\ \A x \in new : x \in acc \/ \E y \in 1 .. Len(f) : x = Mark(r, f[y][1])
      /\ \A y \in 1 .. Len(f) : Mark(r, f[y][1]) \in new \/ \E x \in acc : Clash(x, Mark(r, f[y][1]))
  BY <1>5, Zenon DEF Taken
<1>10. \A q : q \in 1 .. k + 1 <=> q \in 1 .. k \/ q = k + 1
  OBVIOUS
<1>11. \A x \in acc : \E q \in 1 .. k : \E i \in PlacesOf(rs[q], t) : x = Mark(rs[q], i)
  BY DEF SpansTo
<1>12. ASSUME NEW x \in new
       PROVE  \E q \in 1 .. k + 1 : \E i \in PlacesOf(rs[q], t) : x = Mark(rs[q], i)
  <2>1. CASE x \in acc
    BY <1>10, <1>11, <2>1, Zenon
  <2>2. CASE \E y \in 1 .. Len(f) : x = Mark(r, f[y][1])
    BY <1>7, <1>10, <2>2, Zenon DEF r
  <2> QED
    BY <1>9, <2>1, <2>2, Zenon
<1>13. ASSUME NEW y \in 1 .. Len(f) PROVE Held(new, rs, t, k + 1, f[y][1])
  <2>1. CASE Mark(r, f[y][1]) \in new
    BY <2>1, Zenon DEF Held, r
  <2>2. CASE \E x \in acc : Clash(x, Mark(r, f[y][1]))
    <3>1. PICK x \in acc : Clash(x, Mark(r, f[y][1]))
      BY <2>2
    <3>2. PICK q \in 1 .. k : \E i \in PlacesOf(rs[q], t) : x = Mark(rs[q], i)
      BY <1>11
    <3>3. q \in 1 .. (k + 1) - 1 /\ x \in new
      BY <1>9
    <3> QED
      BY <3>1, <3>2, <3>3, Zenon DEF Held, r
  <2> QED
    BY <1>9, <2>1, <2>2, Zenon
<1>14. ASSUME NEW q \in 1 .. k + 1, NEW i \in PlacesOf(rs[q], t)
       PROVE  \E j \in PlacesOf(rs[q], t) : Covers(rs[q], j, i) /\ Held(new, rs, t, q, j)
  <2>1. CASE q = k + 1
    BY <1>7, <1>8, <1>13, <2>1, Zenon DEF r
  <2>2. CASE q \in 1 .. k
    <3>1. PICK j \in PlacesOf(rs[q], t) : Covers(rs[q], j, i) /\ Held(acc, rs, t, q, j)
      BY <2>2, Zenon DEF SpansTo
    <3>2. Held(new, rs, t, q, j)
      BY <1>9, <3>1, HeldLonger, Zenon
    <3> QED
      BY <3>1, <3>2, Zenon
  <2> QED
    BY <1>10, <2>1, <2>2, Zenon
<1> QED
  BY <1>9, <1>12, <1>14, Zenon DEF SpansTo, new, r

\* Every span is an occurrence of its rule, no two clash, and an occurrence without
\* one begins in what a rule before has displaced.
LEMMA SpansRight ==
  ASSUME NEW A, NEW t \in Seq(A), NEW rs \in Seq(RuleOver(A))
  PROVE  SpansTo(Scan!Spans(rs, t), t, rs, Len(rs))
<1> DEFINE q == [text |-> t]
<1>1. q.text = t /\ Len(rs) \in Nat
  OBVIOUS
<1> HIDE DEF q
<1>2. PICK a : OneByOne(a, "rule", q, {}, rs) /\ Scan!Spans(rs, q.text) = a[Len(rs)]
  BY SpansOneByOne
<1> DEFINE S == {k \in 0 .. Len(rs) : SpansTo(a[k], t, rs, k)}
<1>3. 0 \in S
  <2>1. a[0] = {} /\ 0 \in 0 .. Len(rs)
    BY <1>1, <1>2 DEF OneByOne
  <2>2. \A y : y \notin 1 .. 0
    OBVIOUS
  <2>3. SpansTo({}, t, rs, 0)
    BY <2>2, Zenon DEF SpansTo, Apart
  <2> QED
    BY <2>1, <2>3
<1>4. ASSUME NEW k \in 0 .. Len(rs) - 1, k \in S PROVE k + 1 \in S
  <2>1. a[k + 1] = FoldStep("rule", q, a[k], rs[k + 1])
    BY <1>2 DEF OneByOne
  <2>2. k \in Nat /\ k < Len(rs) /\ k + 1 \in 0 .. Len(rs) /\ "rule" # "match" /\ "rule" # "find"
    BY <1>1
  <2>3. a[k + 1] = Scan!TakeRule(a[k], rs[k + 1], t)
    BY <1>1, <2>1, <2>2, Zenon DEF FoldStep
  <2>4. SpansTo(a[k], t, rs, k)
    BY <1>4
  <2>5. SpansTo(Scan!TakeRule(a[k], rs[k + 1], t), t, rs, k + 1)
    BY <2>2, <2>4, RuleTaken
  <2> QED
    BY <2>2, <2>3, <2>5
<1>5. Len(rs) \in 0 .. Len(rs)
  BY <1>1
<1> HIDE DEF S
<1>6. Len(rs) \in S
  BY <1>1, <1>3, <1>4, <1>5, UpTo
<1> QED
  BY <1>1, <1>2, <1>6 DEF S

-----------------------------------------------------------------------------
(* What a text becomes.                                                     *)

\* Spans in a text of n symbols.
Fit(spans, n) == /\ \A x \in spans : x.first \in 1 .. n /\ x.last \in x.first .. n
                 /\ Apart(spans)

\* The places of a redacted text: where a span begins, and what is in none.
Stays(spans, n) == Scan!Begins(spans) \cup {i \in 1 .. n : \A x \in spans : i \notin x.first .. x.last}

\* What is at place p of a redacted text accounts for the text up to e.
Ends(spans, p, e) == \/ p \notin Scan!Begins(spans) /\ e = p + 1
                     \/ \E x \in spans : x.first = p /\ e = x.last + 1

\* From what is at one place, the next place is where it ends, or the text ends there.
LEMMA NextStays ==
  ASSUME NEW n \in Nat, NEW spans, Fit(spans, n), NEW p \in Stays(spans, n), NEW e, Ends(spans, p, e)
  PROVE  /\ p \in Int /\ e \in Int /\ p < e
         /\ e \in Stays(spans, n) \/ e = n + 1
         /\ \A i \in Stays(spans, n) : i <= p \/ e <= i
<1>1. \A x \in spans : x.first \in 1 .. n /\ x.last \in x.first .. n
  BY DEF Fit
<1>2. \A x, y \in spans : x = y \/ x.last < y.first \/ y.last < x.first
  BY <1>1 DEF Fit, Apart, Clash
<1>3. Stays(spans, n) \in SUBSET (1 .. n)
  BY <1>1 DEF Stays, Scan!Begins
<1>4. ASSUME NEW i \in 1 .. n, i \notin Stays(spans, n)
      PROVE  \E x \in spans : x.first < i /\ i <= x.last
  <2>1. PICK x \in spans : i \in x.first .. x.last
    BY <1>4 DEF Stays
  <2>2. x.first # i
    BY <1>4 DEF Stays, Scan!Begins
  <2> QED
    BY <1>1, <2>1, <2>2
<1>5. \A i \in Stays(spans, n) : \A x \in spans : ~(x.first < i /\ i <= x.last)
  <2> SUFFICES ASSUME NEW i \in Stays(spans, n), NEW x \in spans, x.first < i, i <= x.last PROVE FALSE
    OBVIOUS
  <2>1. i \in x.first .. x.last
    BY <1>1, <1>3
  <2>2. i \in Scan!Begins(spans)
    BY <2>1, Zenon DEF Stays
  <2>3. PICK y \in spans : y.first = i
    BY <2>2, Zenon DEF Scan!Begins
  <2>4. x = y \/ x.last < y.first \/ y.last < x.first
    BY <1>2
  <2> QED
    BY <1>1, <2>3, <2>4
<1>6. p \in 1 .. n
  BY <1>3
<1>7. CASE p \notin Scan!Begins(spans) /\ e = p + 1
  <2>1. e = n + 1 \/ e \in 1 .. n
    BY <1>6, <1>7
  <2>2. e \in Stays(spans, n) \/ e = n + 1
    <3> SUFFICES ASSUME e \in 1 .. n, e \notin Stays(spans, n) PROVE FALSE
      BY <2>1
    <3>1. PICK x \in spans : x.first < e /\ e <= x.last
      BY <1>4
    <3>2. p \in x.first .. x.last
      BY <1>1, <1>6, <1>7, <3>1
    <3> QED
      BY <1>7, <3>2, Zenon DEF Stays
  <2>3. \A i \in 1 .. n : i <= p \/ e <= i
    BY <1>6, <1>7
  <2> QED
    BY <1>3, <1>6, <1>7, <2>2, <2>3
<1>8. CASE \E x \in spans : x.first = p /\ e = x.last + 1
  <2>1. PICK x \in spans : x.first = p /\ e = x.last + 1
    BY <1>8
  <2>2. e = n + 1 \/ e \in 1 .. n
    BY <1>1, <1>6, <2>1
  <2>3. e \in Stays(spans, n) \/ e = n + 1
    <3> SUFFICES ASSUME e \in 1 .. n, e \notin Stays(spans, n) PROVE FALSE
      BY <2>2
    <3>1. PICK y \in spans : y.first < e /\ e <= y.last
      BY <1>4
    <3>2. x = y \/ x.last < y.first \/ y.last < x.first
      BY <1>2
    <3> QED
      BY <1>1, <2>1, <3>1, <3>2
  <2>4. \A i \in Stays(spans, n) : i <= p \/ e <= i
    <3> TAKE i \in Stays(spans, n)
    <3>1. ~(x.first < i /\ i <= x.last) /\ i \in 1 .. n
      BY <1>3, <1>5
    <3> QED
      BY <1>1, <1>6, <2>1, <3>1
  <2>5. e \in Int /\ p < e
    BY <1>1, <1>6, <2>1
  <2> QED
    BY <1>6, <2>3, <2>4, <2>5
<1> QED
  BY <1>7, <1>8, Zenon DEF Ends

\* A redacted text begins at its first place.
LEMMA FirstStays ==
  ASSUME NEW n \in Nat, n # 0, NEW spans, Fit(spans, n)
  PROVE  1 \in Stays(spans, n)
<1>1. \A x \in spans : x.first \in 1 .. n /\ x.last \in x.first .. n
  BY DEF Fit
<1>2. CASE \A x \in spans : 1 \notin x.first .. x.last
  <2>1. 1 \in 1 .. n
    OBVIOUS
  <2> QED
    BY <1>2, <2>1, Zenon DEF Stays
<1>3. CASE \E x \in spans : 1 \in x.first .. x.last
  <2>1. PICK x \in spans : 1 \in x.first .. x.last
    BY <1>3
  <2>2. x.first = 1
    BY <1>1, <2>1
  <2> QED
    BY <2>2 DEF Stays, Scan!Begins
<1> QED
  BY <1>2, <1>3, Zenon

\* out has, in the order of the places to, what stays and a placeholder for each span.
Redaction(out, to, spans, n) ==
  /\ Len(to) \in Nat /\ Len(out) = Len(to) /\ DOMAIN out = 1 .. Len(to)
  /\ \A k \in 1 .. Len(to) : to[k] \in Stays(spans, n)
  /\ \A p \in Stays(spans, n) : \E k \in 1 .. Len(to) : to[k] = p
  /\ \A j, k \in 1 .. Len(to) : j < k => to[j] < to[k]
  /\ \A k \in 1 .. Len(to) :
       \/ to[k] \notin Scan!Begins(spans) /\ out[k] = Scan!Symbol(to[k])
       \/ \E x \in spans : x.first = to[k] /\ out[k] = Scan!Placeholder(x.id)

\* A redacted text has something for each of its places, in their order.
LEMMA RedactedRight ==
  ASSUME NEW A, NEW v \in Seq(A), NEW spans, Fit(spans, Len(v))
  PROVE  \E to : Redaction(Scan!Redacted(v, spans), to, spans, Len(v))
<1> DEFINE n == Len(v)
           P == Stays(spans, n)
           R == {x \in P \X P : x[1] < x[2]}
           to == Arranged(P, R)
           out == Scan!Redacted(v, spans)
<1>1. n \in Nat /\ DOMAIN v = 1 .. n
  OBVIOUS
<1>2. P \in SUBSET (1 .. n)
  BY <1>1 DEF Stays, Scan!Begins, Fit
<1>3. IsFiniteSet(P)
  <2>1. IsFiniteSet(1 .. n)
    BY <1>1, FS_Interval
  <2> QED
    BY <1>2, <2>1, FS_Subset
<1>4. \A x, y \in P : <<x, y>> \in R <=> x < y
  OBVIOUS
<1>5. Orders(R, P)
  <2> HIDE DEF R, P
  <2>1. \A x \in P : x \in Int
    BY <1>1, <1>2
  <2> QED
    BY <1>4, <2>1 DEF Orders
<1>6. Ranked(to, P, R)
  BY <1>3, <1>5, ArrangedRanks
<1>7. DOMAIN to = 1 .. Len(to) /\ Len(to) \in Nat
  <2>1. to \in Seq(P)
    BY <1>6, Zenon DEF Ranked
  <2> HIDE DEF to, P, R
  <2> QED
    BY <2>1
<1>8. out = [k \in 1 .. Len(to) |->
               IF to[k] \in Scan!Begins(spans)
               THEN Scan!Placeholder((CHOOSE x \in spans : x.first = to[k]).id)
               ELSE Scan!Symbol(to[k])]
  <2>1. Scan!Stays(v, spans) = P
    BY <1>1, Zenon DEF Scan!Stays, Stays
  <2>2. Scan!Ascending(P) = to
    BY SameArranged, Zenon DEF Scan!Ascending
  <2> HIDE DEF to, P, n
  <2>3. Scan!Ascending(Scan!Stays(v, spans)) = to
    BY <2>1, <2>2
  <2>4. out = Scan!Marked(to, spans)
    BY <2>3, Zenon DEF Scan!Redacted
  <2> HIDE DEF out
  <2> QED
    BY <1>7, <2>4, Zenon DEF Scan!Marked
<1> HIDE DEF out, n
<1>9. /\ \A p \in P : \E k \in 1 .. Len(to) : to[k] = p
      /\ \A j, k \in 1 .. Len(to) : j < k => <<to[j], to[k]>> \in R
      /\ \A k \in 1 .. Len(to) : to[k] \in P
  <2>1. to \in Seq(P)
    BY <1>6, Zenon DEF Ranked
  <2>2. \A k \in 1 .. Len(to) : to[k] \in P
    <3> HIDE DEF to, P, R
    <3> QED
      BY <2>1
  <2> HIDE DEF to, P, R
  <2> QED
    BY <1>6, <2>2, Zenon DEF Ranked
<1> HIDE DEF to, P
<1>10. \A j, k \in 1 .. Len(to) : j < k => to[j] < to[k]
  BY <1>4, <1>9
<1>11. ASSUME NEW k \in 1 .. Len(to)
       PROVE  \/ to[k] \notin Scan!Begins(spans) /\ out[k] = Scan!Symbol(to[k])
              \/ \E x \in spans : x.first = to[k] /\ out[k] = Scan!Placeholder(x.id)
  <2>1. CASE to[k] \notin Scan!Begins(spans)
    BY <1>8, <2>1, Zenon
  <2>2. CASE to[k] \in Scan!Begins(spans)
    <3> DEFINE x == CHOOSE x \in spans : x.first = to[k]
    <3>1. out[k] = Scan!Placeholder(x.id)
      BY <1>8, <2>2, Zenon
    <3>2. x \in spans /\ x.first = to[k]
      BY <2>2, Zenon DEF Scan!Begins
    <3> QED
      BY <3>1, <3>2, Zenon
  <2> QED
    BY <2>1, <2>2
<1>12. DOMAIN out = 1 .. Len(to) /\ Len(out) = Len(to)
  <2>1. DOMAIN out = 1 .. Len(to)
    BY <1>8
  <2>2. out = [k \in 1 .. Len(to) |-> out[k]]
    BY <1>8
  <2> QED
    BY ONLY <1>7, <2>1, <2>2
<1>13. Redaction(out, to, spans, n)
  BY <1>7, <1>9, <1>10, <1>11, <1>12, Zenon DEF Redaction, P
<1> QED
  BY <1>13, Zenon DEF out, n

-----------------------------------------------------------------------------
(* What a redacted text accounts for.                                       *)

\* Spans of rules in a text.
Marks(spans, rs, t) ==
  \A x \in spans : \E q \in 1 .. Len(rs) : \E i \in PlacesOf(rs[q], t) : x = Mark(rs[q], i)

\* A rule is known by its id.
Known(rs) == \A i, j \in 1 .. Len(rs) : rs[i].id = rs[j].id => i = j

\* A pattern has at least one symbol.
LEMMA PatternSize ==
  ASSUME NEW A, NEW rs \in Seq(RuleOver(A)), NEW q \in 1 .. Len(rs)
  PROVE  rs[q].pattern \in Seq(A) /\ rs[q].pattern # << >> /\ Len(rs[q].pattern) \in Nat \ {0}
<1>1. rs[q] \in RuleOver(A)
  OBVIOUS
<1>2. rs[q].pattern \in Seq(A) \ {<< >>}
  BY <1>1, Zenon DEF RuleOver
<1> QED
  BY <1>2

\* Spans of occurrences are within the text.
LEMMA MarksFit ==
  ASSUME NEW A, NEW v \in Seq(A), NEW rs \in Seq(RuleOver(A)), NEW spans, Marks(spans, rs, v), Apart(spans)
  PROVE  Fit(spans, Len(v))
<1>1. ASSUME NEW x \in spans PROVE x.first \in 1 .. Len(v) /\ x.last \in x.first .. Len(v)
  <2>1. PICK q \in 1 .. Len(rs) : \E i \in PlacesOf(rs[q], v) : x = Mark(rs[q], i)
    BY Zenon DEF Marks
  <2>2. PICK i \in PlacesOf(rs[q], v) : x = Mark(rs[q], i)
    BY <2>1
  <2>3. i \in 1 .. Len(v) - Len(rs[q].pattern) + 1
    BY <2>2, Zenon DEF PlacesOf, Scan!Places
  <2>4. Len(v) \in Nat /\ Len(rs[q].pattern) \in Nat \ {0}
    BY PatternSize
  <2>5. /\ x.first = i /\ x.last = i + Len(rs[q].pattern) - 1
        /\ i \in 1 .. Len(v) /\ i + Len(rs[q].pattern) - 1 \in i .. Len(v)
    <3>1. /\ Mark(rs[q], i).first = i /\ Mark(rs[q], i).last = i + Len(rs[q].pattern) - 1
          /\ i \in 1 .. Len(v) /\ i + Len(rs[q].pattern) - 1 \in i .. Len(v)
      <4>1. i \in 1 .. Len(v) /\ i + Len(rs[q].pattern) - 1 \in i .. Len(v)
        BY ONLY <2>3, <2>4
      <4> QED
        BY <4>1 DEF Mark
    <3> QED
      BY <2>2, <3>1
  <2> QED
    BY <2>5, Zenon
<1> QED
  BY <1>1, Zenon DEF Fit

\* What accounts for a symbol of a redacted text is where its span ends: no other rule has
\* the id of its placeholder.
LEMMA AfterRight ==
  ASSUME NEW A, NEW v \in Seq(A), NEW rs \in Seq(RuleOver(A)), Known(rs), NEW spans, Marks(spans, rs, v),
         NEW p \in 1 .. Len(v), NEW o,
         \/ p \notin Scan!Begins(spans) /\ o = Scan!Symbol(p)
         \/ \E x \in spans : x.first = p /\ o = Scan!Placeholder(x.id)
  PROVE  Ends(spans, p, Scan!After(p, o, v, rs))
<1>1. CASE p \notin Scan!Begins(spans) /\ o = Scan!Symbol(p)
  <2>1. o.at = p /\ p # 0
    BY <1>1 DEF Scan!Symbol
  <2>2. Scan!After(p, o, v, rs) = p + 1
    BY <2>1, Zenon DEF Scan!After
  <2> QED
    BY <1>1, <2>2, Zenon DEF Ends
<1>2. CASE \E x \in spans : x.first = p /\ o = Scan!Placeholder(x.id)
  <2>1. PICK x \in spans : x.first = p /\ o = Scan!Placeholder(x.id)
    BY <1>2
  <2>2. PICK q \in 1 .. Len(rs) : \E i \in PlacesOf(rs[q], v) : x = Mark(rs[q], i)
    BY Zenon DEF Marks
  <2>3. PICK i \in PlacesOf(rs[q], v) : x = Mark(rs[q], i)
    BY <2>2
  <2>4. x.first = i /\ x.last = i + Len(rs[q].pattern) - 1 /\ x.id = rs[q].id
    BY <2>3 DEF Mark
  <2>5. o.at = 0 /\ o.id = rs[q].id
    BY <2>1, <2>4 DEF Scan!Placeholder
  <2>6. DOMAIN rs = 1 .. Len(rs)
    OBVIOUS
  <2>7. Scan!StandsFor(o, p, v, rs) = {rs[q]}
    <3>1. ASSUME NEW r \in Scan!StandsFor(o, p, v, rs) PROVE r = rs[q]
      <4>1. PICK h \in 1 .. Len(rs) : r = rs[h] /\ r.id = o.id
        BY <2>6, Zenon DEF Scan!StandsFor
      <4>2. rs[h].id = rs[q].id
        BY <2>5, <4>1, Zenon
      <4> QED
        BY <4>1, <4>2, Zenon DEF Known
    <3>2. rs[q] \in Scan!StandsFor(o, p, v, rs)
      BY <2>1, <2>3, <2>4, <2>5, <2>6, Zenon DEF Scan!StandsFor, PlacesOf
    <3> QED
      BY <3>1, <3>2, Zenon
  <2>8. Scan!After(p, o, v, rs) = p + Len(rs[q].pattern)
    <3>1. (CHOOSE r \in {rs[q]} : TRUE) = rs[q] /\ {rs[q]} # {}
      BY Zenon
    <3> QED
      BY <2>5, <2>7, <3>1, Zenon DEF Scan!After
  <2>9. p + Len(rs[q].pattern) = x.last + 1
    <3>1. Len(rs[q].pattern) \in Int /\ p \in Int /\ x.last = p + Len(rs[q].pattern) - 1
      BY <2>1, <2>4, PatternSize
    <3> QED
      BY ONLY <3>1
  <2> QED
    BY <2>1, <2>8, <2>9, Zenon DEF Ends
<1> QED
  BY <1>1, <1>2, Zenon

\* The places of what is there after a redaction are in their order.
NextIs(to, n, k, e) == /\ k + 1 < Len(to) => e = to[k + 2]
                       /\ k + 1 = Len(to) => e = n + 1

\* So the next symbol is at the next place.
LEMMA NextPlace ==
  ASSUME NEW n \in Nat, NEW spans, Fit(spans, n), NEW out, NEW to, Redaction(out, to, spans, n),
         NEW k \in 0 .. Len(to) - 1, NEW p, p = to[k + 1],
         NEW e, Ends(spans, p, e)
  PROVE  NextIs(to, n, k, e)
<1>1. /\ Len(to) \in Nat
      /\ \A j \in 1 .. Len(to) : to[j] \in Stays(spans, n)
      /\ \A h \in Stays(spans, n) : \E j \in 1 .. Len(to) : to[j] = h
      /\ \A i, j \in 1 .. Len(to) : i < j => to[i] < to[j]
  BY Zenon DEF Redaction
<1>2. k + 1 \in 1 .. Len(to) /\ to[k + 1] \in Stays(spans, n)
  BY <1>1
<1>3. /\ to[k + 1] \in Int /\ e \in Int /\ to[k + 1] < e
      /\ e \in Stays(spans, n) \/ e = n + 1
      /\ \A i \in Stays(spans, n) : i <= to[k + 1] \/ e <= i
  BY <1>2, NextStays
<1>4. \A i \in Stays(spans, n) : i \in 1 .. n
  BY DEF Stays, Fit, Scan!Begins
<1>5. \A j \in 1 .. Len(to) : to[j] = e => k + 1 < j
  <2> TAKE j \in 1 .. Len(to)
  <2> HAVE to[j] = e
  <2>1. ~(j = k + 1) /\ ~(j < k + 1)
    <3>1. to[j] \in Int /\ ~(to[j] < to[k + 1]) /\ to[j] # to[k + 1]
      BY <1>3
    <3> QED
      BY <1>1, <1>2, <3>1
  <2> QED
    BY <1>1, <2>1
<1>6. CASE k + 1 < Len(to)
  <2>1. k + 2 \in 1 .. Len(to) /\ k + 1 < k + 2
    BY <1>1, <1>6
  <2>2. to[k + 2] \in 1 .. n /\ to[k + 1] < to[k + 2] /\ to[k + 2] \in Stays(spans, n)
    BY <1>1, <1>2, <1>4, <2>1
  <2>3. e <= to[k + 2]
    BY <1>3, <2>2
  <2>4. e \in Stays(spans, n)
    BY <1>3, <2>2, <2>3
  <2>5. PICK j \in 1 .. Len(to) : to[j] = e
    BY <1>1, <2>4
  <2>6. j = k + 2 \/ k + 2 < j
    BY <1>5, <2>5
  <2>7. k + 2 < j => to[k + 2] < e
    BY <1>1, <2>1, <2>5
  <2>8. j = k + 2
    BY <1>3, <2>2, <2>3, <2>6, <2>7
  <2> QED
    BY <1>6, <2>5, <2>8 DEF NextIs
<1>7. CASE k + 1 = Len(to)
  <2>1. e \notin Stays(spans, n)
    BY <1>1, <1>5, <1>7
  <2> QED
    BY <1>3, <1>7, <2>1 DEF NextIs
<1> QED
  BY <1>1, <1>6, <1>7 DEF NextIs

\* A redacted text accounts for the whole of what it was.
LEMMA AccountedRight ==
  ASSUME NEW A, NEW v \in Seq(A), NEW rs \in Seq(RuleOver(A)), Known(rs), NEW spans,
         Marks(spans, rs, v), Apart(spans)
  PROVE  Scan!Accounted(Scan!Redacted(v, spans), v, rs)
<1> DEFINE out == Scan!Redacted(v, spans)
           L == Len(v)
           q == [text |-> v, rules |-> rs]
<1>1. Fit(spans, L) /\ L \in Nat
  BY MarksFit
<1>2. q.text = v /\ q.rules = rs
  OBVIOUS
<1> HIDE DEF out, L, q
<1>3. PICK to : Redaction(out, to, spans, L)
  BY <1>1, RedactedRight DEF out, L
<1>4. /\ Len(to) \in Nat /\ Len(out) = Len(to) /\ DOMAIN out = 1 .. Len(to)
      /\ \A j \in 1 .. Len(to) : to[j] \in Stays(spans, L)
      /\ \A p \in Stays(spans, L) : \E j \in 1 .. Len(to) : to[j] = p
      /\ \A i, j \in 1 .. Len(to) : i < j => to[i] < to[j]
      /\ \A k \in 1 .. Len(to) :
           \/ to[k] \notin Scan!Begins(spans) /\ out[k] = Scan!Symbol(to[k])
           \/ \E x \in spans : x.first = to[k] /\ out[k] = Scan!Placeholder(x.id)
  BY <1>3, Zenon DEF Redaction
<1>5. \A i \in Stays(spans, L) : i \in 1 .. L
  BY <1>1 DEF Stays, Fit, Scan!Begins
<1>6. \E T : out \in Seq(T)
  <2>1. out = [k \in 1 .. Len(to) |-> out[k]]
    <3>1. out = Scan!Marked(Scan!Ascending(Scan!Stays(v, spans)), spans)
      BY Zenon DEF out, Scan!Redacted
    <3>2. out = [k \in DOMAIN out |-> out[k]]
      BY <3>1 DEF Scan!Marked
    <3> QED
      BY <1>4, <3>2
  <2>2. out \in Seq({out[k] : k \in 1 .. Len(to)})
    BY <1>4, <2>1
  <2> QED
    BY <2>2
<1>7. PICK T : out \in Seq(T)
  BY <1>6
<1>8. PICK a : /\ OneByOne(a, "account", q, 1, out)
               /\ Scan!Accounted(out, q.text, q.rules) <=> a[Len(out)] = Len(q.text) + 1
  BY <1>7, AccountedOneByOne
<1> DEFINE stand(k) == /\ k < Len(to) => a[k] = to[k + 1]
                       /\ k = Len(to) => a[k] = L + 1
           S == {k \in 0 .. Len(to) : stand(k)}
<1>9. 0 \in S
  <2>1. a[0] = 1
    BY <1>8 DEF OneByOne
  <2>2. CASE Len(to) = 0
    <3>1. 1 \notin Stays(spans, L)
      BY <1>4, <2>2
    <3>2. L = 0
      BY <1>1, <3>1, FirstStays
    <3> QED
      BY <2>1, <2>2, <3>2
  <2>3. CASE Len(to) # 0
    <3>1. 1 \in 1 .. Len(to) /\ to[1] \in 1 .. L
      BY <1>4, <1>5, <2>3
    <3>2. 1 \in Stays(spans, L)
      BY <1>1, <3>1, FirstStays
    <3>3. PICK j \in 1 .. Len(to) : to[j] = 1
      BY <1>4, <3>2
    <3>4. j = 1 \/ 1 < j
      BY <1>4
    <3>5. to[1] = 1
      BY <1>4, <3>1, <3>3, <3>4
    <3> QED
      BY <1>4, <2>1, <2>3, <3>5
  <2> QED
    BY <2>2, <2>3
<1>10. ASSUME NEW k \in 0 .. Len(to) - 1, k \in S PROVE k + 1 \in S
  <2>1. a[k + 1] = FoldStep("account", q, a[k], out[k + 1])
    BY <1>4, <1>8 DEF OneByOne
  <2>2. /\ k + 1 \in 1 .. Len(to) /\ k + 1 \in 0 .. Len(to) /\ a[k] = to[k + 1] /\ k < Len(to)
        /\ (k + 1) + 1 = k + 2
    <3>1. Len(to) \in Nat
      BY <1>4
    <3>2. k + 1 \in 1 .. Len(to) /\ k + 1 \in 0 .. Len(to) /\ k < Len(to) /\ (k + 1) + 1 = k + 2
      BY ONLY <3>1, k \in 0 .. Len(to) - 1
    <3>3. stand(k)
      BY <1>10
    <3> QED
      BY <3>2, <3>3
  <2>3. /\ "account" # "match" /\ "account" # "find" /\ "account" # "rule" /\ "account" # "piece"
        /\ "account" # "size"
    OBVIOUS
  <2>4. a[k + 1] = Scan!After(to[k + 1], out[k + 1], v, rs)
    BY <1>2, <2>1, <2>2, <2>3, Zenon DEF FoldStep
  <2>5. to[k + 1] \in 1 .. Len(v)
    BY <1>4, <1>5, <2>2, Zenon DEF L
  <2>6. Ends(spans, to[k + 1], Scan!After(to[k + 1], out[k + 1], v, rs))
    BY <1>4, <2>2, <2>5, AfterRight
  <2>7. Ends(spans, to[k + 1], a[k + 1])
    BY <2>4, <2>6
  <2>8. /\ k + 1 < Len(to) => a[k + 1] = to[k + 2]
        /\ k + 1 = Len(to) => a[k + 1] = L + 1
    <3> DEFINE e == a[k + 1]
               p == to[k + 1]
    <3>1. Ends(spans, p, e) /\ p = to[k + 1]
      BY <2>7
    <3> HIDE DEF e, p
    <3>2. NextIs(to, L, k, e)
      BY ONLY <1>1, <1>3, <3>1, NextPlace, k \in 0 .. Len(to) - 1
    <3> QED
      BY <3>2 DEF e, NextIs
  <2> QED
    BY <2>2, <2>8
<1>11. Len(to) \in 0 .. Len(to)
  BY <1>4
<1> HIDE DEF S
<1>12. Len(to) \in S
  BY <1>4, <1>9, <1>10, <1>11, UpTo
<1>13. a[Len(out)] = Len(v) + 1
  BY <1>4, <1>12 DEF S, L
<1> QED
  BY <1>2, <1>8, <1>13, Zenon DEF out

-----------------------------------------------------------------------------
(* A field that is scanned.                                                 *)

\* Without spans a text stays what it is.
LEMMA WholeRedacted ==
  ASSUME NEW A, NEW v \in Seq(A)
  PROVE  Scan!Redacted(v, {}) = Scan!Whole(v)
<1> DEFINE n == Len(v)
           out == Scan!Redacted(v, {})
<1>1. n \in Nat /\ DOMAIN v = 1 .. n
  OBVIOUS
<1> HIDE DEF n, out
<1>2. Fit({}, n)
  BY Zenon DEF Fit, Apart
<1>3. PICK to : Redaction(out, to, {}, n)
  BY <1>2, RedactedRight DEF n, out
<1>4. \A p : p \notin Scan!Begins({})
  BY DEF Scan!Begins
<1>5. \A p : p \in Stays({}, n) <=> p \in 1 .. n
  BY <1>4 DEF Stays
<1>6. /\ Len(to) \in Nat /\ Len(out) = Len(to) /\ DOMAIN out = 1 .. Len(to)
      /\ \A j \in 1 .. Len(to) : to[j] \in 1 .. n
      /\ \A p \in 1 .. n : \E j \in 1 .. Len(to) : to[j] = p
      /\ \A i, j \in 1 .. Len(to) : i < j => to[i] < to[j]
      /\ \A k \in 1 .. Len(to) : out[k] = Scan!Symbol(to[k])
  BY <1>3, <1>4, <1>5, Zenon DEF Redaction
<1> DEFINE S == {k \in 0 .. Len(to) : (k < Len(to) => to[k + 1] = k + 1) /\ (k = Len(to) => n = k)}
<1>7. 0 \in S
  <2>1. CASE Len(to) = 0
    <3>1. n = 0
      BY <1>1, <1>6, <2>1
    <3> QED
      BY <2>1, <3>1
  <2>2. CASE Len(to) # 0
    <3>1. 1 \in 1 .. Len(to) /\ to[1] \in 1 .. n
      BY <1>6, <2>2
    <3>2. 1 \in 1 .. n
      BY <1>1, <3>1
    <3>3. PICK j \in 1 .. Len(to) : to[j] = 1
      BY <1>6, <3>2
    <3>4. j = 1 \/ 1 < j
      BY <1>6
    <3>5. to[1] = 1
      BY <1>6, <3>1, <3>3, <3>4
    <3> QED
      BY <1>6, <2>2, <3>5
  <2> QED
    BY <2>1, <2>2
<1>8. ASSUME NEW k \in 0 .. Len(to) - 1, k \in S PROVE k + 1 \in S
  <2> DEFINE p == to[k + 1]
             e == p + 1
  <2>1. k < Len(to) /\ k + 1 \in 0 .. Len(to)
    BY <1>6
  <2>2. p = k + 1 /\ e = k + 2 /\ p = to[k + 1]
    BY <1>8, <2>1
  <2>3. Ends({}, p, e)
    BY <1>4, Zenon DEF Ends
  <2> HIDE DEF p, e, S
  <2>4. NextIs(to, n, k, e)
    BY ONLY <1>1, <1>2, <1>3, <2>2, <2>3, NextPlace, k \in 0 .. Len(to) - 1
  <2>5. (k + 1 < Len(to) => to[k + 2] = k + 2) /\ (k + 1 = Len(to) => n = k + 1)
    BY <1>1, <2>2, <2>4 DEF NextIs
  <2>6. (k + 1) + 1 = k + 2
    OBVIOUS
  <2> QED
    BY <2>1, <2>5, <2>6 DEF S
<1>9. Len(to) \in 0 .. Len(to)
  BY <1>6
<1>10. \A k \in 0 .. Len(to) : k \in S
  <2> HIDE DEF S
  <2> QED
    BY <1>6, <1>7, <1>8, UpTo
<1>11. n = Len(to)
  BY <1>9, <1>10
<1>12. \A k \in 1 .. n : to[k] = k
  <2> TAKE k \in 1 .. n
  <2>1. k - 1 \in 0 .. Len(to) /\ k - 1 < Len(to) /\ (k - 1) + 1 = k
    BY <1>1, <1>11
  <2>2. k - 1 \in S
    BY <1>10, <2>1
  <2> QED
    BY <2>1, <2>2
<1>13. out = [k \in 1 .. n |-> out[k]]
  <2>1. out = Scan!Marked(Scan!Ascending(Scan!Stays(v, {})), {})
    BY Zenon DEF out, Scan!Redacted
  <2>2. out = [k \in DOMAIN out |-> out[k]]
    BY <2>1 DEF Scan!Marked
  <2> QED
    BY <1>6, <1>11, <2>2
<1>14. \A k \in 1 .. n : out[k] = Scan!Symbol(k)
  BY <1>6, <1>11, <1>12, Zenon
<1> QED
  BY <1>1, <1>13, <1>14, Zenon DEF out, Scan!Whole

\* Within the first n symbols of a text the occurrences are those of the text.
InPrefix(r, v, t, n) ==
  /\ PlacesOf(r, t) = Scan!Places(v, r.pattern, n)
  /\ PlacesOf(r, t) \subseteq PlacesOf(r, v)
  /\ \A i \in PlacesOf(r, t) : i \in 1 .. n

\* It is so of every pattern with a symbol.
LEMMA PlacesInPrefix ==
  ASSUME NEW A, NEW v \in Seq(A), NEW n \in 0 .. Len(v), NEW t, t = SubSeq(v, 1, n),
         NEW r, r.pattern \in Seq(A), r.pattern # << >>
  PROVE  InPrefix(r, v, t, n)
<1> DEFINE l == Len(r.pattern)
<1>1. t \in Seq(A) /\ Len(t) = n /\ \A i \in 1 .. n : t[i] = v[i]
  OBVIOUS
<1>2. l \in Nat \ {0}
  OBVIOUS
<1> HIDE DEF l
<1>3. ASSUME NEW i \in 1 .. n - l + 1 PROVE SubSeq(t, i, i + l - 1) = SubSeq(v, i, i + l - 1)
  <2>1. \A k \in 1 .. l : i + k - 1 \in 1 .. n
    BY <1>2
  <2>2. i \in 1 .. n /\ i + l - 1 \in 1 .. n /\ i <= i + l - 1
    BY <1>2
  <2>3. \A k \in i .. i + l - 1 : t[k] = v[k]
    BY <1>1, <1>2
  <2> QED
    BY <1>1, <1>2, <2>1, <2>2, <2>3
<1>4. \A i \in 1 .. n - l + 1 : Scan!Matches(t, r.pattern, i) <=> Scan!Matches(v, r.pattern, i)
  BY <1>3, Zenon DEF Scan!Matches, l
<1>5. PlacesOf(r, t) = {i \in 1 .. n - l + 1 : Scan!Matches(t, r.pattern, i)}
  BY <1>1, Zenon DEF PlacesOf, Scan!Places, l
<1>6. Scan!Places(v, r.pattern, n) = {i \in 1 .. n - l + 1 : Scan!Matches(v, r.pattern, i)}
  BY Zenon DEF Scan!Places, l
<1>7. PlacesOf(r, v) = {i \in 1 .. Len(v) - l + 1 : Scan!Matches(v, r.pattern, i)}
  BY Zenon DEF PlacesOf, Scan!Places, l
<1>8. \A i \in 1 .. n - l + 1 : i \in 1 .. Len(v) - l + 1 /\ i \in 1 .. n
  BY <1>2
<1> QED
  BY <1>1, <1>4, <1>5, <1>6, <1>7, <1>8 DEF InPrefix

\* Rules in the order they are taken.
Sorted(rs) == \A p, q \in 1 .. Len(rs) : p < q => Scan!Precedes(rs[p], rs[q])

\* What has a span is gone, what has none is displaced.
LEMMA GoneWithSpan ==
  ASSUME NEW A, NEW v \in Seq(A), NEW spans, Fit(spans, Len(v)), NEW r, Len(r.pattern) \in Nat \ {0},
         NEW x \in spans, NEW i \in 1 .. Len(v), x.first <= i, i <= x.last
  PROVE  Scan!Gone(Scan!Redacted(v, spans), r, i)
<1> DEFINE out == Scan!Redacted(v, spans)
<1>1. PICK to : Redaction(out, to, spans, Len(v))
  BY RedactedRight
<1>2. i \in x.first .. x.last
  BY DEF Fit
<1> HIDE DEF out
<1>3. ASSUME NEW k \in DOMAIN out PROVE out[k] # Scan!Symbol(i)
  <2>1. k \in 1 .. Len(to)
    BY <1>1 DEF Redaction
  <2>2. /\ to[k] \in Stays(spans, Len(v))
        /\ \/ to[k] \notin Scan!Begins(spans) /\ out[k] = Scan!Symbol(to[k])
           \/ \E y \in spans : y.first = to[k] /\ out[k] = Scan!Placeholder(y.id)
    BY <1>1, <2>1, Zenon DEF Redaction
  <2>3. CASE to[k] \notin Scan!Begins(spans) /\ out[k] = Scan!Symbol(to[k])
    <3>1. to[k] \notin x.first .. x.last
      BY <2>2, <2>3, Zenon DEF Stays
    <3>2. Scan!Symbol(to[k]).at = to[k] /\ Scan!Symbol(i).at = i
      BY DEF Scan!Symbol
    <3> QED
      BY <1>2, <2>3, <3>1, <3>2, Zenon
  <2>4. CASE \E y \in spans : y.first = to[k] /\ out[k] = Scan!Placeholder(y.id)
    <3>1. PICK y \in spans : out[k] = Scan!Placeholder(y.id)
      BY <2>4
    <3>2. out[k].at = 0 /\ Scan!Symbol(i).at = i /\ i # 0
      BY <3>1 DEF Scan!Symbol, Scan!Placeholder
    <3> QED
      BY <3>2, Zenon
  <2> QED
    BY <2>2, <2>3, <2>4, Zenon
<1>4. i \in i .. i + Len(r.pattern) - 1
  OBVIOUS
<1> QED
  BY <1>3, <1>4, Zenon DEF Scan!Gone, out

\* An occurrence within one that a rule before displaces is displaced.
LEMMA DisplacedWithout ==
  ASSUME NEW v, NEW n, NEW rs, DOMAIN rs = 1 .. Len(rs), Len(rs) \in Nat, Sorted(rs), NEW q \in 1 .. Len(rs),
         NEW p \in 1 .. q - 1, NEW h \in Scan!Places(v, rs[p].pattern, n),
         NEW j \in Scan!Places(v, rs[q].pattern, n), Clash(Mark(rs[p], h), Mark(rs[q], j)),
         NEW i \in Nat, j \in Nat, Len(rs[q].pattern) \in Nat \ {0}, Covers(rs[q], j, i)
  PROVE  Scan!Displaced(v, rs, rs[q], i, n)
<1>1. p \in DOMAIN rs /\ Scan!Precedes(rs[p], rs[q])
  <2>1. p \in 1 .. Len(rs) /\ p < q
    OBVIOUS
  <2> QED
    BY <2>1, Zenon DEF Sorted
<1>2. Scan!Overlap(Scan!Span(rs[p], h), Scan!Span(rs[q], j))
  BY DEF Clash, Mark, Scan!Overlap, Scan!Span
<1>3. Scan!Better(v, rs, rs[q], j, n)
  BY <1>1, <1>2, Zenon DEF Scan!Better
<1>4. CASE i = j
  BY <1>3, <1>4, Zenon DEF Scan!Displaced
<1>5. CASE i # j
  <2>1. j < i /\ i <= j + Len(rs[q].pattern) - 1
    BY <1>5 DEF Covers
  <2>2. j <= i + Len(rs[q].pattern) - 1
    BY <2>1
  <2>3. Scan!Overlap(Scan!Span(rs[q], j), Scan!Span(rs[q], i))
    BY <2>1, <2>2 DEF Scan!Overlap, Scan!Span
  <2> QED
    BY <1>3, <2>1, <2>3, Zenon DEF Scan!Displaced
<1> QED
  BY <1>4, <1>5

\* The rules of a scan: each is known by its id, and they are in their order.
Usable(rs) == Known(rs) /\ Sorted(rs)

\* A field of which the first n symbols are scanned keeps what it should.
LEMMA FieldScanned ==
  ASSUME NEW A, NEW v \in Seq(A), NEW rs \in Seq(RuleOver(A)), Usable(rs), NEW n \in 0 .. Len(v),
         NEW s, s.redact \in BOOLEAN, NEW spans, spans = Scan!Spans(rs, SubSeq(v, 1, n))
  PROVE  Scan!FieldKept(s, rs, v, n, Scan!Replaced(v, n, Scan!Replacing(s, spans)))
<1> DEFINE t == SubSeq(v, 1, n)
           gone == Scan!Replacing(s, spans)
           out == Scan!Replaced(v, n, gone)
<1>1. DOMAIN rs = 1 .. Len(rs) /\ Len(rs) \in Nat /\ Len(v) \in Nat
  OBVIOUS
<1>2. t \in Seq(A)
  OBVIOUS
<1>3. spans = Scan!Spans(rs, t)
  OBVIOUS
<1> HIDE DEF t
<1>4. SpansTo(spans, t, rs, Len(rs))
  BY <1>2, <1>3, SpansRight
<1>5. \A q \in 1 .. Len(rs) : /\ PlacesOf(rs[q], t) = Scan!Places(v, rs[q].pattern, n)
                              /\ PlacesOf(rs[q], t) \subseteq PlacesOf(rs[q], v)
                              /\ \A i \in PlacesOf(rs[q], t) : i \in 1 .. n
  <2> TAKE q \in 1 .. Len(rs)
  <2>1. rs[q].pattern \in Seq(A) /\ rs[q].pattern # << >>
    BY PatternSize
  <2>2. t = SubSeq(v, 1, n)
    BY DEF t
  <2> DEFINE r == rs[q]
  <2> HIDE DEF r
  <2>3. r.pattern \in Seq(A) /\ r.pattern # << >>
    BY <2>1 DEF r
  <2>4. InPrefix(r, v, t, n)
    BY <2>2, <2>3, PlacesInPrefix
  <2> QED
    BY <2>4, Zenon DEF r, InPrefix
<1>6. Apart(spans) /\ Marks(spans, rs, v)
  BY <1>4, <1>5, Zenon DEF SpansTo, Marks
<1>7. gone \subseteq spans
  BY DEF Scan!Replacing
<1> HIDE DEF gone
<1>8. Apart(gone) /\ Marks(gone, rs, v)
  BY <1>6, <1>7, Zenon DEF Apart, Marks
<1>9. out = Scan!Redacted(v, gone)
  BY Zenon DEF Scan!Replaced
<1> HIDE DEF out
<1>10. Known(rs) /\ Sorted(rs)
  BY Zenon DEF Usable
<1>11. Scan!Accounted(out, v, rs)
  BY <1>8, <1>9, <1>10, AccountedRight
<1>12. ~s.redact => out = Scan!Whole(v)
  <2>1. ~s.redact => gone = {}
    BY Zenon DEF Scan!Replacing, gone
  <2> QED
    BY <1>9, <2>1, WholeRedacted
<1>13. ASSUME s.redact, NEW q \in 1 .. Len(rs), rs[q].redact, NEW i \in Scan!Places(v, rs[q].pattern, n)
       PROVE  Scan!Gone(out, rs[q], i) \/ Scan!Displaced(v, rs, rs[q], i, n)
  <2>1. i \in PlacesOf(rs[q], t)
    BY <1>5, <1>13, Zenon
  <2>2. PICK j \in PlacesOf(rs[q], t) : Covers(rs[q], j, i) /\ Held(spans, rs, t, q, j)
    BY <1>4, <2>1, Zenon DEF SpansTo
  <2>3. i \in 1 .. n /\ j \in 1 .. n
    BY <1>5, <2>1, <2>2, Zenon
  <2>4. i \in 1 .. Len(v) /\ i \in Nat /\ j \in Nat
    BY <1>1, <2>3
  <2>5. Len(rs[q].pattern) \in Nat \ {0}
    BY PatternSize
  <2>6. CASE Mark(rs[q], j) \in spans
    <3> DEFINE x == Mark(rs[q], j)
    <3>1. x.redact = rs[q].redact /\ x.first = j /\ x.last = j + Len(rs[q].pattern) - 1
      BY DEF Mark
    <3> HIDE DEF x
    <3>2. x \in gone
      BY <1>13, <2>6, <3>1, Zenon DEF x, gone, Scan!Replacing
    <3>3. x.first <= i /\ i <= x.last
      BY <2>2, <3>1, Zenon DEF Covers
    <3>4. Fit(gone, Len(v))
      BY <1>8, MarksFit
    <3> DEFINE r == rs[q]
    <3> HIDE DEF r
    <3>5. Len(r.pattern) \in Nat \ {0}
      BY <2>5 DEF r
    <3>6. Scan!Gone(Scan!Redacted(v, gone), r, i)
      BY <2>4, <3>2, <3>3, <3>4, <3>5, GoneWithSpan
    <3> QED
      BY <1>9, <3>6 DEF r
  <2>7. CASE \E p \in 1 .. q - 1 : \E h \in PlacesOf(rs[p], t) :
               Mark(rs[p], h) \in spans /\ Clash(Mark(rs[p], h), Mark(rs[q], j))
    <3>1. PICK p \in 1 .. q - 1 : \E h \in PlacesOf(rs[p], t) :
                 Mark(rs[p], h) \in spans /\ Clash(Mark(rs[p], h), Mark(rs[q], j))
      BY <2>7
    <3>2. PICK h \in PlacesOf(rs[p], t) : Clash(Mark(rs[p], h), Mark(rs[q], j))
      BY <3>1
    <3>3. p \in 1 .. Len(rs)
      BY <1>1
    <3>4. h \in Scan!Places(v, rs[p].pattern, n) /\ j \in Scan!Places(v, rs[q].pattern, n)
      BY <1>5, <2>2, <3>2, <3>3, Zenon
    <3>5. Scan!Displaced(v, rs, rs[q], i, n)
      BY <1>1, <1>10, <2>2, <2>4, <2>5, <3>2, <3>4, DisplacedWithout, Zenon
    <3> QED
      BY <3>5
  <2> QED
    BY <2>2, <2>6, <2>7, Zenon DEF Held
<1> QED
  BY <1>1, <1>11, <1>12, <1>13, Zenon DEF Scan!FieldKept, out, gone

\* A field of which nothing is scanned keeps everything.
LEMMA FieldWhole ==
  ASSUME NEW A, NEW v \in Seq(A), NEW rs \in Seq(RuleOver(A)), Usable(rs), NEW s
  PROVE  Scan!FieldKept(s, rs, v, 0, Scan!Whole(v))
<1>1. Scan!Whole(v) = Scan!Redacted(v, {})
  BY WholeRedacted
<1>2. Apart({}) /\ Marks({}, rs, v)
  BY Zenon DEF Apart, Marks
<1>3. Scan!Accounted(Scan!Whole(v), v, rs)
  BY <1>1, <1>2, AccountedRight DEF Usable
<1>4. DOMAIN rs = 1 .. Len(rs)
  OBVIOUS
<1>5. ASSUME NEW q \in 1 .. Len(rs) PROVE Scan!Places(v, rs[q].pattern, 0) = {}
  <2>1. Len(rs[q].pattern) \in Nat \ {0}
    BY PatternSize
  <2>2. \A i : i \notin 1 .. 0 - Len(rs[q].pattern) + 1
    BY <2>1
  <2> QED
    BY <2>2, Zenon DEF Scan!Places
<1> QED
  BY <1>3, <1>4, <1>5, Zenon DEF Scan!FieldKept

-----------------------------------------------------------------------------
(* A scan of a body.                                                        *)

\* The pieces of a body over the symbols A.
Piece(A) == [text : {FALSE}] \cup [text : {TRUE}, value : Seq(A)]

\* A piece is a field with its value, or no text at all.
LEMMA PieceType ==
  ASSUME NEW A, NEW p \in Piece(A)
  PROVE  p.text \in BOOLEAN /\ (p.text => p.value \in Seq(A) /\ Len(p.value) \in Nat)
<1>1. CASE p \in [text : {FALSE}]
  BY <1>1
<1>2. CASE p \in [text : {TRUE}, value : Seq(A)]
  <2>1. p.text = TRUE /\ p.value \in Seq(A)
    BY <1>2, Zenon
  <2>2. Len(p.value) \in Nat
    BY <2>1
  <2> QED
    BY <2>1, <2>2
<1> QED
  BY <1>1, <1>2 DEF Piece

\* a has the sizes of the texts of the body up to each of its pieces.
Sizes(a, s) ==
  /\ a[0] = 0
  /\ \A k \in 0 .. Len(s.body) : a[k] \in Nat
  /\ \A k \in 1 .. Len(s.body) : Scan!Before(s, k) = a[k - 1]
  /\ \A k \in 0 .. Len(s.body) - 1 :
       a[k + 1] = IF s.body[k + 1].text THEN a[k] + Len(s.body[k + 1].value) ELSE a[k]

\* Every body has its sizes.
LEMMA SizesExist ==
  ASSUME NEW A, NEW s, NEW body \in Seq(Piece(A)), s.body = body
  PROVE  \E a : Sizes(a, s)
<1> DEFINE n == Len(body)
           q == <<>>
           g == CHOOSE g : Filled(g, "size", q, 0, body, n)
<1>1. n \in Nat /\ \A k \in 1 .. n : body[k] \in Piece(A)
  OBVIOUS
<1> HIDE DEF q
<1>2. Filled(g, "size", q, 0, body, n)
  BY <1>1, TableExists, Zenon
<1> HIDE DEF g, n
<1>3. \E a : OneByOne(a, "size", q, 0, body) /\ g[1 .. Len(body)] = a[Len(body)]
  BY ONLY <1>2, TableOneByOne, body \in Seq(Piece(A)) DEF n
<1>4. PICK a : OneByOne(a, "size", q, 0, body)
  BY <1>3
<1>5. ASSUME NEW k \in 0 .. n - 1
      PROVE  a[k + 1] = IF body[k + 1].text THEN a[k] + Len(body[k + 1].value) ELSE a[k]
  <2>1. a[k + 1] = FoldStep("size", q, a[k], body[k + 1])
    BY <1>4 DEF OneByOne, n
  <2>2. "size" # "match" /\ "size" # "find" /\ "size" # "rule" /\ "size" # "piece"
    OBVIOUS
  <2> QED
    BY <2>1, <2>2, Zenon DEF FoldStep
<1> DEFINE S == {k \in 0 .. n : a[k] \in Nat}
<1>0. a[0] = 0
  BY <1>4 DEF OneByOne
<1>6. 0 \in S
  BY <1>0, <1>1
<1>7. ASSUME NEW k \in 0 .. n - 1, k \in S PROVE k + 1 \in S
  <2>1. k + 1 \in 1 .. n /\ k + 1 \in 0 .. n /\ a[k] \in Nat
    BY <1>1, <1>7
  <2>2. body[k + 1].text \in BOOLEAN /\ (body[k + 1].text => Len(body[k + 1].value) \in Nat)
    BY <1>1, <2>1, PieceType
  <2> QED
    BY <1>5, <2>1, <2>2
<1>8. \A k \in 0 .. n : a[k] \in Nat
  <2>1. \A k \in 0 .. n : k \in S
    <3> HIDE DEF S
    <3> QED
      BY <1>1, <1>6, <1>7, UpTo
  <2> QED
    BY <2>1
<1>9. ASSUME NEW k \in 1 .. n PROVE Scan!Before(s, k) = a[k - 1]
  <2> DEFINE ls == SubSeq(body, 1, k - 1)
             m == k - 1
  <2>1. m \in Nat /\ m <= n
    BY <1>1
  <2>2. ls \in Seq(Piece(A)) /\ Len(ls) = m /\ \A j \in 1 .. m : ls[j] = body[j]
    BY <1>1 DEF n
  <2> HIDE DEF ls
  <2>3. Scan!Earlier(s, k) = ls
    BY Zenon DEF ls, Scan!Earlier
  <2>4. PICK b : OneByOne(b, "size", q, 0, ls) /\ Scan!Before(s, k) = b[Len(ls)]
    <3>1. ls \in Seq(Piece(A))
      BY <2>2
    <3>2. Course("size", q, 0, ls, Scan!Before(s, k))
      BY ONLY <2>3, <3>1, BeforeOneByOne
    <3> QED
      BY <3>2, Zenon DEF Course
  <2> HIDE DEF m
  <2>5. a[m] = b[m]
    <3>1. m <= Len(body) /\ Len(body) \in Nat
      BY <1>1, <2>1 DEF n
    <3>2. SameStart(ls, body, m) /\ Len(ls) = m
      BY <2>2, Zenon DEF SameStart
    <3>3. OneByOne(b, "size", q, 0, ls)
      BY <2>4
    <3> QED
      BY ONLY <1>4, <2>1, <3>1, <3>2, <3>3, OneCourse
  <2> QED
    BY <2>2, <2>4, <2>5 DEF m
<1>10. Sizes(a, s)
  BY <1>0, <1>5, <1>8, <1>9, Zenon DEF Sizes, n
<1> QED
  BY <1>10

\* new is out with x after its k members.
Longer(new, out, x, k) ==
  /\ \E U : new \in Seq(U)
  /\ Len(new) = k + 1 /\ new[k + 1] = x /\ \A j \in 1 .. k : new[j] = out[j]

\* To append is to make it longer by one.
LEMMA Appended ==
  ASSUME NEW T, NEW out \in Seq(T), NEW x, NEW k, Len(out) = k
  PROVE  Longer(Append(out, x), out, x, k)
<1> DEFINE new == Append(out, x)
<1>1. out \in Seq(T \cup {x})
  OBVIOUS
<1>2. new \in Seq(T \cup {x}) /\ Len(new) = k + 1 /\ new[k + 1] = x /\ \A j \in 1 .. k : new[j] = out[j]
  BY <1>1
<1> HIDE DEF new
<1>3. Longer(new, out, x, k)
  BY <1>2, Zenon DEF Longer
<1> QED
  BY <1>3 DEF new

\* A field the scan leaves nothing of: refused, or beyond the limit.
Refusable(s) ==
  s.refuse /\ \E k \in DOMAIN s.body :
    s.body[k].text /\ (s.limit = Scan!Before(s, k) \/ Len(s.body[k].value) > s.limit - Scan!Before(s, k))

\* After k pieces what is out is right, and the count is that of what was scanned.
Right(s, rs, out, k) ==
  \A j \in 1 .. k : s.body[j].text => Scan!FieldKept(s, rs, s.body[j].value, Scan!InScan(s, j), out[j])

\* The count of what was scanned is that of the n symbols before, until the limit.
Counted(acc, s, n) == IF acc.truncated THEN s.limit <= n ELSE acc.scanned = n /\ n <= s.limit

\* What a scan is at after k pieces.
ScannedTo(acc, s, rs, a, k) ==
  /\ (\E T : acc.out \in Seq(T)) /\ Len(acc.out) = k
  /\ acc.truncated \in BOOLEAN /\ acc.refused \in BOOLEAN
  /\ acc.refused => Refusable(s)
  /\ ~acc.refused => Counted(acc, s, a[k]) /\ Right(s, rs, acc.out, k)

\* What a scan is of.
ScanOver(s, A) ==
  /\ s.body \in Seq(Piece(A)) /\ s.limit \in Nat /\ s.redact \in BOOLEAN /\ s.refuse \in BOOLEAN

\* One more piece: what is appended is right, and the count with it.
LEMMA OnePieceMore ==
  ASSUME NEW s, NEW rs, NEW a, NEW k \in Nat, NEW acc, ScannedTo(acc, s, rs, a, k), NEW x, NEW new,
         new.out = Append(acc.out, x), new.truncated \in BOOLEAN, new.refused \in BOOLEAN,
         new.refused => Refusable(s),
         ~new.refused => /\ ~acc.refused
                         /\ Counted(new, s, a[k + 1])
                         /\ s.body[k + 1].text =>
                              Scan!FieldKept(s, rs, s.body[k + 1].value, Scan!InScan(s, k + 1), x)
  PROVE  ScannedTo(new, s, rs, a, k + 1)
<1>1. PICK T : acc.out \in Seq(T)
  BY DEF ScannedTo
<1>2. Len(acc.out) = k
  BY DEF ScannedTo
<1> DEFINE out == acc.out
<1> HIDE DEF out
<1>3. Longer(Append(out, x), out, x, k)
  <2>1. out \in Seq(T) /\ Len(out) = k
    BY <1>1, <1>2 DEF out
  <2> QED
    BY ONLY <2>1, Appended
<1>4. \A j \in 1 .. k + 1 : j \in 1 .. k \/ j = k + 1
  OBVIOUS
<1>5. ~acc.refused => Right(s, rs, out, k)
  BY Zenon DEF ScannedTo, out
<1>6. ~new.refused => Right(s, rs, Append(out, x), k + 1)
  BY <1>3, <1>4, <1>5, Zenon DEF Right, Longer
<1>7. new.out = Append(out, x)
  BY Zenon DEF out
<1> QED
  BY <1>3, <1>6, <1>7, Zenon DEF ScannedTo, Longer

\* Once the fields before reach the limit, nothing of a field is scanned.
LEMMA NothingLeft ==
  ASSUME NEW s, NEW k, s.limit \in Nat, NEW b \in Nat, Scan!Before(s, k) = b, s.limit <= b,
         Len(s.body[k].value) \in Nat
  PROVE  Scan!InScan(s, k) = 0
  BY DEF Scan!InScan, Scan!Least

\* One more piece is taken.
LEMMA PieceTaken ==
  ASSUME NEW A, NEW rs \in Seq(RuleOver(A)), Usable(rs), NEW s, ScanOver(s, A), NEW a, Sizes(a, s),
         NEW k \in Nat, k < Len(s.body), NEW acc, ScannedTo(acc, s, rs, a, k)
  PROVE  ScannedTo(Scan!TakePiece(acc, s.body[k + 1], s, rs), s, rs, a, k + 1)
<1> DEFINE piece == s.body[k + 1]
           v == piece.value
           l == Len(v)
           n == a[k]
           new == Scan!TakePiece(acc, piece, s, rs)
           goal == ScannedTo(new, s, rs, a, k + 1)
<1>1. s.limit \in Nat /\ s.redact \in BOOLEAN /\ s.refuse \in BOOLEAN
  BY DEF ScanOver
<1>2. /\ Len(s.body) \in Nat /\ piece \in Piece(A) /\ DOMAIN s.body = 1 .. Len(s.body)
      /\ k + 1 \in 1 .. Len(s.body)
  <2>1. s.body \in Seq(Piece(A))
    BY DEF ScanOver
  <2> QED
    BY <2>1
<1>3. piece.text \in BOOLEAN /\ (piece.text => v \in Seq(A) /\ l \in Nat)
  BY <1>2, PieceType
<1>4. n \in Nat /\ Scan!Before(s, k + 1) = n
  <2>1. k \in 0 .. Len(s.body) /\ (k + 1) - 1 = k
    BY <1>2
  <2> QED
    BY <1>2, <2>1 DEF Sizes
<1>5. a[k + 1] = IF piece.text THEN n + l ELSE n
  <2>1. k \in 0 .. Len(s.body) - 1
    BY <1>2
  <2> QED
    BY <2>1, Zenon DEF Sizes
<1>6. /\ acc.truncated \in BOOLEAN /\ acc.refused \in BOOLEAN
      /\ acc.refused => Refusable(s)
      /\ ~acc.refused => Counted(acc, s, n)
  BY Zenon DEF ScannedTo
<1>7. ~acc.refused => IF acc.truncated THEN s.limit <= n ELSE acc.scanned = n /\ n <= s.limit
  BY <1>6, Zenon DEF Counted
<1>8. ASSUME NEW x, new.out = Append(acc.out, x), new.truncated \in BOOLEAN, new.refused \in BOOLEAN,
             new.refused => Refusable(s),
             ~new.refused => /\ ~acc.refused /\ Counted(new, s, a[k + 1])
                             /\ piece.text => Scan!FieldKept(s, rs, v, Scan!InScan(s, k + 1), x)
      PROVE  goal
  <2> HIDE DEF new
  <2> QED
    BY <1>8, OnePieceMore, Zenon
<1> SUFFICES goal
  OBVIOUS
<1> HIDE DEF new, goal, n, l, v
<1>9. CASE ~piece.text \/ acc.refused
  <2>1. new = Scan!State(acc.scanned, acc.truncated, acc.refused, acc.hits, Append(acc.out, << >>))
    BY <1>9, Zenon DEF new, Scan!TakePiece, Scan!Passed
  <2>2. /\ new.scanned = acc.scanned /\ new.truncated = acc.truncated
        /\ new.refused = acc.refused /\ new.out = Append(acc.out, << >>)
    BY <2>1 DEF Scan!State
  <2>3. ~acc.refused => ~piece.text /\ Counted(new, s, a[k + 1])
    BY <1>3, <1>5, <1>6, <1>9, <2>2, Zenon DEF Counted
  <2> QED
    BY <1>6, <1>8, <2>2, <2>3
<1>10. CASE piece.text /\ ~acc.refused
  <2>1. v \in Seq(A) /\ l \in Nat /\ a[k + 1] = n + l
    BY <1>3, <1>5, <1>10
  <2>2. s.limit <= n =>
          /\ s.limit <= a[k + 1]
          /\ Scan!FieldKept(s, rs, v, Scan!InScan(s, k + 1), Scan!Whole(v))
    <3> SUFFICES ASSUME s.limit <= n
                 PROVE  /\ s.limit <= a[k + 1]
                        /\ Scan!FieldKept(s, rs, v, Scan!InScan(s, k + 1), Scan!Whole(v))
      OBVIOUS
    <3>1. s.limit <= a[k + 1]
      BY <1>1, <1>4, <2>1
    <3>2. Scan!InScan(s, k + 1) = 0
      <4>1. Len(s.body[k + 1].value) \in Nat
        BY <2>1 DEF l, v
      <4> QED
        BY ONLY <1>1, <1>4, <4>1, s.limit <= n, NothingLeft
    <3>3. Scan!FieldKept(s, rs, v, 0, Scan!Whole(v))
      BY <2>1, FieldWhole
    <3> QED
      BY <3>1, <3>2, <3>3
  <2>3. CASE acc.truncated
    <3>1. new = Scan!State(acc.scanned, acc.truncated, acc.refused, acc.hits, Append(acc.out, Scan!Whole(v)))
      BY <1>10, <2>3, Zenon DEF new, v, Scan!TakePiece, Scan!Passed
    <3>2. /\ new.truncated = acc.truncated /\ new.refused = acc.refused
          /\ new.out = Append(acc.out, Scan!Whole(v))
      BY <3>1 DEF Scan!State
    <3>3. s.limit <= n
      BY <1>7, <1>10, <2>3
    <3>4. Counted(new, s, a[k + 1])
      BY <2>2, <2>3, <3>2, <3>3, Zenon DEF Counted
    <3> QED
      BY <1>6, <1>8, <1>10, <2>2, <3>2, <3>3, <3>4
  <2>4. CASE ~acc.truncated
    <3>1. acc.scanned = n /\ n <= s.limit
      BY <1>7, <1>10, <2>4
    <3>2. CASE s.refuse /\ Scan!Beyond(s, acc, v)
      <4>1. new = Scan!State(acc.scanned, FALSE, TRUE, acc.hits, Append(acc.out, << >>))
        BY <1>10, <2>4, <3>2, Zenon DEF new, v, Scan!TakePiece
      <4>2. new.truncated = FALSE /\ new.refused = TRUE /\ new.out = Append(acc.out, << >>)
        BY <4>1 DEF Scan!State
      <4>3. s.limit = Scan!Before(s, k + 1) \/ Len(v) > s.limit - Scan!Before(s, k + 1)
        BY <1>4, <3>1, <3>2, Zenon DEF Scan!Beyond
      <4>4. Refusable(s)
        BY <1>2, <1>10, <3>2, <4>3, Zenon DEF Refusable, v
      <4> QED
        BY <1>8, <4>2, <4>4
    <3>3. CASE ~(s.refuse /\ Scan!Beyond(s, acc, v)) /\ s.limit = acc.scanned
      <4>1. new = Scan!State(acc.scanned, TRUE, FALSE, acc.hits, Append(acc.out, Scan!Whole(v)))
        BY <1>10, <2>4, <3>3, Zenon DEF new, v, Scan!TakePiece
      <4>2. new.truncated = TRUE /\ new.refused = FALSE /\ new.out = Append(acc.out, Scan!Whole(v))
        BY <4>1 DEF Scan!State
      <4>3. s.limit <= n
        BY <1>1, <3>1, <3>3
      <4>4. Counted(new, s, a[k + 1])
        BY <2>2, <4>2, <4>3, Zenon DEF Counted
      <4> QED
        BY <1>8, <1>10, <2>2, <4>2, <4>3, <4>4
    <3>4. CASE ~(s.refuse /\ Scan!Beyond(s, acc, v)) /\ s.limit # acc.scanned
      <4> DEFINE cut == Scan!Least(l, s.limit - acc.scanned)
                 spans == Scan!Spans(rs, SubSeq(v, 1, cut))
                 x == Scan!Replaced(v, cut, Scan!Replacing(s, spans))
      <4>1. /\ cut \in 0 .. l /\ (cut < l => s.limit <= n + l) /\ (~(cut < l) => n + l <= s.limit /\ cut = l)
            /\ Scan!InScan(s, k + 1) = cut
        <5>1. s.limit - n > 0 /\ s.limit - n \in Nat
          BY <1>1, <1>4, <3>1, <3>4
        <5>2. cut = IF l < s.limit - n THEN l ELSE s.limit - n
          BY <3>1, Zenon DEF Scan!Least
        <5>3. Scan!InScan(s, k + 1) = IF s.limit - n < 0 THEN 0 ELSE Scan!Least(s.limit - n, l)
          BY <1>4, Zenon DEF Scan!InScan, l, v
        <5> HIDE DEF cut
        <5>4. Scan!InScan(s, k + 1) = cut
          BY <2>1, <5>1, <5>2, <5>3 DEF Scan!Least
        <5> QED
          BY <1>1, <1>4, <2>1, <5>1, <5>2, <5>4
      <4>2. new = Scan!Field(s, acc, v, cut, spans)
        BY <1>10, <2>4, <3>4, Zenon DEF new, v, l, Scan!TakePiece, Scan!Scanned
      <4> HIDE DEF cut, spans
      <4>3. new = Scan!State(acc.scanned + cut, cut < l, FALSE, acc.hits + Scan!Cardinality(spans),
                             Append(acc.out, x))
        BY <4>2, Zenon DEF Scan!Field, l
      <4>4. /\ new.scanned = acc.scanned + cut /\ new.truncated = (cut < l) /\ new.refused = FALSE
            /\ new.out = Append(acc.out, x)
        BY <4>3 DEF Scan!State
      <4>5. Scan!FieldKept(s, rs, v, cut, x)
        <5>1. cut \in 0 .. Len(v)
          BY <4>1 DEF l
        <5>2. spans = Scan!Spans(rs, SubSeq(v, 1, cut))
          BY DEF spans
        <5> QED
          BY <1>1, <2>1, <5>1, <5>2, FieldScanned
      <4> HIDE DEF x
      <4>6. Counted(new, s, a[k + 1])
        <5>1. CASE cut < l
          <6>1. s.limit <= a[k + 1] /\ new.truncated
            BY <2>1, <4>1, <4>4, <5>1
          <6> QED
            BY <6>1, Zenon DEF Counted
        <5>2. CASE ~(cut < l)
          <6>1. /\ new.scanned = a[k + 1] /\ a[k + 1] <= s.limit /\ ~new.truncated
            BY <2>1, <3>1, <4>1, <4>4, <5>2
          <6> QED
            BY <6>1, Zenon DEF Counted
        <5> QED
          BY <5>1, <5>2
      <4>7. (cut < l) \in BOOLEAN
        OBVIOUS
      <4> QED
        BY <1>8, <1>10, <4>1, <4>4, <4>5, <4>6, <4>7
    <3> QED
      BY <3>2, <3>3, <3>4
  <2> QED
    BY <1>6, <2>3, <2>4
<1> QED
  BY <1>3, <1>6, <1>9, <1>10

\* A scan by rules in their order keeps its promises.
LEMMA ScanRight ==
  ASSUME NEW A, NEW rs \in Seq(RuleOver(A)), Usable(rs), NEW s, ScanOver(s, A)
  PROVE  Scan!Kept(s, rs, Scan!Scan(s, rs))
<1> DEFINE body == s.body
           n == Len(body)
           q == [scan |-> s, rules |-> rs]
           p == Scan!State(0, FALSE, FALSE, 0, << >>)
<1>1. body \in Seq(Piece(A)) /\ s.limit \in Nat
  BY DEF ScanOver
<1> HIDE DEF body
<1>2. n \in Nat /\ DOMAIN body = 1 .. n
  BY <1>1
<1>3. s.body = body /\ q.scan = s /\ q.rules = rs
  BY DEF body
<1> HIDE DEF q
<1>4. PICK a : Sizes(a, s)
  BY <1>1, <1>3, SizesExist
<1>5. q.scan.body = body
  BY <1>3
<1>6. PICK c : OneByOne(c, "piece", q, p, body) /\ Scan!Scan(q.scan, q.rules) = c[Len(body)]
  BY <1>1, <1>5, ScanOneByOne
<1> HIDE DEF p
<1> DEFINE S == {k \in 0 .. n : ScannedTo(c[k], s, rs, a, k)}
<1>7. 0 \in S
  <2>1. c[0] = p
    BY <1>6 DEF OneByOne
  <2>2. p.scanned = 0 /\ p.truncated = FALSE /\ p.refused = FALSE /\ p.out = << >>
    BY DEF p, Scan!State
  <2>3. a[0] = 0 /\ 0 \in 0 .. n
    BY <1>2, <1>4 DEF Sizes
  <2>4. Counted(p, s, 0)
    BY <1>1, <2>2 DEF Counted
  <2>5. Len(<< >>) = 0 /\ << >> \in Seq({}) /\ \A j : j \notin 1 .. 0
    OBVIOUS
  <2>6. ScannedTo(p, s, rs, a, 0)
    BY <2>2, <2>3, <2>4, <2>5, Zenon DEF ScannedTo, Right
  <2> QED
    BY <2>1, <2>3, <2>6
<1>8. ASSUME NEW k \in 0 .. n - 1, k \in S PROVE k + 1 \in S
  <2>1. c[k + 1] = FoldStep("piece", q, c[k], body[k + 1])
    BY <1>6 DEF OneByOne
  <2>2. k \in Nat /\ k < Len(body) /\ k + 1 \in 0 .. n
    BY <1>2
  <2>3. "piece" # "match" /\ "piece" # "find" /\ "piece" # "rule"
    OBVIOUS
  <2>4. c[k + 1] = Scan!TakePiece(c[k], s.body[k + 1], s, rs)
    BY <1>3, <2>1, <2>3, Zenon DEF FoldStep
  <2>5. ScannedTo(c[k], s, rs, a, k)
    BY <1>8
  <2> DEFINE acc == c[k]
  <2> HIDE DEF acc
  <2>6. ScannedTo(acc, s, rs, a, k) /\ k < Len(s.body)
    BY <1>3, <2>2, <2>5 DEF acc
  <2>7. ScannedTo(Scan!TakePiece(acc, s.body[k + 1], s, rs), s, rs, a, k + 1)
    BY <1>4, <2>2, <2>6, PieceTaken
  <2> QED
    BY <2>2, <2>4, <2>7 DEF acc
<1>9. n \in 0 .. n
  BY <1>2
<1> HIDE DEF S
<1>10. n \in S
  BY <1>2, <1>7, <1>8, <1>9, UpTo
<1> DEFINE res == Scan!Scan(s, rs)
<1>11. ScannedTo(res, s, rs, a, n)
  BY <1>3, <1>6, <1>10 DEF S
<1> HIDE DEF res
<1>12. CASE res.refused
  BY <1>11, <1>12, Zenon DEF ScannedTo, Refusable, Scan!Kept, res
<1>13. CASE ~res.refused
  <2>1. Right(s, rs, res.out, n) /\ DOMAIN s.body = 1 .. n
    BY <1>2, <1>3, <1>11, <1>13, Zenon DEF ScannedTo
  <2> QED
    BY <1>13, <2>1, Zenon DEF Right, Scan!Kept, res
<1> QED
  BY <1>12, <1>13 DEF res

-----------------------------------------------------------------------------
(* The rules of a scan.                                                     *)

\* The numbers up to n are n.
LEMMA Numbers ==
  ASSUME NEW n \in Nat
  PROVE  IsFiniteSet(1 .. n) /\ Cardinality(1 .. n) = n
<1>1. IsFiniteSet(1 .. n) /\ Cardinality(1 .. n) = IF 1 > n THEN 0 ELSE n - 1 + 1
  BY FS_Interval
<1> QED
  BY <1>1

\* Sorting the members of a sequence puts each at one place.
Permuted(at, n, R) ==
  /\ DOMAIN at = 1 .. n /\ \A k \in 1 .. n : at[k] \in 1 .. n
  /\ \A j, k \in 1 .. n : j < k => at[j] # at[k] /\ <<at[j], at[k]>> \in R

\* An order of the numbers up to n gives each a place of its own.
LEMMA PermutedRight ==
  ASSUME NEW n \in Nat, NEW R, Orders(R, 1 .. n)
  PROVE  Permuted(Scan!Arranged(1 .. n, R), n, R)
<1> DEFINE S == 1 .. n
           at == Arranged(S, R)
<1>1. IsFiniteSet(S) /\ Cardinality(S) = n
  BY Numbers
<1>2. Ranked(at, S, R)
  BY <1>1, ArrangedRanks
<1> HIDE DEF at, S
<1>3. at \in Seq(S) /\ Len(at) = n
  BY <1>1, <1>2 DEF Ranked
<1>4. DOMAIN at = 1 .. n /\ \A k \in 1 .. n : at[k] \in S
  BY <1>3
<1>5. \A j, k \in 1 .. n : j < k => at[j] # at[k] /\ <<at[j], at[k]>> \in R
  BY <1>2, <1>3, Zenon DEF Ranked
<1>6. Permuted(at, n, R)
  BY <1>4, <1>5, Zenon DEF Permuted, S
<1> QED
  BY <1>6, SameArranged, Zenon DEF at, S

\* No number has two places.
LEMMA PermutedApart ==
  ASSUME NEW n \in Nat, NEW R, NEW at, Permuted(at, n, R), NEW j \in 1 .. n, NEW k \in 1 .. n, at[j] = at[k]
  PROVE  j = k
<1>1. ~(j < k) /\ ~(k < j)
  BY DEF Permuted
<1> QED
  BY <1>1

\* The rules of exact secrets have ids below 0, each its own.
LEMMA SecretsRight ==
  ASSUME NEW A, NEW secrets \in Seq(Seq(A) \ {<< >>})
  PROVE  /\ Scan!SecretRules(secrets) \in Seq(RuleOver(A))
         /\ Known(Scan!SecretRules(secrets))
         /\ \A k \in 1 .. Len(Scan!SecretRules(secrets)) : Scan!SecretRules(secrets)[k].id < 0
<1> DEFINE n == Len(secrets)
           R == Scan!Longer(secrets)
           at == Scan!Arranged(1 .. n, R)
           rs == Scan!SecretRules(secrets)
<1>1. n \in Nat /\ DOMAIN secrets = 1 .. n /\ \A k \in 1 .. n : secrets[k] \in Seq(A) \ {<< >>}
  OBVIOUS
<1>2. \A k \in 1 .. n : Len(secrets[k]) \in Nat
  BY <1>1
<1> HIDE DEF n
<1>3. \A x, y \in 1 .. n : <<x, y>> \in R <=> \/ Len(secrets[x]) > Len(secrets[y])
                                              \/ Len(secrets[x]) = Len(secrets[y]) /\ x < y
  BY <1>1 DEF Scan!Longer
<1> HIDE DEF R
<1>4. Orders(R, 1 .. n)
  <2>1. \A x \in 1 .. n : <<x, x>> \notin R
    BY <1>1, <1>2, <1>3
  <2>2. ASSUME NEW x \in 1 .. n, NEW y \in 1 .. n, x # y PROVE <<x, y>> \in R <=> <<y, x>> \notin R
    <3>1. Len(secrets[x]) \in Nat /\ Len(secrets[y]) \in Nat
      BY <1>2
    <3>2. /\ <<x, y>> \in R <=> \/ Len(secrets[x]) > Len(secrets[y])
                                \/ Len(secrets[x]) = Len(secrets[y]) /\ x < y
          /\ <<y, x>> \in R <=> \/ Len(secrets[y]) > Len(secrets[x])
                                \/ Len(secrets[y]) = Len(secrets[x]) /\ y < x
      BY <1>3
    <3> QED
      BY ONLY <2>2, <3>1, <3>2, <1>1
  <2>3. ASSUME NEW x \in 1 .. n, NEW y \in 1 .. n, NEW z \in 1 .. n, <<x, y>> \in R, <<y, z>> \in R
        PROVE  <<x, z>> \in R
    <3>1. Len(secrets[x]) \in Nat /\ Len(secrets[y]) \in Nat /\ Len(secrets[z]) \in Nat
      BY <1>2
    <3>2. /\ <<x, y>> \in R <=> \/ Len(secrets[x]) > Len(secrets[y])
                                \/ Len(secrets[x]) = Len(secrets[y]) /\ x < y
          /\ <<y, z>> \in R <=> \/ Len(secrets[y]) > Len(secrets[z])
                                \/ Len(secrets[y]) = Len(secrets[z]) /\ y < z
          /\ <<x, z>> \in R <=> \/ Len(secrets[x]) > Len(secrets[z])
                                \/ Len(secrets[x]) = Len(secrets[z]) /\ x < z
      BY <1>3
    <3> QED
      BY ONLY <2>3, <3>1, <3>2, <1>1
  <2> QED
    BY <2>1, <2>2, <2>3, Zenon DEF Orders
<1>5. Permuted(at, n, R)
  BY <1>1, <1>4, PermutedRight
<1>6. rs = [k \in DOMAIN at |-> [id |-> -at[k], prio |-> Scan!SecretPriority + k - 1,
                                 pattern |-> secrets[at[k]], redact |-> TRUE]]
  BY <1>1, Zenon DEF Scan!SecretRules, R
<1> HIDE DEF at, rs
<1>7. DOMAIN at = 1 .. n /\ \A k \in 1 .. n : at[k] \in 1 .. n
  BY <1>5, Zenon DEF Permuted
<1>8. rs = [k \in 1 .. n |-> rs[k]]
  BY <1>6, <1>7
<1>9. \A k \in 1 .. n : rs[k] = [id |-> -at[k], prio |-> Scan!SecretPriority + k - 1,
                                 pattern |-> secrets[at[k]], redact |-> TRUE]
  BY <1>6, <1>7
<1>10. ASSUME NEW k \in 1 .. n PROVE rs[k] \in RuleOver(A) /\ rs[k].id = -at[k] /\ rs[k].id < 0
  <2> DEFINE i == -at[k]
             p == Scan!SecretPriority + k - 1
             w == secrets[at[k]]
  <2>1. at[k] \in 1 .. n
    BY <1>7
  <2>2. i \in Int /\ i < 0
    BY ONLY <1>1, <2>1
  <2>3. p \in Int
    BY ONLY <1>1, k \in 1 .. n DEF Scan!SecretPriority
  <2>4. w \in Seq(A) \ {<< >>}
    BY <1>1, <2>1, Zenon
  <2>5. rs[k] = [id |-> i, prio |-> p, pattern |-> w, redact |-> TRUE]
    BY <1>9
  <2> HIDE DEF i, p, w
  <2>6. rs[k] \in RuleOver(A) /\ rs[k].id = i
    BY ONLY <2>2, <2>3, <2>4, <2>5 DEF RuleOver
  <2> QED
    BY <2>2, <2>6 DEF i
<1>11. rs \in Seq(RuleOver(A)) /\ Len(rs) = n
  <2>1. \A k \in 1 .. n : rs[k] \in RuleOver(A)
    BY <1>10
  <2>2. n \in Nat
    BY <1>1
  <2> QED
    BY ONLY <1>8, <2>1, <2>2
<1>12. Known(rs)
  <2> SUFFICES ASSUME NEW i \in 1 .. n, NEW j \in 1 .. n, rs[i].id = rs[j].id PROVE i = j
    BY <1>11, Zenon DEF Known
  <2>1. at[i] \in Int /\ at[j] \in Int /\ -at[i] = -at[j]
    BY <1>7, <1>10
  <2>2. at[i] = at[j]
    BY <2>1
  <2> QED
    BY <1>1, <1>5, <2>2, PermutedApart
<1> QED
  BY <1>10, <1>11, <1>12 DEF rs

\* Sorting rules makes them usable.
LEMMA InOrderUsable ==
  ASSUME NEW A, NEW all \in Seq(RuleOver(A)), Known(all)
  PROVE  Scan!InOrder(all) \in Seq(RuleOver(A)) /\ Usable(Scan!InOrder(all))
<1> DEFINE n == Len(all)
           R == Scan!Precedence(all)
           at == Scan!Arranged(1 .. n, R)
           rs == Scan!InOrder(all)
<1>1. n \in Nat /\ DOMAIN all = 1 .. n /\ \A k \in 1 .. n : all[k] \in RuleOver(A)
  OBVIOUS
<1>2. \A k \in 1 .. n : all[k].id \in Int /\ all[k].prio \in Int
  BY <1>1, Zenon DEF RuleOver
<1> HIDE DEF n
<1>3. \A x, y \in 1 .. n : <<x, y>> \in R <=> Scan!Precedes(all[x], all[y])
  BY <1>1 DEF Scan!Precedence
<1> HIDE DEF R
<1>4. Orders(R, 1 .. n)
  <2>1. ASSUME NEW x \in 1 .. n PROVE <<x, x>> \notin R
    BY <1>2, <1>3 DEF Scan!Precedes
  <2>2. ASSUME NEW x \in 1 .. n, NEW y \in 1 .. n, x # y PROVE <<x, y>> \in R <=> <<y, x>> \notin R
    <3>1. all[x].id # all[y].id
      BY <2>2, Zenon DEF Known, n
    <3>2. all[x].id \in Int /\ all[x].prio \in Int /\ all[y].id \in Int /\ all[y].prio \in Int
      BY <1>2
    <3>3. (<<x, y>> \in R <=> Scan!Precedes(all[x], all[y])) /\ (<<y, x>> \in R <=> Scan!Precedes(all[y], all[x]))
      BY <1>3
    <3> QED
      BY ONLY <3>1, <3>2, <3>3 DEF Scan!Precedes
  <2>3. ASSUME NEW x \in 1 .. n, NEW y \in 1 .. n, NEW z \in 1 .. n, <<x, y>> \in R, <<y, z>> \in R
        PROVE  <<x, z>> \in R
    <3>1. /\ all[x].id \in Int /\ all[x].prio \in Int /\ all[y].id \in Int /\ all[y].prio \in Int
          /\ all[z].id \in Int /\ all[z].prio \in Int
      BY <1>2
    <3>2. Scan!Precedes(all[x], all[y]) /\ Scan!Precedes(all[y], all[z])
      BY <1>3, <2>3
    <3>3. Scan!Precedes(all[x], all[z])
      BY ONLY <3>1, <3>2 DEF Scan!Precedes
    <3> QED
      BY <1>3, <3>3
  <2> QED
    BY <2>1, <2>2, <2>3, Zenon DEF Orders
<1>5. Permuted(at, n, R)
  BY <1>1, <1>4, PermutedRight
<1>6. rs = [k \in DOMAIN at |-> all[at[k]]]
  BY <1>1, Zenon DEF Scan!InOrder, R
<1> HIDE DEF at, rs
<1>7. DOMAIN at = 1 .. n /\ \A k \in 1 .. n : at[k] \in 1 .. n
  BY <1>5, Zenon DEF Permuted
<1>8. rs = [k \in 1 .. n |-> rs[k]] /\ \A k \in 1 .. n : rs[k] = all[at[k]]
  BY <1>6, <1>7
<1>9. \A k \in 1 .. n : rs[k] \in RuleOver(A)
  BY <1>1, <1>7, <1>8, Zenon
<1>10. rs \in Seq(RuleOver(A)) /\ Len(rs) = n
  BY ONLY <1>1, <1>8, <1>9
<1>11. Known(rs)
  <2> SUFFICES ASSUME NEW i \in 1 .. n, NEW j \in 1 .. n, rs[i].id = rs[j].id PROVE i = j
    BY <1>10, Zenon DEF Known
  <2>1. at[i] = at[j]
    <3>1. at[i] \in 1 .. n /\ at[j] \in 1 .. n /\ all[at[i]].id = all[at[j]].id
      BY <1>7, <1>8
    <3> QED
      BY <3>1, Zenon DEF Known, n
  <2> QED
    BY <1>1, <1>5, <2>1, PermutedApart
<1>12. Sorted(rs)
  <2> SUFFICES ASSUME NEW i \in 1 .. n, NEW j \in 1 .. n, i < j PROVE Scan!Precedes(rs[i], rs[j])
    BY <1>10, Zenon DEF Sorted
  <2>1. <<at[i], at[j]>> \in R
    BY <1>5, Zenon DEF Permuted
  <2> QED
    BY <1>3, <1>7, <1>8, <2>1
<1> QED
  BY <1>10, <1>11, <1>12, Zenon DEF rs, Usable

\* What can be scanned: the rules of the store have ids of their own above 0, and
\* neither they nor the secrets are empty.
Scannable(s, A) ==
  /\ ScanOver(s, A)
  /\ s.rules \in Seq(RuleOver(A)) /\ s.secrets \in Seq(Seq(A) \ {<< >>})
  /\ Known(s.rules) /\ \A k \in 1 .. Len(s.rules) : s.rules[k].id > 0

\* The rules of a scan, stored and exact, are sorted and known by their ids.
LEMMA AllRulesUsable ==
  ASSUME NEW A, NEW s, Scannable(s, A)
  PROVE  Scan!AllRules(s) \in Seq(RuleOver(A)) /\ Usable(Scan!AllRules(s))
<1> DEFINE own == s.rules
           exact == Scan!SecretRules(s.secrets)
           all == own \o exact
           m == Len(own)
           n == Len(exact)
<1>1. own \in Seq(RuleOver(A)) /\ Known(own) /\ \A k \in 1 .. m : own[k].id > 0
  BY Zenon DEF Scannable
<1>2. exact \in Seq(RuleOver(A)) /\ Known(exact) /\ \A k \in 1 .. n : exact[k].id < 0
  BY SecretsRight DEF Scannable
<1> HIDE DEF own, exact
<1>3. /\ all \in Seq(RuleOver(A)) /\ Len(all) = m + n /\ m \in Nat /\ n \in Nat
      /\ \A k \in 1 .. m : all[k] = own[k]
      /\ \A k \in m + 1 .. m + n : all[k] = exact[k - m]
  BY <1>1, <1>2
<1>4. /\ \A k \in 1 .. m : own[k].id \in Int
      /\ \A k \in 1 .. n : exact[k].id \in Int
  <2>1. (\A k \in 1 .. m : own[k] \in RuleOver(A)) /\ (\A k \in 1 .. n : exact[k] \in RuleOver(A))
    BY <1>1, <1>2
  <2> QED
    BY <2>1, Zenon DEF RuleOver
<1> HIDE DEF all, m, n
<1>5. Known(all)
  <2> SUFFICES ASSUME NEW i \in 1 .. Len(all), NEW j \in 1 .. Len(all), all[i].id = all[j].id PROVE i = j
    BY Zenon DEF Known
  <2>1. \A k \in 1 .. Len(all) : k \in 1 .. m \/ (k \in m + 1 .. m + n /\ k - m \in 1 .. n)
    BY <1>3
  <2>2. CASE i \in 1 .. m /\ j \in 1 .. m
    BY <1>1, <1>3, <2>2, Zenon DEF Known, m
  <2>3. CASE i \in m + 1 .. m + n /\ i - m \in 1 .. n /\ j \in m + 1 .. m + n /\ j - m \in 1 .. n
    <3>1. exact[i - m].id = exact[j - m].id
      BY <1>3, <2>3, Zenon
    <3>2. i - m = j - m
      BY <1>2, <2>3, <3>1, Zenon DEF Known, n
    <3> QED
      BY <1>3, <2>3, <3>2
  <2>4. CASE i \in 1 .. m /\ j \in m + 1 .. m + n /\ j - m \in 1 .. n
    <3>1. all[i].id > 0 /\ all[j].id < 0 /\ all[i].id \in Int /\ all[j].id \in Int
      BY <1>1, <1>2, <1>3, <1>4, <2>4, Zenon
    <3> QED
      BY <3>1
  <2>5. CASE j \in 1 .. m /\ i \in m + 1 .. m + n /\ i - m \in 1 .. n
    <3>1. all[j].id > 0 /\ all[i].id < 0 /\ all[i].id \in Int /\ all[j].id \in Int
      BY <1>1, <1>2, <1>3, <1>4, <2>5, Zenon
    <3> QED
      BY <3>1
  <2> QED
    BY <2>1, <2>2, <2>3, <2>4, <2>5
<1>6. Scan!AllRules(s) = Scan!InOrder(all)
  BY Zenon DEF Scan!AllRules, all, own, exact
<1> QED
  BY <1>3, <1>5, <1>6, InOrderUsable

\* Whatever is scanned, what leaves the scan holds nothing that a redacting rule finds
\* within the limit, and differs in nothing else from what came in.
THEOREM ScansRedact == \A A, s : Scannable(s, A) => Scan!RedactsWhatItFinds(s)
<1> SUFFICES ASSUME NEW A, NEW s, Scannable(s, A) PROVE Scan!RedactsWhatItFinds(s)
  OBVIOUS
<1> DEFINE rs == Scan!AllRules(s)
<1>1. rs \in Seq(RuleOver(A)) /\ Usable(rs)
  BY AllRulesUsable
<1>2. ScanOver(s, A)
  BY Zenon DEF Scannable
<1> HIDE DEF rs
<1>3. Scan!Kept(s, rs, Scan!Scan(s, rs))
  BY <1>1, <1>2, ScanRight
<1> QED
  BY <1>3, Zenon DEF rs, Scan!RedactsWhatItFinds

-----------------------------------------------------------------------------
(* The entries of an old file.                                              *)

\* Every set of numbers that is not empty has a least one.
LEMMA LeastOne ==
  ASSUME NEW S \in SUBSET Nat, S # {}
  PROVE  \E m \in S : \A k \in S : m <= k
<1>1. PICK m \in S : \A y \in S : ~(<<y, m>> \in {ss \in Nat \X Nat : ss[1] < ss[2]})
  BY Less, WFMin
<1>2. ASSUME NEW k \in S PROVE m <= k
  <2>1. ~(<<k, m>> \in {ss \in Nat \X Nat : ss[1] < ss[2]})
    BY <1>1
  <2>2. m \in Nat /\ k \in Nat
    OBVIOUS
  <2> QED
    BY <2>1, <2>2
<1> QED
  BY <1>2

\* An entry with names over P and groups and labels over L.
EntryOver(P, L) ==
  [name : P, url : BOOLEAN, group : L, token : Nat, key : Nat, tokens : Seq(L), keys : Seq(L),
   on : BOOLEAN, prio : Int, groupPrio : Int]

\* The candidates of a list: each has a value of its own, and a single one is the
\* entry's.
CandidatesOf(cs, list, single) ==
  /\ DOMAIN cs = 1 .. Split!Size(list) /\ Split!Size(list) \in Nat \ {0}
  /\ \A j, k \in 1 .. Split!Size(list) : cs[j][2] = cs[k][2] => j = k
  /\ \A j \in 1 .. Split!Size(list) : cs[j][2][1] = "single" => cs[j][2][2] = single

\* The candidates of any list are so.
LEMMA CandidatesRight ==
  ASSUME NEW L, NEW list \in Seq(L), NEW prefix, NEW single
  PROVE  CandidatesOf(Split!Candidates(list, prefix, single), list, single)
<1> DEFINE cs == Split!Candidates(list, prefix, single)
<1>1. CASE list = << >>
  <2>1. cs = <<<<<< >>, <<"single", single>>>>>> /\ Split!Size(list) = 1
    BY <1>1 DEF Split!Candidates, Split!Size
  <2>2. DOMAIN cs = 1 .. 1 /\ cs[1][2] = <<"single", single>>
    BY <2>1
  <2> HIDE DEF cs
  <2>3. \A j \in 1 .. 1 : j = 1
    OBVIOUS
  <2> QED
    BY <2>1, <2>2, <2>3 DEF CandidatesOf, cs
<1>2. CASE list # << >>
  <2>1. Split!Size(list) = Len(list) /\ Len(list) \in Nat \ {0} /\ DOMAIN list = 1 .. Len(list)
    BY <1>2 DEF Split!Size
  <2>2. cs = Split!Listed(list, prefix)
    BY <1>2 DEF Split!Candidates
  <2> DEFINE n == Len(list)
  <2> HIDE DEF cs
  <2>3. DOMAIN cs = 1 .. n /\ \A k \in 1 .. n : cs[k][2] = <<"listed", k>>
    BY <2>1, <2>2 DEF Split!Listed
  <2>4. \A j, k \in 1 .. n : cs[j][2] = cs[k][2] => j = k
    BY <2>3
  <2>5. \A j \in 1 .. n : cs[j][2][1] # "single"
    BY <2>3
  <2> HIDE DEF n
  <2> QED
    BY <2>1, <2>3, <2>4, <2>5 DEF CandidatesOf, cs, n
<1> QED
  BY <1>1, <1>2

\* What an entry has from its group, an entry of the group has.
LEMMA GroupHasIt ==
  ASSUME NEW es, NEW n \in Nat, DOMAIN es = 1 .. n, NEW i, NEW value, Split!FromGroup(es, i, value) # 0
  PROVE  \E j \in DOMAIN es : /\ Split!GroupOf(es, j) = Split!GroupOf(es, i)
                              /\ value[j] = Split!FromGroup(es, i, value)
<1> DEFINE S == {j \in DOMAIN es : Split!GroupOf(es, j) = Split!GroupOf(es, i) /\ value[j] # 0}
<1>1. Split!FromGroup(es, i, value)
        = IF S = {} THEN 0 ELSE value[CHOOSE j \in S : \A k \in S : j <= k]
  BY Zenon DEF Split!FromGroup
<1>2. S # {} /\ S \in SUBSET Nat
  <2>1. S # {}
    BY <1>1
  <2> QED
    BY <2>1
<1>3. \E j \in S : \A k \in S : j <= k
  BY <1>2, LeastOne
<1>4. (CHOOSE j \in S : \A k \in S : j <= k) \in S
  BY <1>3, Zenon
<1> QED
  BY <1>1, <1>2, <1>4, Zenon

\* A token or a key of its own comes from the group, a key also from the first entry.
LEMMA TokenFrom ==
  ASSUME NEW es, NEW n \in Nat, DOMAIN es = 1 .. n, NEW i \in 1 .. n, Split!Token(es, i) # 0
  PROVE  \E j \in DOMAIN es : es[j].token = Split!Token(es, i) /\ Split!GroupOf(es, j) = Split!GroupOf(es, i)
<1> DEFINE value == [j \in DOMAIN es |-> es[j].token]
<1>1. CASE es[i].token # 0
  BY <1>1, Zenon DEF Split!Token
<1>2. CASE es[i].token = 0
  <2>1. Split!Token(es, i) = Split!FromGroup(es, i, value)
    BY <1>2, Zenon DEF Split!Token
  <2>2. \A j \in DOMAIN es : value[j] = es[j].token
    OBVIOUS
  <2> HIDE DEF value
  <2>3. \E j \in DOMAIN es : /\ Split!GroupOf(es, j) = Split!GroupOf(es, i)
                             /\ value[j] = Split!FromGroup(es, i, value)
    BY <2>1, GroupHasIt
  <2> QED
    BY <2>1, <2>2, <2>3, Zenon
<1> QED
  BY <1>1, <1>2

\* The same of a key.
LEMMA KeyFrom ==
  ASSUME NEW es, NEW n \in Nat, DOMAIN es = 1 .. n, NEW i \in 1 .. n, Split!Key(es, i) # 0
  PROVE  \E j \in DOMAIN es : /\ es[j].key = Split!Key(es, i)
                              /\ j = 1 \/ Split!GroupOf(es, j) = Split!GroupOf(es, i)
<1> DEFINE value == [j \in DOMAIN es |-> Split!KeyOf(es, j)]
<1>1. \A j \in DOMAIN es : Split!KeyOf(es, j) = es[j].key \/ Split!KeyOf(es, j) = es[1].key
  BY Zenon DEF Split!KeyOf
<1>2. 1 \in DOMAIN es /\ i \in DOMAIN es
  OBVIOUS
<1>3. CASE Split!KeyOf(es, i) # 0
  BY <1>1, <1>2, <1>3, Zenon DEF Split!Key
<1>4. CASE Split!KeyOf(es, i) = 0
  <2>1. Split!Key(es, i) = Split!FromGroup(es, i, value)
    BY <1>4, Zenon DEF Split!Key
  <2>2. \A j \in DOMAIN es : value[j] = Split!KeyOf(es, j)
    OBVIOUS
  <2> HIDE DEF value
  <2>3. \E j \in DOMAIN es : /\ Split!GroupOf(es, j) = Split!GroupOf(es, i)
                             /\ value[j] = Split!FromGroup(es, i, value)
    BY <2>1, GroupHasIt
  <2> QED
    BY <1>1, <1>2, <2>1, <2>2, <2>3, Zenon
<1> QED
  BY <1>3, <1>4

\* A free name is free: of one number more than there are names, one is not used.
LEMMA FreeIsFree ==
  ASSUME NEW name, NEW used, IsFiniteSet(used)
  PROVE  Split!Free(name, used) \notin used
<1> DEFINE c == Cardinality(used)
           S == {n \in 1 .. c + 1 : <<name, n>> \notin used}
<1>1. c \in Nat
  BY FS_CardinalityType
<1>2. S # {}
  <2> SUFFICES ASSUME \A n \in 1 .. c + 1 : <<name, n>> \in used PROVE FALSE
    OBVIOUS
  <2> DEFINE f == [n \in 1 .. c + 1 |-> <<name, n>>]
  <2>1. f \in [1 .. c + 1 -> used]
    OBVIOUS
  <2>2. \A x, y \in 1 .. c + 1 : f[x] = f[y] => x = y
    OBVIOUS
  <2> HIDE DEF f
  <2>3. IsFiniteSet(1 .. c + 1) /\ Cardinality(1 .. c + 1) = c + 1
    BY <1>1, Numbers
  <2>4. Cardinality(used) < Cardinality(1 .. c + 1)
    BY <1>1, <2>3
  <2> HIDE DEF c
  <2>5. \E x, y \in 1 .. c + 1 : x # y /\ f[x] = f[y]
    BY <2>1, <2>3, <2>4, FS_PigeonHole
  <2> QED
    BY <2>2, <2>5
<1>3. PICK m \in S : \A k \in S : m <= k
  <2>1. S \in SUBSET Nat
    BY <1>1
  <2> HIDE DEF S
  <2> QED
    BY <1>2, <2>1, LeastOne
<1>4. \A k \in 1 .. m - 1 : <<name, k>> \in used
  <2> TAKE k \in 1 .. m - 1
  <2>1. k \in 1 .. c + 1 /\ ~(m <= k)
    BY <1>1, <1>3
  <2> QED
    BY <1>3, <2>1
<1>5. m \in 1 .. c + 1 /\ <<name, m>> \notin used
  BY <1>3
<1> DEFINE P(n) == <<name, n>> \notin used /\ \A k \in 1 .. n - 1 : <<name, k>> \in used
           x == CHOOSE n \in 1 .. c + 1 : P(n)
<1>6. P(m)
  BY <1>4, <1>5
<1>7. <<name, x>> \notin used
  <2> HIDE DEF P
  <2>1. P(x)
    BY <1>5, <1>6, Zenon
  <2> QED
    BY <2>1 DEF P
<1>8. Split!Free(name, used) = <<name, x>>
  BY Zenon DEF Split!Free, Split!Cardinality, Cardinality
<1> QED
  BY <1>7, <1>8, Zenon

\* A file of entries, and how many tokens and keys an entry has.
File(es, P, L) == es \in Seq(EntryOver(P, L))
TokenSize(es, i) == Split!Size(es[i].tokens)
KeySize(es, i)   == Split!Size(es[i].keys)

\* The candidates of an entry of a file.
LEMMA EntryCandidates ==
  ASSUME NEW P, NEW L, NEW es, File(es, P, L), NEW i \in DOMAIN es
  PROVE  /\ CandidatesOf(Split!Tokens(es, i), es[i].tokens, Split!Token(es, i))
         /\ CandidatesOf(Split!Keys(es, i), es[i].keys, Split!Key(es, i))
<1>1. es[i] \in EntryOver(P, L)
  BY DEF File
<1>2. es[i].tokens \in Seq(L) /\ es[i].keys \in Seq(L)
  BY <1>1, Zenon DEF EntryOver
<1> QED
  BY <1>2, CandidatesRight, Zenon DEF Split!Tokens, Split!Keys

\* A combination is one of an entry, a token and a key.
LEMMA CombinationParts ==
  ASSUME NEW P, NEW L, NEW es, File(es, P, L)
  PROVE  /\ \A c \in Split!Combinations(es) :
              /\ c = <<c[1], c[2], c[3]>> /\ c[1] \in DOMAIN es
              /\ c[2] \in 1 .. TokenSize(es, c[1]) /\ c[3] \in 1 .. KeySize(es, c[1])
         /\ \A i \in DOMAIN es : \A j \in 1 .. TokenSize(es, i), k \in 1 .. KeySize(es, i) :
              <<i, j, k>> \in Split!Combinations(es)
         /\ \A i \in DOMAIN es : TokenSize(es, i) \in Nat \ {0} /\ KeySize(es, i) \in Nat \ {0}
<1>1. \A i \in DOMAIN es : /\ DOMAIN Split!Tokens(es, i) = 1 .. TokenSize(es, i)
                           /\ DOMAIN Split!Keys(es, i) = 1 .. KeySize(es, i)
                           /\ TokenSize(es, i) \in Nat \ {0} /\ KeySize(es, i) \in Nat \ {0}
  <2> TAKE i \in DOMAIN es
  <2>1. /\ CandidatesOf(Split!Tokens(es, i), es[i].tokens, Split!Token(es, i))
        /\ CandidatesOf(Split!Keys(es, i), es[i].keys, Split!Key(es, i))
    BY EntryCandidates
  <2> QED
    BY <2>1, Zenon DEF CandidatesOf, TokenSize, KeySize
<1>2. ASSUME NEW c \in Split!Combinations(es)
      PROVE  /\ c = <<c[1], c[2], c[3]>> /\ c[1] \in DOMAIN es
             /\ c[2] \in 1 .. TokenSize(es, c[1]) /\ c[3] \in 1 .. KeySize(es, c[1])
  <2>1. PICK i \in DOMAIN es : c \in Split!CombinationsOf(es, i)
    BY Zenon DEF Split!Combinations
  <2>2. PICK j \in DOMAIN Split!Tokens(es, i), k \in DOMAIN Split!Keys(es, i) : c = <<i, j, k>>
    BY <2>1 DEF Split!CombinationsOf
  <2>3. c[1] = i /\ c[2] = j /\ c[3] = k
    BY <2>2
  <2> QED
    BY <1>1, <2>2, <2>3, Zenon
<1>3. ASSUME NEW i \in DOMAIN es, NEW j \in 1 .. TokenSize(es, i), NEW k \in 1 .. KeySize(es, i)
      PROVE  <<i, j, k>> \in Split!Combinations(es)
  <2>1. j \in DOMAIN Split!Tokens(es, i) /\ k \in DOMAIN Split!Keys(es, i)
    BY <1>1, Zenon
  <2>2. <<i, j, k>> \in Split!CombinationsOf(es, i)
    BY <2>1 DEF Split!CombinationsOf
  <2> QED
    BY <2>2, Zenon DEF Split!Combinations
<1> QED
  BY <1>1, <1>2, <1>3, Zenon

\* They are finitely many.
LEMMA CombinationsFinite ==
  ASSUME NEW P, NEW L, NEW es, File(es, P, L)
  PROVE  IsFiniteSet(Split!Combinations(es))
<1> DEFINE n == Len(es)
           All == {Split!CombinationsOf(es, i) : i \in DOMAIN es}
<1>1. n \in Nat /\ DOMAIN es = 1 .. n
  BY DEF File
<1>2. ASSUME NEW i \in DOMAIN es PROVE IsFiniteSet(Split!CombinationsOf(es, i))
  <2> DEFINE S == DOMAIN Split!Tokens(es, i)
             T == DOMAIN Split!Keys(es, i)
             f == [p \in S \X T |-> <<i, p[1], p[2]>>]
  <2>1. IsFiniteSet(S) /\ IsFiniteSet(T)
    <3> DEFINE s == Split!Size(es[i].tokens)
               t == Split!Size(es[i].keys)
    <3>1. /\ CandidatesOf(Split!Tokens(es, i), es[i].tokens, Split!Token(es, i))
          /\ CandidatesOf(Split!Keys(es, i), es[i].keys, Split!Key(es, i))
      BY EntryCandidates
    <3>2. S = 1 .. s /\ T = 1 .. t /\ s \in Nat /\ t \in Nat
      BY <3>1 DEF CandidatesOf
    <3> HIDE DEF s, t
    <3> QED
      BY <3>2, Numbers
  <2> HIDE DEF S, T
  <2>2. IsFiniteSet(S \X T)
    BY <2>1, FS_Product
  <2>3. f \in Surjection(S \X T, Split!CombinationsOf(es, i))
    <3>1. Split!CombinationsOf(es, i) = {<<i, j, k>> : j \in S, k \in T}
      BY DEF Split!CombinationsOf, S, T
    <3>2. f \in [S \X T -> Split!CombinationsOf(es, i)]
      BY <3>1
    <3>3. \A c \in Split!CombinationsOf(es, i) : \E p \in S \X T : f[p] = c
      <4> TAKE c \in Split!CombinationsOf(es, i)
      <4>1. PICK j \in S, k \in T : c = <<i, j, k>>
        BY <3>1
      <4>2. <<j, k>> \in S \X T /\ f[<<j, k>>] = c
        BY <4>1
      <4> QED
        BY <4>2
    <3> QED
      BY <3>2, <3>3 DEF Surjection
  <2> HIDE DEF f
  <2> QED
    BY <2>2, <2>3, FS_Surjection
<1>3. IsFiniteSet(All)
  <2> DEFINE f == [i \in DOMAIN es |-> Split!CombinationsOf(es, i)]
  <2>1. f \in Surjection(DOMAIN es, All)
    BY DEF Surjection
  <2>2. IsFiniteSet(DOMAIN es)
    BY <1>1, Numbers
  <2> HIDE DEF f, All
  <2> QED
    BY <2>1, <2>2, FS_Surjection
<1>4. \A T \in All : IsFiniteSet(T)
  BY <1>2
<1>5. Split!Combinations(es) = UNION All
  BY Zenon DEF Split!Combinations
<1> HIDE DEF All
<1> QED
  BY <1>3, <1>4, <1>5, FS_UNION

\* The loops give them in an order.
LEMMA InTurnRanked ==
  ASSUME NEW P, NEW L, NEW es, File(es, P, L)
  PROVE  \E R : Ranked(Split!InTurn(es), Split!Combinations(es), R)
<1> DEFINE C == Split!Combinations(es)
           R == {x \in C \X C : Split!Sooner(x[1], x[2])}
<1>1. ASSUME NEW c \in C
      PROVE  c[1] \in Nat /\ c[2] \in Nat /\ c[3] \in Nat /\ c = <<c[1], c[2], c[3]>>
  <2>1. DOMAIN es \in SUBSET Nat
    BY DEF File
  <2>2. /\ c = <<c[1], c[2], c[3]>> /\ c[1] \in DOMAIN es
        /\ c[2] \in 1 .. TokenSize(es, c[1]) /\ c[3] \in 1 .. KeySize(es, c[1])
    BY CombinationParts
  <2>3. TokenSize(es, c[1]) \in Nat /\ KeySize(es, c[1]) \in Nat
    BY <2>2, CombinationParts
  <2> QED
    BY ONLY <2>1, <2>2, <2>3
<1>2. IsFiniteSet(C)
  BY CombinationsFinite
<1> HIDE DEF C
<1>3. Orders(R, C)
  <2>1. \A x, y \in C : <<x, y>> \in R <=> Split!Sooner(x, y)
    OBVIOUS
  <2> HIDE DEF R
  <2>2. \A x \in C : ~Split!Sooner(x, x)
    BY <1>1 DEF Split!Sooner
  <2>3. \A x, y \in C : x # y => (Split!Sooner(x, y) <=> ~Split!Sooner(y, x))
    <3> TAKE x, y \in C
    <3>1. x # y => x[1] # y[1] \/ x[2] # y[2] \/ x[3] # y[3]
      BY <1>1, Zenon
    <3>2. /\ x[1] \in Nat /\ x[2] \in Nat /\ x[3] \in Nat
          /\ y[1] \in Nat /\ y[2] \in Nat /\ y[3] \in Nat
      BY <1>1
    <3> QED
      BY ONLY <3>1, <3>2 DEF Split!Sooner
  <2>4. \A x, y, z \in C : Split!Sooner(x, y) /\ Split!Sooner(y, z) => Split!Sooner(x, z)
    <3> TAKE x, y, z \in C
    <3>2. /\ x[1] \in Nat /\ x[2] \in Nat /\ x[3] \in Nat
          /\ y[1] \in Nat /\ y[2] \in Nat /\ y[3] \in Nat
          /\ z[1] \in Nat /\ z[2] \in Nat /\ z[3] \in Nat
      BY <1>1
    <3> QED
      BY ONLY <3>2 DEF Split!Sooner
  <2> QED
    BY <2>1, <2>2, <2>3, <2>4, Zenon DEF Orders
<1> HIDE DEF R
<1>4. Ranked(Arranged(C, R), C, R)
  BY <1>2, <1>3, ArrangedRanks
<1>5. Split!InTurn(es) = Arranged(C, R)
  BY Zenon DEF Split!InTurn, Split!Arranged, Arranged, Split!Cardinality, Cardinality, C, R
<1> QED
  BY <1>4, <1>5, Zenon DEF C

-----------------------------------------------------------------------------
(* The rows of a file.                                                      *)

\* The rows are added one after the other.
LEMMA FlattenOneByOne ==
  ASSUME NEW q, NEW T, NEW ls \in Seq(T)
  PROVE  \E a : OneByOne(a, "row", q, << >>, ls) /\ Split!RowsOf(q.entries, ls) = a[Len(ls)]
<1> DEFINE g == CHOOSE g : Filled(g, "row", q, << >>, ls, Len(ls))
<1>1. /\ DOMAIN ls = 1 .. Len(ls) /\ Len(ls) \in Nat
      /\ "row" # "match" /\ "row" # "find" /\ "row" # "rule" /\ "row" # "piece" /\ "row" # "size"
  OBVIOUS
<1>2. Filled(g, "row", q, << >>, ls, Len(ls))
  BY <1>1, TableExists, Zenon
<1>3. Split!RowsOf(q.entries, ls) = g[1 .. Len(ls)]
  BY <1>1, ZenonT(60)
     DEF Split!RowsOf, Split!FoldLeft, Split!MapThenFoldSet, Filled, FoldStep, Split!Max, Scan!Max
<1> HIDE DEF g
<1>4. \E a : OneByOne(a, "row", q, << >>, ls) /\ g[1 .. Len(ls)] = a[Len(ls)]
  BY ONLY <1>2, TableOneByOne, ls \in Seq(T)
<1> QED
  BY <1>3, <1>4, Zenon

\* The first combination of an entry.
Leads(c) == c[2] = 1 /\ c[3] = 1

\* Row r is that of combination c.
RowOf(r, es, c) ==
  /\ r.source = c[1] /\ (r.derived <=> ~Leads(c)) /\ (r.on <=> Leads(c) /\ es[c[1]].on)
  /\ r.token = Split!Tokens(es, c[1])[c[2]][2] /\ r.key = Split!Keys(es, c[1])[c[3]][2]
  /\ Leads(c) => r.name = <<es[c[1]].name, 1>>
  /\ ~Leads(c) => r.name \notin Split!Names(es)

\* The rows of the first k combinations, each with a name of its own.
RowsTo(rows, es, at, k) ==
  /\ \E U : rows \in Seq(U)
  /\ Len(rows) = k
  /\ \A j \in 1 .. k : RowOf(rows[j], es, at[j])
  /\ \A i, j \in 1 .. k : i < j => rows[i].name # rows[j].name

\* No two entries have one name.
Named(es) == \A i, j \in DOMAIN es : es[i].name = es[j].name => i = j

\* The names in use are finitely many.
LEMMA UsedFinite ==
  ASSUME NEW P, NEW L, NEW es, File(es, P, L), NEW U, NEW rows \in Seq(U)
  PROVE  IsFiniteSet(Split!Used(es, rows))
<1>1. IsFiniteSet(DOMAIN es) /\ IsFiniteSet(DOMAIN rows)
  <2>1. /\ DOMAIN es = 1 .. Len(es) /\ Len(es) \in Nat
        /\ DOMAIN rows = 1 .. Len(rows) /\ Len(rows) \in Nat
    BY DEF File
  <2> QED
    BY <2>1, Numbers
<1>2. IsFiniteSet(Split!Names(es))
  <2> DEFINE f == [i \in DOMAIN es |-> <<es[i].name, 1>>]
  <2>1. f \in Surjection(DOMAIN es, Split!Names(es))
    BY DEF Surjection, Split!Names
  <2> HIDE DEF f
  <2> QED
    BY <1>1, <2>1, FS_Surjection
<1>3. IsFiniteSet({rows[k].name : k \in DOMAIN rows})
  <2> DEFINE f == [k \in DOMAIN rows |-> rows[k].name]
             S == {rows[k].name : k \in DOMAIN rows}
  <2>1. f \in Surjection(DOMAIN rows, S)
    BY DEF Surjection
  <2> HIDE DEF f, S
  <2>2. IsFiniteSet(S)
    BY <1>1, <2>1, FS_Surjection
  <2> QED
    BY <2>2 DEF S
<1>4. IsFiniteSet(Split!Names(es) \cup {rows[k].name : k \in DOMAIN rows})
  BY <1>2, <1>3, FS_Union
<1> QED
  BY <1>4, Zenon DEF Split!Used

\* A new row is that of its combination, and what is derived has a name not in use.
LEMMA NewRow ==
  ASSUME NEW es, NEW c, NEW used, IsFiniteSet(used), Split!Names(es) \subseteq used
  PROVE  /\ RowOf(Split!Row(es, c, used), es, c)
         /\ ~Leads(c) => Split!Row(es, c, used).name \notin used
<1> DEFINE name == Split!Join(Split!Join(es[c[1]].name, Split!Tokens(es, c[1])[c[2]][1]),
                              Split!Keys(es, c[1])[c[3]][1])
           r == Split!Row(es, c, used)
<1>1. Split!Free(name, used) \notin used
  BY FreeIsFree
<1>2. /\ r.source = c[1] /\ (r.derived <=> ~Leads(c)) /\ (r.on <=> Leads(c) /\ es[c[1]].on)
      /\ r.token = Split!Tokens(es, c[1])[c[2]][2] /\ r.key = Split!Keys(es, c[1])[c[3]][2]
      /\ r.name = IF Leads(c) THEN <<es[c[1]].name, 1>> ELSE Split!Free(name, used)
  BY Zenon DEF Split!Row, Leads
<1> HIDE DEF r, name
<1> QED
  BY <1>1, <1>2, Zenon DEF RowOf, r

\* One more row is added.
LEMMA RowAdded ==
  ASSUME NEW P, NEW L, NEW es, File(es, P, L), Named(es), NEW at, NEW R,
         Ranked(at, Split!Combinations(es), R), NEW k \in Nat, k < Len(at), NEW c, c = at[k + 1],
         NEW rows, RowsTo(rows, es, at, k)
  PROVE  RowsTo(Split!AddRow(rows, c, es), es, at, k + 1)
<1> DEFINE used == Split!Used(es, rows)
           r == Split!Row(es, c, used)
           new == Append(rows, r)
<1>1. PICK U : rows \in Seq(U)
  BY DEF RowsTo
<1>2. /\ Len(rows) = k /\ \A j \in 1 .. k : RowOf(rows[j], es, at[j])
      /\ \A i, j \in 1 .. k : i < j => rows[i].name # rows[j].name
  BY Zenon DEF RowsTo
<1>3. IsFiniteSet(used)
  BY <1>1, UsedFinite
<1>4. Split!Names(es) \subseteq used
  BY Zenon DEF Split!Used
<1>5. \A j \in 1 .. k : rows[j].name \in used
  <2>1. DOMAIN rows = 1 .. k
    BY <1>1, <1>2
  <2> QED
    BY <2>1, Zenon DEF Split!Used
<1> HIDE DEF used
<1>6. RowOf(r, es, c) /\ (~Leads(c) => r.name \notin used)
  BY <1>3, <1>4, NewRow
<1> HIDE DEF r
<1>7. Longer(new, rows, r, k)
  BY <1>1, <1>2, Appended
<1> HIDE DEF new
<1>8. \A j \in 1 .. k + 1 : j \in 1 .. k \/ j = k + 1
  OBVIOUS
<1>9. \A j \in 1 .. k + 1 : RowOf(new[j], es, at[j])
  BY <1>2, <1>6, <1>7, <1>8, Zenon DEF Longer
<1>10. ASSUME NEW j \in 1 .. k PROVE rows[j].name # r.name
  <2>1. CASE ~Leads(c)
    BY <1>5, <1>6, <2>1, Zenon
  <2>2. CASE Leads(c) /\ ~Leads(at[j])
    <3>1. rows[j].name \notin Split!Names(es) /\ r.name = <<es[c[1]].name, 1>>
      BY <1>2, <1>6, <2>2, Zenon DEF RowOf
    <3>2. c[1] \in DOMAIN es
      <4>1. c \in Split!Combinations(es)
        BY DEF Ranked
      <4> QED
        BY <4>1, CombinationParts
    <3> QED
      BY <3>1, <3>2 DEF Split!Names
  <2>3. CASE Leads(c) /\ Leads(at[j])
    <3>1. at[j] \in Split!Combinations(es) /\ c \in Split!Combinations(es) /\ at[j] # c
      <4> DEFINE C == Split!Combinations(es)
      <4> HIDE DEF C
      <4>1. at \in Seq(C) /\ \A i, h \in 1 .. Len(at) : i < h => at[i] # at[h]
        BY DEF Ranked, C
      <4>2. j \in 1 .. Len(at) /\ k + 1 \in 1 .. Len(at) /\ j < k + 1
        BY <4>1
      <4>3. at[j] \in C /\ at[k + 1] \in C
        BY <4>1, <4>2
      <4> QED
        BY <4>1, <4>2, <4>3 DEF C
    <3>2. /\ at[j] = <<at[j][1], at[j][2], at[j][3]>> /\ c = <<c[1], c[2], c[3]>>
          /\ at[j][1] \in DOMAIN es /\ c[1] \in DOMAIN es
      BY <3>1, CombinationParts
    <3>3. at[j][1] # c[1]
      BY <2>3, <3>1, <3>2, Zenon DEF Leads
    <3>4. es[at[j][1]].name # es[c[1]].name
      BY <3>2, <3>3, Zenon DEF Named
    <3>5. rows[j].name = <<es[at[j][1]].name, 1>> /\ r.name = <<es[c[1]].name, 1>>
      BY <1>2, <1>6, <2>3, Zenon DEF RowOf
    <3> QED
      BY <3>4, <3>5
  <2> QED
    BY <2>1, <2>2, <2>3, Zenon
<1>11. \A i, j \in 1 .. k + 1 : i < j => new[i].name # new[j].name
  <2> SUFFICES ASSUME NEW i \in 1 .. k + 1, NEW j \in 1 .. k + 1, i < j PROVE new[i].name # new[j].name
    OBVIOUS
  <2>1. i \in 1 .. k
    OBVIOUS
  <2>2. CASE j \in 1 .. k
    BY <1>2, <1>7, <2>1, <2>2, Zenon DEF Longer
  <2>3. CASE j = k + 1
    BY <1>7, <1>10, <2>1, <2>3, Zenon DEF Longer
  <2> QED
    BY <1>8, <2>2, <2>3
<1>12. RowsTo(new, es, at, k + 1)
  BY <1>7, <1>9, <1>11, Zenon DEF RowsTo, Longer
<1>13. Split!AddRow(rows, c, es) = new
  BY Zenon DEF Split!AddRow, new, r, used
<1> QED
  BY <1>12, <1>13

\* The rows of a file are those of its combinations.
LEMMA FlattenRight ==
  ASSUME NEW P, NEW L, NEW es, File(es, P, L), Named(es)
  PROVE  \E at, R : /\ Ranked(at, Split!Combinations(es), R)
                    /\ RowsTo(Split!Flatten(es), es, at, Len(at))
<1> DEFINE at == Split!InTurn(es)
           C == Split!Combinations(es)
           q == [entries |-> es]
           n == Len(at)
<1>1. PICK R : Ranked(at, C, R)
  BY InTurnRanked
<1>2. at \in Seq(C) /\ n \in Nat
  BY <1>1 DEF Ranked
<1>3. q.entries = es /\ Split!Flatten(es) = Split!RowsOf(es, at)
  BY Zenon DEF Split!Flatten
<1> HIDE DEF q, at, C
<1>4. PICK a : OneByOne(a, "row", q, << >>, at) /\ Split!RowsOf(q.entries, at) = a[Len(at)]
  BY <1>2, FlattenOneByOne
<1> DEFINE S == {k \in 0 .. n : RowsTo(a[k], es, at, k)}
<1>5. 0 \in S
  <2>1. a[0] = << >>
    BY <1>4 DEF OneByOne
  <2>2. \E U : << >> \in Seq(U)
    <3>1. << >> \in Seq(Nat)
      OBVIOUS
    <3> QED
      BY <3>1
  <2>3. Len(<< >>) = 0 /\ \A j : j \notin 1 .. 0
    OBVIOUS
  <2>4. RowsTo(<< >>, es, at, 0)
    BY <2>2, <2>3, Zenon DEF RowsTo
  <2> QED
    BY <1>2, <2>1, <2>4
<1>6. ASSUME NEW k \in 0 .. n - 1, k \in S PROVE k + 1 \in S
  <2>1. a[k + 1] = FoldStep("row", q, a[k], at[k + 1])
    BY <1>4, Zenon DEF OneByOne, n
  <2>2. a[k + 1] = Split!AddRow(a[k], at[k + 1], es)
    <3>1. "row" # "match" /\ "row" # "find" /\ "row" # "rule" /\ "row" # "piece" /\ "row" # "size"
      OBVIOUS
    <3> QED
      BY <1>3, <2>1, <3>1, Zenon DEF FoldStep
  <2>3. k \in Nat /\ k < Len(at) /\ k + 1 \in 0 .. n
    BY <1>2 DEF n
  <2>4. RowsTo(a[k], es, at, k)
    BY <1>6
  <2> DEFINE c == at[k + 1]
  <2>5. c = at[k + 1]
    OBVIOUS
  <2>6. Ranked(at, Split!Combinations(es), R)
    BY <1>1 DEF C
  <2> HIDE DEF c, n, S
  <2>7. RowsTo(Split!AddRow(a[k], c, es), es, at, k + 1)
    BY <2>3, <2>4, <2>5, <2>6, RowAdded
  <2> QED
    BY <2>2, <2>3, <2>5, <2>7 DEF S
<1>7. n \in 0 .. n
  BY <1>2
<1> HIDE DEF S
<1>8. n \in S
  BY <1>2, <1>5, <1>6, <1>7, UpTo
<1> QED
  BY <1>1, <1>3, <1>4, <1>8, Zenon DEF S, n, C

\* What the rows are of a file: n in all, each of its combination.
Placed(rows, es, at, n) ==
  /\ n \in Nat /\ DOMAIN rows = 1 .. n
  /\ \A k \in 1 .. n : at[k] \in Split!Combinations(es) /\ RowOf(rows[k], es, at[k])
  /\ \A c \in Split!Combinations(es) : \E k \in 1 .. n : at[k] = c
  /\ \A j, k \in 1 .. n : at[j] = at[k] => j = k
  /\ \A j, k \in 1 .. n : j # k => rows[j].name # rows[k].name

\* The rows of a file are so.
LEMMA FlattenPlaced ==
  ASSUME NEW P, NEW L, NEW es, File(es, P, L), Named(es)
  PROVE  \E at, n : Placed(Split!Flatten(es), es, at, n)
<1> DEFINE C == Split!Combinations(es)
           rows == Split!Flatten(es)
<1>1. PICK at, R : Ranked(at, C, R) /\ RowsTo(rows, es, at, Len(at))
  BY FlattenRight
<1> DEFINE n == Len(at)
<1> HIDE DEF C, rows
<1>2. at \in Seq(C) /\ n \in Nat
  BY <1>1 DEF Ranked
<1>3. \A k \in 1 .. n : at[k] \in C
  BY <1>2
<1>4. DOMAIN rows = 1 .. n
  BY <1>1, <1>2 DEF RowsTo
<1>5. \A k \in 1 .. n : RowOf(rows[k], es, at[k])
  BY <1>1, Zenon DEF RowsTo, n
<1>6. \A c \in C : \E k \in 1 .. n : at[k] = c
  BY <1>1, Zenon DEF Ranked, n
<1>7. \A j, k \in 1 .. n : j < k => at[j] # at[k] /\ rows[j].name # rows[k].name
  BY <1>1, Zenon DEF Ranked, RowsTo, n
<1>8. \A j, k \in 1 .. n : j < k \/ k < j \/ j = k
  BY <1>2
<1> HIDE DEF n
<1> QED
  <2>1. Placed(rows, es, at, n)
    BY <1>2, <1>3, <1>4, <1>5, <1>6, <1>7, <1>8, Zenon DEF Placed, C
  <2> QED
    BY <2>1, Zenon DEF rows

\* Equal sets have equally many members, wherever they are counted.
LEMMA SplitCounts == \A S : Split!Cardinality(S) = Cardinality(S)
  BY Zenon DEF Split!Cardinality, Cardinality

\* The rows of an entry are those of its pairs, each with its own token and key.
LEMMA PairsRight ==
  ASSUME NEW P, NEW L, NEW es, File(es, P, L), NEW rows, NEW at, NEW n, Placed(rows, es, at, n),
         NEW i \in DOMAIN es
  PROVE  Split!PairsKept(es, rows, i)
<1> DEFINE own == Split!Own(rows, i)
           t == TokenSize(es, i)
           u == KeySize(es, i)
           pairs == (1 .. t) \X (1 .. u)
           pair(k) == <<rows[k].token, rows[k].key>>
           values == {pair(k) : k \in own}
<1>1. t \in Nat \ {0} /\ u \in Nat \ {0} /\ n \in Nat
  BY CombinationParts, Zenon DEF Placed
<1>2. \A k \in own : /\ k \in 1 .. n /\ at[k] = <<i, at[k][2], at[k][3]>>
                     /\ at[k][2] \in 1 .. t /\ at[k][3] \in 1 .. u
                     /\ RowOf(rows[k], es, at[k])
  <2> TAKE k \in own
  <2>1. k \in 1 .. n /\ rows[k].source = i
    BY Zenon DEF Split!Own, Placed
  <2>2. at[k] \in Split!Combinations(es) /\ RowOf(rows[k], es, at[k])
    BY <2>1, Zenon DEF Placed
  <2>3. at[k][1] = i
    BY <2>1, <2>2, Zenon DEF RowOf
  <2>4. /\ at[k] = <<at[k][1], at[k][2], at[k][3]>>
        /\ at[k][2] \in 1 .. TokenSize(es, at[k][1]) /\ at[k][3] \in 1 .. KeySize(es, at[k][1])
    BY <2>2, CombinationParts
  <2> QED
    BY <2>1, <2>2, <2>3, <2>4, Zenon
<1>3. ASSUME NEW j \in 1 .. t, NEW l \in 1 .. u
      PROVE  \E k \in own : at[k] = <<i, j, l>>
  <2>1. <<i, j, l>> \in Split!Combinations(es)
    BY CombinationParts, Zenon
  <2>2. PICK k \in 1 .. n : at[k] = <<i, j, l>>
    BY <2>1, Zenon DEF Placed
  <2>3. rows[k].source = i
    <3>1. at[k][1] = i
      BY <2>2
    <3> QED
      BY <3>1, Zenon DEF Placed, RowOf
  <2> QED
    BY <2>2, <2>3, Zenon DEF Split!Own, Placed
<1>4. \A j, k \in own : at[j] = at[k] => j = k
  BY <1>2, Zenon DEF Placed
<1>5. \A k \in own : pair(k) = <<Split!Tokens(es, i)[at[k][2]][2], Split!Keys(es, i)[at[k][3]][2]>>
  <2> TAKE k \in own
  <2>1. at[k][1] = i
    BY <1>2
  <2> QED
    BY <1>2, <2>1, Zenon DEF RowOf
<1>6. /\ \A j, k \in 1 .. t : Split!Tokens(es, i)[j][2] = Split!Tokens(es, i)[k][2] => j = k
      /\ \A j, k \in 1 .. u : Split!Keys(es, i)[j][2] = Split!Keys(es, i)[k][2] => j = k
  <2>1. /\ CandidatesOf(Split!Tokens(es, i), es[i].tokens, Split!Token(es, i))
        /\ CandidatesOf(Split!Keys(es, i), es[i].keys, Split!Key(es, i))
    BY EntryCandidates
  <2> QED
    BY <2>1, Zenon DEF CandidatesOf, TokenSize, KeySize
<1> HIDE DEF t, u
<1>7. IsFiniteSet(own)
  <2>1. own \in SUBSET (1 .. n)
    BY <1>2
  <2>2. IsFiniteSet(1 .. n)
    BY <1>1, Numbers
  <2> HIDE DEF own
  <2> QED
    BY <2>1, <2>2, FS_Subset
<1> HIDE DEF own
<1>8. \A j, k \in own : pair(j) = pair(k) => j = k
  <2> SUFFICES ASSUME NEW j \in own, NEW k \in own, pair(j) = pair(k) PROVE j = k
    OBVIOUS
  <2>1. at[j][2] = at[k][2] /\ at[j][3] = at[k][3]
    <3>1. /\ Split!Tokens(es, i)[at[j][2]][2] = Split!Tokens(es, i)[at[k][2]][2]
          /\ Split!Keys(es, i)[at[j][3]][2] = Split!Keys(es, i)[at[k][3]][2]
      BY <1>5
    <3> QED
      BY <1>2, <1>6, <3>1, Zenon
  <2>2. at[j] = at[k]
    BY <1>2, <2>1, Zenon
  <2> QED
    BY <1>4, <2>2, Zenon
<1>9. Cardinality(values) = Cardinality(own)
  <2> DEFINE f == [k \in own |-> pair(k)]
  <2>1. f \in Bijection(own, values)
    <3>1. f \in [own -> values] /\ \A k \in own : f[k] = pair(k)
      OBVIOUS
    <3>2. \A v \in values : \E k \in own : f[k] = v
      OBVIOUS
    <3> HIDE DEF f, pair, values
    <3> QED
      BY <1>8, <3>1, <3>2, Zenon DEF Bijection, Injection, Surjection, IsInjective
  <2> HIDE DEF f, values
  <2>2. ExistsBijection(own, values)
    BY <2>1, Zenon DEF ExistsBijection
  <2> QED
    BY <1>7, <2>2, FS_Bijection
<1>10. Cardinality(own) = t * u
  <2> DEFINE f == [k \in own |-> <<at[k][2], at[k][3]>>]
  <2>1. f \in [own -> pairs]
    BY <1>2
  <2>2. \A j, k \in own : f[j] = f[k] => j = k
    <3> SUFFICES ASSUME NEW j \in own, NEW k \in own, f[j] = f[k] PROVE j = k
      BY Zenon
    <3>1. at[j][2] = at[k][2] /\ at[j][3] = at[k][3]
      OBVIOUS
    <3> QED
      BY <1>2, <1>4, <3>1, Zenon
  <2>3. \A p \in pairs : \E k \in own : f[k] = p
    <3> TAKE p \in pairs
    <3>1. PICK k \in own : at[k] = <<i, p[1], p[2]>>
      BY <1>3
    <3>2. f[k] = p
      BY <3>1
    <3> QED
      BY <3>2
  <2> HIDE DEF f, pairs
  <2>4. f \in Bijection(own, pairs)
    BY <2>1, <2>2, <2>3, Zenon DEF Bijection, Injection, Surjection, IsInjective
  <2>5. ExistsBijection(own, pairs)
    BY <2>4, Zenon DEF ExistsBijection
  <2>6. Cardinality(pairs) = Cardinality(own)
    BY <1>7, <2>5, FS_Bijection
  <2>7. Cardinality(pairs) = t * u
    <3>1. IsFiniteSet(1 .. t) /\ Cardinality(1 .. t) = t /\ IsFiniteSet(1 .. u) /\ Cardinality(1 .. u) = u
      BY <1>1, Numbers
    <3>2. Cardinality((1 .. t) \X (1 .. u)) = Cardinality(1 .. t) * Cardinality(1 .. u)
      BY <3>1, FS_Product
    <3> QED
      BY <3>1, <3>2, Zenon DEF pairs
  <2> QED
    BY <2>6, <2>7
<1>11. \A k \in own : rows[k].on <=> rows[k].name = <<es[i].name, 1>> /\ es[i].on
  <2> TAKE k \in own
  <2>1. at[k][1] = i /\ RowOf(rows[k], es, at[k])
    BY <1>2
  <2>2. <<es[i].name, 1>> \in Split!Names(es)
    BY Zenon DEF Split!Names
  <2> QED
    BY <2>1, <2>2, Zenon DEF RowOf
<1>12. {k \in own : rows[k].on} = {k \in own : rows[k].name = <<es[i].name, 1>> /\ es[i].on}
  BY <1>11
<1> QED
  BY <1>9, <1>10, <1>12, SplitCounts, Zenon DEF Split!PairsKept, own, t, u, TokenSize, KeySize

\* A credential that is not from a list is the entry's, its group's or the first one's.
LEMMA CredentialsRight ==
  ASSUME NEW P, NEW L, NEW es, File(es, P, L), NEW r, NEW c \in Split!Combinations(es), RowOf(r, es, c)
  PROVE  r.source \in DOMAIN es /\ Split!CredentialsKept(es, r)
<1> DEFINE i == c[1]
           n == Len(es)
<1>1. /\ i \in DOMAIN es /\ c[2] \in 1 .. TokenSize(es, i) /\ c[3] \in 1 .. KeySize(es, i)
  BY CombinationParts
<1>2. /\ CandidatesOf(Split!Tokens(es, i), es[i].tokens, Split!Token(es, i))
      /\ CandidatesOf(Split!Keys(es, i), es[i].keys, Split!Key(es, i))
  BY <1>1, EntryCandidates
<1>3. /\ r.source = i /\ r.token = Split!Tokens(es, i)[c[2]][2] /\ r.key = Split!Keys(es, i)[c[3]][2]
  BY Zenon DEF RowOf
<1>4. n \in Nat /\ DOMAIN es = 1 .. n
  BY DEF File
<1> HIDE DEF i, n
<1>5. /\ r.token[1] = "single" => r.token[2] = Split!Token(es, i)
      /\ r.key[1] = "single" => r.key[2] = Split!Key(es, i)
  <2>1. \A j \in 1 .. TokenSize(es, i) :
          Split!Tokens(es, i)[j][2][1] = "single" => Split!Tokens(es, i)[j][2][2] = Split!Token(es, i)
    BY <1>2, Zenon DEF CandidatesOf, TokenSize
  <2>2. \A j \in 1 .. KeySize(es, i) :
          Split!Keys(es, i)[j][2][1] = "single" => Split!Keys(es, i)[j][2][2] = Split!Key(es, i)
    BY <1>2, Zenon DEF CandidatesOf, KeySize
  <2> DEFINE x == Split!Tokens(es, i)[c[2]][2]
             y == Split!Keys(es, i)[c[3]][2]
  <2>3. /\ x[1] = "single" => x[2] = Split!Token(es, i)
        /\ y[1] = "single" => y[2] = Split!Key(es, i)
    BY <1>1, <2>1, <2>2
  <2>4. r.token = x /\ r.key = y
    BY <1>3
  <2> HIDE DEF x, y
  <2> QED
    BY <2>3, <2>4
<1>6. Split!Token(es, i) # 0 =>
        \E j \in DOMAIN es : /\ es[j].token = Split!Token(es, i)
                             /\ Split!GroupOf(es, j) = Split!GroupOf(es, i)
  BY <1>1, <1>4, TokenFrom
<1>7. Split!Key(es, i) # 0 =>
        \E j \in DOMAIN es : /\ es[j].key = Split!Key(es, i)
                             /\ j = 1 \/ Split!GroupOf(es, j) = Split!GroupOf(es, i)
  BY <1>1, <1>4, KeyFrom
<1> QED
  BY <1>1, <1>3, <1>5, <1>6, <1>7, Zenon DEF Split!CredentialsKept

\* A scope of names of entries comes to that of all their rows.
LEMMA ScopeRight ==
  ASSUME NEW P, NEW L, NEW es, File(es, P, L), Named(es), NEW rows, NEW at, NEW n,
         Placed(rows, es, at, n),
         NEW scope, \A x \in scope : \E i \in DOMAIN es : es[i].name = x
  PROVE  Split!ScopeKept(es, rows, scope)
<1> DEFINE name(k) == es[rows[k].source].name
<1>1. ASSUME NEW k \in DOMAIN rows
      PROVE  /\ rows[k].source \in DOMAIN es
             /\ ~rows[k].derived => rows[k].name = <<name(k), 1>>
             /\ rows[k].derived => rows[k].name \notin Split!Names(es)
  <2>1. k \in 1 .. n
    BY Zenon DEF Placed
  <2>2. at[k] \in Split!Combinations(es) /\ RowOf(rows[k], es, at[k])
    BY <2>1, Zenon DEF Placed
  <2>3. at[k][1] \in DOMAIN es
    BY <2>2, CombinationParts
  <2> QED
    BY <2>2, <2>3, Zenon DEF RowOf
<1>2. \A j, k \in DOMAIN rows : rows[j].name = rows[k].name => j = k
  BY Zenon DEF Placed
<1>3. \A x \in scope : <<x, 1>> \in Split!Names(es)
  BY Zenon DEF Split!Names
<1>4. \A x, y : <<x, 1>> = <<y, 1>> => x = y
  OBVIOUS
<1>5. \A v : v \in Split!Expand(rows, es, scope) <=>
               \/ \E x \in scope : v = <<x, 1>>
               \/ \E x \in scope : \E h \in DOMAIN rows : rows[h].derived /\ name(h) = x /\ v = rows[h].name
  <2>1. \A x : \A v : v \in Split!DerivedOf(rows, es, x) <=>
                        \E h \in DOMAIN rows : rows[h].derived /\ name(h) = x /\ v = rows[h].name
    BY DEF Split!DerivedOf
  <2>2. \A v : v \in Split!Expand(rows, es, scope) <=>
                 (\E x \in scope : v = <<x, 1>>) \/ (\E x \in scope : v \in Split!DerivedOf(rows, es, x))
    BY DEF Split!Expand
  <2> HIDE DEF name
  <2> QED
    BY <2>1, <2>2
<1>6. ASSUME NEW k \in DOMAIN rows, rows[k].name \in Split!Expand(rows, es, scope)
      PROVE  name(k) \in scope
  <2>1. CASE \E x \in scope : rows[k].name = <<x, 1>>
    BY <1>1, <1>3, <1>4, <2>1, Zenon
  <2>2. CASE \E x \in scope : \E h \in DOMAIN rows : /\ rows[h].derived /\ name(h) = x
                                                     /\ rows[k].name = rows[h].name
    BY <1>2, <2>2, Zenon
  <2> QED
    BY <1>5, <1>6, <2>1, <2>2, Zenon
<1>7. ASSUME NEW k \in DOMAIN rows, name(k) \in scope
      PROVE  rows[k].name \in Split!Expand(rows, es, scope)
  BY <1>1, <1>5, <1>7, Zenon
<1> QED
  BY <1>6, <1>7, Zenon DEF Split!ScopeKept

\* What can be split: entries over any names, groups and labels, and a scope of names of theirs.
Splittable(c, P, L) ==
  File(c.entries, P, L) /\ \A x \in c.scope : \E i \in DOMAIN c.entries : c.entries[i].name = x

\* Whatever file is split that is not refused (FlattenLegacyEndpoints): no two rows have
\* one name, every pair of credentials of an entry has one row, credentials stay in their
\* group, and scopes and the route follow.
THEOREM SplitsLoseNothing == \A P, L, c : Splittable(c, P, L) => Split!SplitLosesNothing(c)
<1> SUFFICES ASSUME NEW P, NEW L, NEW c, Splittable(c, P, L), ~Split!Rejected(c)
             PROVE  Split!Kept(c.entries, Split!Flatten(c.entries), c.scope, c.target)
  BY Zenon DEF Split!SplitLosesNothing
<1> DEFINE es == c.entries
           rows == Split!Flatten(es)
<1>1. File(es, P, L) /\ Named(es) /\ \A x \in c.scope : \E i \in DOMAIN es : es[i].name = x
  BY Zenon DEF Split!Rejected, Named, Splittable
<1>2. PICK at, n : Placed(rows, es, at, n)
  BY <1>1, FlattenPlaced
<1> HIDE DEF rows
<1>3. \A j, k \in DOMAIN rows : j # k => rows[j].name # rows[k].name
  BY <1>2, Zenon DEF Placed
<1>4. \A i \in DOMAIN es : Split!PairsKept(es, rows, i)
  BY <1>1, <1>2, PairsRight
<1>5. \A k \in DOMAIN rows : rows[k].source \in DOMAIN es /\ Split!CredentialsKept(es, rows[k])
  <2> TAKE k \in DOMAIN rows
  <2>1. at[k] \in Split!Combinations(es) /\ RowOf(rows[k], es, at[k])
    BY <1>2, Zenon DEF Placed
  <2> QED
    BY <1>1, <2>1, CredentialsRight
<1>6. Split!ScopeKept(es, rows, c.scope)
  BY <1>1, <1>2, ScopeRight
<1>7. ASSUME NEW i \in DOMAIN es, es[i].name = c.target PROVE Split!Repair(rows, c.target) = c.target
  <2> DEFINE first == <<i, 1, 1>>
  <2>1. first \in Split!Combinations(es)
    <3>1. TokenSize(es, i) \in Nat \ {0} /\ KeySize(es, i) \in Nat \ {0}
      BY <1>1, CombinationParts
    <3>2. 1 \in 1 .. TokenSize(es, i) /\ 1 \in 1 .. KeySize(es, i)
      BY <3>1
    <3> QED
      BY <1>1, <3>2, CombinationParts
  <2>2. first[1] = i /\ Leads(first)
    BY DEF Leads
  <2> HIDE DEF first
  <2>3. PICK k \in DOMAIN rows : at[k] = first /\ RowOf(rows[k], es, at[k])
    BY <1>2, <2>1, Zenon DEF Placed
  <2>4. rows[k].name = <<c.target, 1>>
    BY <1>7, <2>2, <2>3, Zenon DEF RowOf
  <2> QED
    BY <2>4, Zenon DEF Split!Repair
<1> QED
  BY <1>3, <1>4, <1>5, <1>6, <1>7, Zenon DEF Split!Kept, rows

-----------------------------------------------------------------------------
(* The inputs of the run.                                                   *)

\* Short sequences over any set are sequences over it.
LEMMA ShortLists ==
  ASSUME NEW L, NEW a \in L, NEW b \in L
  PROVE  << >> \in Seq(L) /\ <<a>> \in Seq(L) /\ <<a, b>> \in Seq(L)
<1>1. << >> \in Seq(L) /\ <<a>> \in Seq(L)
  OBVIOUS
<1>2. <<a, b>> \in Seq(L)
  OBVIOUS
<1> QED
  BY <1>1, <1>2

\* Entries whose lists are short are entries over any names they have.
LEMMA EntriesFit ==
  ASSUME NEW P, NEW L, NEW ns \in SUBSET P, NEW gs \in SUBSET L, NEW ts \in SUBSET Seq(L),
         NEW ks \in SUBSET Seq(L), NEW prio \in Int, NEW e \in Legacy(ns, gs, ts, ks, prio)
  PROVE  e \in EntryOver(P, L) /\ e.name \in ns
<1> DEFINE T == Seq(L)
<1>1. e \in [name : ns, url : {TRUE}, group : gs, token : {0, 1}, key : {0, 1}, tokens : ts, keys : ks,
             on : {TRUE}, prio : {prio}, groupPrio : {1}]
  BY Zenon DEF Legacy
<1>3. ts \subseteq T /\ ks \subseteq T
  OBVIOUS
<1> HIDE DEF T
<1>2. PICK n \in ns, g \in gs, to \in {0, 1}, k \in {0, 1}, tl \in ts, kl \in ks :
        e = [name |-> n, url |-> TRUE, group |-> g, token |-> to, key |-> k, tokens |-> tl,
             keys |-> kl, on |-> TRUE, prio |-> prio, groupPrio |-> 1]
  <2>1. e = [name |-> e.name, url |-> TRUE, group |-> e.group, token |-> e.token, key |-> e.key,
             tokens |-> e.tokens, keys |-> e.keys, on |-> TRUE, prio |-> prio, groupPrio |-> 1]
    BY <1>1
  <2>2. e.name \in ns /\ e.group \in gs /\ e.token \in {0, 1} /\ e.key \in {0, 1} 
    BY <1>1
  <2>3. e.tokens \in ts /\ e.keys \in ks
    BY <1>1
  <2> QED
    BY <2>1, <2>2, <2>3
<1>4. /\ n \in P /\ g \in L /\ to \in Nat /\ k \in Nat /\ tl \in T /\ kl \in T
      /\ prio \in Int /\ 1 \in Int
  <2>1. n \in P /\ g \in L
    OBVIOUS
  <2>2. to \in Nat /\ k \in Nat /\ 1 \in Int /\ prio \in Int
    OBVIOUS
  <2>3. tl \in T /\ kl \in T
    BY <1>3
  <2> QED
    BY <2>1, <2>2, <2>3
<1>5. e \in [name : P, url : BOOLEAN, group : L, token : Nat, key : Nat, tokens : T, keys : T,
             on : BOOLEAN, prio : Int, groupPrio : Int]
  BY ONLY <1>2, <1>4
<1>6. e.name = n
  BY ONLY <1>2
<1> QED
  BY <1>5, <1>6, <1>2 DEF EntryOver, T

\* The files that are tried can be split.
LEMMA FilesFit ==
  ASSUME NEW c \in Files
  PROVE  Split!SplitLosesNothing(c)
<1> DEFINE x1 == <<"x">>
           x2 == <<"x", <<"t", 0>>>>
           P == {x1, x2, << >>}
           L == {"", "g", "h", "t", "u", "k"}
<1>1. PICK e \in FirstEntries, f \in OtherEntries, s \in {{x1}, {x1, x2}} :
             c = [entries |-> <<e, f>>, scope |-> s, target |-> x1]
  BY DEF Files
<1>2. e \in EntryOver(P, L) /\ e.name \in P
  <2> DEFINE ns == P
             gs == {"", "g"}
             ts == {<< >>, <<"t", "t">>, <<"", "u">>}
             ks == {<< >>, <<"", "k">>}
  <2>1. "" \in L /\ "t" \in L /\ "u" \in L /\ "k" \in L
    OBVIOUS
  <2>2. gs \in SUBSET L /\ 0 \in Int
    OBVIOUS
  <2> HIDE DEF L
  <2>3. << >> \in Seq(L) /\ <<"", "k">> \in Seq(L)
    BY <2>1, ShortLists
  <2>4. <<"t", "t">> \in Seq(L)
    BY <2>1, ShortLists
  <2>5. <<"", "u">> \in Seq(L)
    BY <2>1, ShortLists
  <2>6. ts \in SUBSET Seq(L)
    BY ONLY <2>3, <2>4, <2>5
  <2>7. ks \in SUBSET Seq(L)
    BY ONLY <2>3
  <2>8. e \in Legacy(ns, gs, ts, ks, 0)
    BY DEF FirstEntries
  <2> HIDE DEF ns, gs, ts, ks
  <2>9. ns \in SUBSET P
    BY DEF ns
  <2>10. e \in EntryOver(P, L) /\ e.name \in ns
    BY <2>6, <2>7, <2>2, <2>8, <2>9, EntriesFit
  <2> QED
    BY <2>10 DEF ns
<1>3. f \in EntryOver(P, L) /\ f.name \in {x1, x2}
  <2> DEFINE ns == {x1, x2}
             gs == {"", "h"}
             ts == {<< >>, <<"t">>}
             ks == {<< >>, <<"k", "k">>}
  <2>1. "t" \in L /\ "k" \in L
    OBVIOUS
  <2>2. gs \in SUBSET L /\ 2 \in Int
    OBVIOUS
  <2> HIDE DEF L
  <2>3. << >> \in Seq(L) /\ <<"t">> \in Seq(L)
    BY <2>1, ShortLists
  <2>4. <<"k", "k">> \in Seq(L)
    BY <2>1, ShortLists
  <2>5. ts \in SUBSET Seq(L)
    BY ONLY <2>3
  <2>6. ks \in SUBSET Seq(L)
    BY ONLY <2>3, <2>4
  <2>7. f \in Legacy(ns, gs, ts, ks, 2)
    BY DEF OtherEntries
  <2>8. ns \in SUBSET P
    OBVIOUS
  <2> HIDE DEF ns, gs, ts, ks, P
  <2>9. f \in EntryOver(P, L) /\ f.name \in ns
    BY <2>5, <2>6, <2>2, <2>7, <2>8, EntriesFit
  <2> QED
    BY <2>9 DEF ns
<1>4. c.entries = <<e, f>> /\ c.scope \in {{x1}, {x1, x2}}
  BY <1>1
<1>5. DOMAIN c.entries = 1 .. 2 /\ c.entries[1] = e /\ c.entries[2] = f
  BY <1>4
<1>6. File(c.entries, P, L)
  <2> DEFINE E == EntryOver(P, L)
  <2>1. e \in E /\ f \in E
    BY <1>2, <1>3
  <2> HIDE DEF E
  <2>2. c.entries \in Seq(E)
    BY <1>4, <2>1, ShortLists
  <2> QED
    BY <2>2 DEF File, E
<1> HIDE DEF x1, x2, L
<1>7. CASE Split!Rejected(c)
  BY <1>7, Zenon DEF Split!SplitLosesNothing
<1>8. CASE ~Split!Rejected(c)
  <2>1. e.name # << >> /\ e.name # f.name
    <3>1. 1 \in DOMAIN c.entries /\ 2 \in DOMAIN c.entries /\ 1 # 2
      BY <1>5
    <3> QED
      BY <1>5, <1>8, <3>1, Zenon DEF Split!Rejected
  <2>2. \A x \in c.scope : x = e.name \/ x = f.name
    BY <1>2, <1>3, <1>4, <2>1, Zenon
  <2>3. \A x \in c.scope : \E i \in DOMAIN c.entries : c.entries[i].name = x
    BY <1>5, <2>2
  <2>4. Splittable(c, P, L)
    BY <1>6, <2>3, Zenon DEF Splittable
  <2> QED
    BY <2>4, SplitsLoseNothing
<1> QED
  BY <1>7, <1>8

\* The strings that are tried are over 1 and 2.
LEMMA StringsFit == Strings \subseteq Seq({1, 2})
<1> SUFFICES ASSUME NEW n \in 0 .. 3, NEW x \in [1 .. n -> {1, 2}] PROVE x \in Seq({1, 2})
  BY DEF Strings
<1> QED
  OBVIOUS

\* So are the patterns of their rules.
LEMMA RulesFit ==
  ASSUME NEW i \in Nat \ {0}, NEW ps \in SUBSET Int, NEW x \in Rules(i, ps)
  PROVE  x \in RuleOver({1, 2}) /\ x.id = i
<1> DEFINE A == {1, 2}
           ws == {<<1>>, <<1, 2>>, <<2, 2>>}
           W == Seq(A) \ {<< >>}
<1>1. x \in [id : {i}, prio : ps, pattern : ws, redact : BOOLEAN]
  BY DEF Rules
<1>2. ws \subseteq W
  <2>1. 1 \in A /\ 2 \in A
    OBVIOUS
  <2> HIDE DEF A
  <2>2. <<1>> \in Seq(A) /\ <<1, 2>> \in Seq(A)
    BY <2>1, ShortLists
  <2>3. <<2, 2>> \in Seq(A)
    BY <2>1, ShortLists
  <2>4. <<1>> # << >> /\ <<1, 2>> # << >> /\ <<2, 2>> # << >>
    OBVIOUS
  <2> QED
    BY <2>2, <2>3, <2>4
<1> HIDE DEF ws, W
<1>3. x \in [id : Int, prio : Int, pattern : W, redact : BOOLEAN]
  <2>1. /\ x = [id |-> i, prio |-> x.prio, pattern |-> x.pattern, redact |-> x.redact]
        /\ x.prio \in ps /\ x.pattern \in ws /\ x.redact \in BOOLEAN
    BY <1>1
  <2>2. i \in Int /\ x.prio \in Int /\ x.pattern \in W /\ x.redact \in BOOLEAN
    BY <1>2, <2>1
  <2> QED
    BY ONLY <2>1, <2>2
<1> QED
  BY <1>1, <1>3 DEF RuleOver, W, A

\* The bodies that are tried can be scanned.
LEMMA BodiesFit ==
  ASSUME NEW s \in Bodies
  PROVE  Scannable(s, {1, 2})
<1> DEFINE A == {1, 2}
           S1 == <<<<1>>, <<2, 1>>>>
<1>1. PICK a \in Strings, b \in {<< >>, <<2, 1>>}, x \in Rules(1, {100, 5}), y \in Rules(2, {50}),
           z \in {<< >>, S1}, r \in BOOLEAN, n \in {3, 4} :
             s = [body |-> <<[text |-> FALSE], Text(a), Text(b)>>, rules |-> <<x, y>>,
                  secrets |-> z, redact |-> r, limit |-> n, refuse |-> FALSE]
  BY DEF Bodies
<1>2. /\ s.body = <<[text |-> FALSE], Text(a), Text(b)>> /\ s.rules = <<x, y>> /\ s.secrets = z
      /\ s.redact \in BOOLEAN /\ s.limit \in Nat /\ s.refuse \in BOOLEAN
  <2> DEFINE body == <<[text |-> FALSE], Text(a), Text(b)>>
             rs == <<x, y>>
  <2>1. s = [body |-> body, rules |-> rs, secrets |-> z, redact |-> r, limit |-> n, refuse |-> FALSE]
    BY <1>1
  <2>2. n \in Nat
    OBVIOUS
  <2> HIDE DEF body, rs
  <2>3. /\ s.body = body /\ s.rules = rs /\ s.secrets = z
        /\ s.redact = r /\ s.limit = n /\ s.refuse = FALSE
    BY ONLY <2>1
  <2> QED
    BY <2>2, <2>3 DEF body, rs
<1>3. 1 \in A /\ 2 \in A
  OBVIOUS
<1>4. x \in RuleOver(A) /\ x.id = 1 /\ y \in RuleOver(A) /\ y.id = 2
  <2>1. 1 \in Nat \ {0} /\ 2 \in Nat \ {0} /\ {100, 5} \in SUBSET Int /\ {50} \in SUBSET Int
    OBVIOUS
  <2> QED
    BY <2>1, RulesFit
<1>5. a \in Seq(A)
  BY StringsFit
<1> HIDE DEF A
<1>6. << >> \in Seq(A) /\ <<1>> \in Seq(A) /\ <<2, 1>> \in Seq(A)
  BY <1>3, ShortLists
<1>7. b \in Seq(A)
  BY <1>6
<1>8. s.body \in Seq(Piece(A))
  <2> DEFINE Q == Piece(A)
             o == [text |-> FALSE]
             ta == Text(a)
             tb == Text(b)
  <2>1. o \in Q /\ ta \in Q /\ tb \in Q
    BY <1>5, <1>7 DEF Piece, Text
  <2>2. s.body = <<o, ta, tb>>
    BY <1>2
  <2> HIDE DEF Q, o, ta, tb
  <2>3. <<o, ta, tb>> \in Seq(Q)
    BY <2>1
  <2> QED
    BY <2>2, <2>3 DEF Q
<1>9. s.secrets \in Seq(Seq(A) \ {<< >>})
  <2> DEFINE W == Seq(A) \ {<< >>}
             u == <<1>>
             v == <<2, 1>>
  <2>1. u \in W /\ v \in W
    BY <1>6
  <2>2. s.secrets = << >> \/ s.secrets = <<u, v>>
    BY <1>2
  <2> HIDE DEF W, u, v
  <2>3. << >> \in Seq(W) /\ <<u, v>> \in Seq(W)
    BY <2>1, ShortLists
  <2>4. s.secrets \in Seq(W)
    BY <2>2, <2>3
  <2> QED
    BY <2>4 DEF W
<1>10. s.rules \in Seq(RuleOver(A)) /\ Known(s.rules) /\ \A k \in 1 .. Len(s.rules) : s.rules[k].id > 0
  <2> DEFINE R == RuleOver(A)
  <2>1. x \in R /\ y \in R
    BY <1>4
  <2> HIDE DEF R
  <2>2. s.rules \in Seq(R)
    BY <1>2, <2>1, ShortLists
  <2>3. Len(s.rules) = 2 /\ s.rules[1].id = 1 /\ s.rules[2].id = 2
    BY <1>2, <1>4
  <2>4. \A k \in 1 .. Len(s.rules) : s.rules[k].id = k
    BY <2>3
  <2>5. Known(s.rules)
    BY <2>4, Zenon DEF Known
  <2>6. \A k \in 1 .. Len(s.rules) : s.rules[k].id > 0
    BY <2>3, <2>4
  <2> QED
    BY <2>2, <2>5, <2>6 DEF R
<1> QED
  BY <1>2, <1>8, <1>9, <1>10, Zenon DEF Scannable, ScanOver, A

\* The input is a file, or a body, that was tried.
InputKept ==
  in # << >> => \/ in[1] = "file" /\ in[2] \in Files
                \/ in[1] = "message" /\ in[2] \in Bodies

\* The input stays what it was chosen to be.
LEMMA InputKeptStands == MCSpec => []InputKept
<1>1. MCInit => InputKept
  BY DEF MCInit, InputKept
<1>2. InputKept /\ [MCNext]_allVars => InputKept'
  <2> SUFFICES ASSUME InputKept, [MCNext]_allVars PROVE InputKept'
    OBVIOUS
  <2>1. CASE in' = in
    BY <2>1 DEF InputKept
  <2>2. CASE Input
    <3>1. CASE \E c \in Files : in' = <<"file", c>>
      <4>1. PICK c \in Files : in' = <<"file", c>>
        BY <3>1
      <4>2. in'[1] = "file" /\ in'[2] = c
        BY <4>1
      <4> QED
        BY <4>2, Zenon DEF InputKept
    <3>2. CASE \E s \in Bodies : in' = <<"message", s>>
      <4>1. PICK s \in Bodies : in' = <<"message", s>>
        BY <3>2
      <4>2. in'[1] = "message" /\ in'[2] = s
        BY <4>1
      <4> QED
        BY <4>2, Zenon DEF InputKept
    <3> QED
      BY <2>2, <3>1, <3>2, Zenon DEF Input
  <2> QED
    BY <2>1, <2>2, Zenon DEF MCNext, allVars, CooldownStep, RoutingStep, MigrationStep, PrivacyStep
<1> QED
  BY <1>1, <1>2, PTL DEF MCSpec

\* In every state the input that was chosen is treated rightly: a file loses and mixes
\* nothing when it is split, a body keeps nothing a redacting rule finds.
THEOREM InputsStand == MCSpec => []InputsAreRight
<1>1. InputKept => InputsAreRight
  <2> SUFFICES ASSUME InputKept, in # << >>
               PROVE  /\ in[1] = "file" => Split!SplitLosesNothing(in[2])
                      /\ in[1] = "message" => Scan!RedactsWhatItFinds(in[2])
    BY Zenon DEF InputsAreRight
  <2>1. CASE in[1] = "file" /\ in[2] \in Files
    <3>1. in[1] # "message" /\ Split!SplitLosesNothing(in[2])
      BY <2>1, FilesFit
    <3> QED
      BY <3>1
  <2>2. CASE in[1] = "message" /\ in[2] \in Bodies
    <3>1. in[1] # "file" /\ Scannable(in[2], {1, 2})
      BY <2>2, BodiesFit
    <3>2. Scan!RedactsWhatItFinds(in[2])
      BY <3>1, ScansRedact
    <3> QED
      BY <3>1, <3>2
  <2> QED
    BY <2>1, <2>2, Zenon DEF InputKept
<1> QED
  BY <1>1, InputKeptStands, PTL
=============================================================================
