--------------------------- MODULE AccountRuntime ---------------------------
(***************************************************************************)
(* The run-time state of ONE upstream account.  Attempts of the proxy      *)
(* report their outcome to the cache; every report gets a state version    *)
(* and a mutation for the background writer, which keeps one mutation per  *)
(* account and drops it when its version is no longer current.  Calls of   *)
(* the desktop (enable, edit, test, delete) change the cache and the row   *)
(* themselves, each in its own order, and a profile refresh may disable    *)
(* the account from the side.  A restart rebuilds the cache from the row.  *)
(* internal/service/account_pool.go, account_pool_runtime_cache.go,        *)
(* account_pool_runtime_writer.go, account_pool_failure_window.go,         *)
(* account_pool_profile.go and internal/store/account_pool.go.             *)
(***************************************************************************)
EXTENDS Integers

CONSTANTS
  Attempts,    \* attempts of the account pipeline
  Calls,       \* calls of the desktop; each is made at most once
  Threshold,   \* soft failures that make a cooldown
  MaxTime, MaxFaults, MaxRestarts   \* bounds

VARIABLES
  now,
  entry,     \* byID: the record of the account in the cache
  version,   \* stateVersions
  row,       \* the account's row in upstream_accounts
  pending,   \* the writer's pending mutation
  batch,     \* the mutation the writer has detached and is applying
  current,   \* isCurrentVersion has let the detached mutation through
  soft,      \* soft failures in the window
  att,       \* the attempts
  call,      \* the desktop calls
  refresh,   \* the background profile refresh
  faults, restarts,
  lastFail,  \* ghost: when the cache, as it stands, last recorded a failure
  off,       \* ghost: the user's last completed decision is "disabled"
  deleted    \* ghost: a deletion that overlapped no other call completed

vars == <<now, entry, version, row, pending, batch, current, soft, att, call, refresh,
          faults, restarts, lastFail, off, deleted>>

-----------------------------------------------------------------------------
States  == {"active", "cooldown", "disabled_auth"}
NoEntry == [here |-> FALSE, enabled |-> FALSE, state |-> "active", until |-> 0, updated |-> 0]
Healthy == [NoEntry EXCEPT !.here = TRUE, !.enabled = TRUE]
Entries == [here : BOOLEAN, enabled : BOOLEAN, state : States, until : Nat, updated : Nat]

Blocked(e) == e.state # "active"
Schedulable(e) == e.here /\ e.enabled /\ e.state # "disabled_auth" /\ e.until <= now

Kinds == {"none", "success", "auth", "transient"}
NoMutation == [kind |-> "none", version |-> 0, at |-> 0, start |-> 0, until |-> 0, delta |-> 0]
Mutations  == [kind : Kinds, version : Nat, at : Nat, start : Nat, until : Nat, delta : Nat]

Gone == [pc |-> "done", start |-> 0, m |-> NoMutation]

Ops == {"none", "toggle", "edit", "test", "delete"}
PCs == {"idle", "seen", "read", "cached", "reload", "loaded", "forget", "done"}
\* alone is a ghost: no other call was under way at any time of this one.
NoCall == [op |-> "none", pc |-> "idle", alone |-> TRUE, on |-> FALSE, flips |-> FALSE, version |-> 0,
           saved |-> NoEntry, savedVersion |-> 0, read |-> NoEntry]
Finished == [NoCall EXCEPT !.pc = "done"]
CallRecords == [op : Ops, pc : PCs, alone : BOOLEAN, on : BOOLEAN, flips : BOOLEAN, version : Nat,
                saved : Entries, savedVersion : Nat, read : Entries]

Init ==
  /\ now = 0
  /\ entry = Healthy /\ version = 1 /\ row = Healthy
  /\ pending = NoMutation /\ batch = NoMutation /\ current = FALSE
  /\ soft = 0
  /\ att = [a \in Attempts |-> [pc |-> "idle", start |-> 0, m |-> NoMutation]]
  /\ call = [c \in Calls |-> NoCall]
  /\ refresh = [pc |-> "idle", at |-> 0]
  /\ faults = 0 /\ restarts = 0
  /\ lastFail = 0 /\ off = FALSE /\ deleted = FALSE

Tick == now < MaxTime /\ now' = now + 1
        /\ UNCHANGED <<entry, version, row, pending, batch, current, soft, att, call, refresh,
                       faults, restarts, lastFail, off, deleted>>

-----------------------------------------------------------------------------
(* The writer's queue of one.                                               *)

\* A success begun no later than the failure it meets does not replace it.
Merge(queued, next) ==
  CASE queued.kind = "none" \/ next.kind = "auth" -> next
    [] queued.kind = "auth"                       -> queued
    [] next.kind = "transient" /\ queued.kind = "transient"
         -> [next EXCEPT !.delta = next.delta + queued.delta]
    [] next.kind = "success" /\ queued.kind = "transient"
         -> IF next.start > queued.at THEN next ELSE queued
    [] next.kind = "success" /\ queued.kind = "success"
         -> IF \/ next.start > queued.start
               \/ next.start = queued.start /\ next.at > queued.at
            THEN next ELSE queued
    [] OTHER -> next

Enqueue(m) == pending' = Merge(pending, m)

-----------------------------------------------------------------------------
(* Attempts.  The list shows a schedulable account; the account may change  *)
(* before the attempt reports.  A report marks the cache, and hands its      *)
(* mutation to the writer in a step of its own.                             *)

Start(a) ==
  /\ att[a].pc = "idle" /\ Schedulable(entry)
  /\ att' = [att EXCEPT ![a].pc = "sent", ![a].start = now]
  /\ UNCHANGED <<now, entry, version, row, pending, batch, current, soft, call, refresh,
                 faults, restarts, lastFail, off, deleted>>

Marked(a, m) == att' = [att EXCEPT ![a] = [pc |-> "marked", start |-> 0, m |-> m]]
                /\ version' = version + 1
Dismissed(a) == att' = [att EXCEPT ![a] = Gone] /\ UNCHANGED <<entry, version, lastFail>>

\* What no report touches.
ReportUnchanged ==
  UNCHANGED <<now, row, pending, batch, current, call, refresh, faults, restarts, off, deleted>>

\* A failure recorded after the attempt began outlives its success.
NoNewerFailure(start) == ~(entry.updated > start /\ Blocked(entry))

EnabledToo == [entry EXCEPT !.state = "active", !.until = 0, !.updated = now, !.enabled = TRUE]   \* faulty variant
\* markSuccess and the success branch of markSuccessIfNoNewerFailure
Activated == [entry EXCEPT !.state = "active", !.until = 0, !.updated = now]

\* MarkAccountSuccessIfNoNewerFailure
Succeed(a) ==
  /\ att[a].pc = "sent"
  /\ IF entry.here /\ NoNewerFailure(att[a].start)
     THEN /\ entry' = Activated
          /\ Marked(a, [kind |-> "success", version |-> version + 1, at |-> now,
                        start |-> att[a].start, until |-> 0, delta |-> 0])
          /\ UNCHANGED lastFail
     ELSE Dismissed(a)
  /\ UNCHANGED soft /\ ReportUnchanged

\* markTransientFailure
MarkTransient(a, until) ==
  IF entry.here
  THEN /\ entry' = [entry EXCEPT !.state = "cooldown", !.until = until, !.updated = now]
       /\ Marked(a, [kind |-> "transient", version |-> version + 1, at |-> now,
                     start |-> 0, until |-> until, delta |-> 1])
       /\ lastFail' = now
  ELSE Dismissed(a)

\* MarkAccountTransientFailure
FailTransient(a) ==
  /\ att[a].pc = "sent" /\ MarkTransient(a, now + 1)
  /\ UNCHANGED soft /\ ReportUnchanged

\* MarkAccountUsageLimitExceeded: a cooldown until the quota window resets;
\* the profile it also saves is no part of the state here.
FailUsageLimit(a) ==
  /\ att[a].pc = "sent" /\ MarkTransient(a, now + 2)
  /\ UNCHANGED soft /\ ReportUnchanged

\* RecordAccountSoftFailure: the failure counts whether or not it trips.
FailSoft(a) ==
  /\ att[a].pc = "sent"
  /\ soft' = soft + 1
  /\ IF soft + 1 < Threshold THEN Dismissed(a) ELSE MarkTransient(a, now + 1)
  /\ ReportUnchanged

\* An event leaves the window of the soft failures.
SoftExpires ==
  /\ soft > 0 /\ soft' = soft - 1
  /\ UNCHANGED <<entry, version, att, lastFail>> /\ ReportUnchanged

\* markAuthFailed
AuthFailed(at) == [entry EXCEPT !.enabled = FALSE, !.state = "disabled_auth",
                                !.until = 0, !.updated = at]

\* MarkAccountAuthFailed
FailAuth(a) ==
  /\ att[a].pc = "sent"
  /\ IF entry.here
     THEN /\ entry' = AuthFailed(now)
          /\ Marked(a, [kind |-> "auth", version |-> version + 1, at |-> now,
                        start |-> 0, until |-> 0, delta |-> 0])
          /\ lastFail' = now
     ELSE Dismissed(a)
  /\ UNCHANGED soft /\ ReportUnchanged

\* enqueue, then softFailureTracker.Clear
Report(a) ==
  /\ att[a].pc = "marked"
  /\ Enqueue(att[a].m)
  /\ att' = [att EXCEPT ![a] = Gone]
  /\ soft' = 0
  /\ UNCHANGED <<now, entry, version, row, batch, current, call, refresh,
                 faults, restarts, lastFail, off, deleted>>

-----------------------------------------------------------------------------
(* The writer.                                                              *)

\* flushPending takes the mutation out of the queue.
Detach ==
  /\ pending.kind # "none" /\ batch.kind = "none"
  /\ batch' = pending /\ pending' = NoMutation
  /\ UNCHANGED <<now, entry, version, row, current, soft, att, call, refresh,
                 faults, restarts, lastFail, off, deleted>>

\* isCurrentVersion: a mutation the cache has moved past is dropped.
CheckVersion ==
  /\ batch.kind # "none" /\ ~current
  /\ current' = (entry.here /\ batch.version = version)
  /\ batch' = IF current' THEN batch ELSE NoMutation
  /\ UNCHANGED <<now, entry, version, row, pending, soft, att, call, refresh,
                 faults, restarts, lastFail, off, deleted>>

\* What each mutation does to the row; updated_at is the time of the write.
Written(m) ==
  CASE ~row.here -> row
    [] m.kind = "success" ->
         IF row.updated > m.start /\ Blocked(row) THEN row
         ELSE [row EXCEPT !.state = "active", !.until = 0, !.updated = now]
    [] m.kind = "auth" -> [row EXCEPT !.enabled = FALSE, !.state = "disabled_auth",
                                      !.until = 0, !.updated = now]
    [] m.kind = "transient" -> [row EXCEPT !.state = "cooldown", !.until = m.until,
                                           !.updated = now]

\* applyMutation: a transient failure is written once for every one it merged.
Write ==
  /\ current
  /\ row' = Written(batch)
  /\ IF batch.kind = "transient" /\ batch.delta > 1
     THEN batch' = [batch EXCEPT !.delta = batch.delta - 1] /\ UNCHANGED current
     ELSE batch' = NoMutation /\ current' = FALSE
  /\ UNCHANGED <<now, entry, version, pending, soft, att, call, refresh,
                 faults, restarts, lastFail, off, deleted>>

\* A failed write goes back to the queue, behind what came meanwhile.
WriteFails ==
  /\ current /\ faults < MaxFaults
  /\ faults' = faults + 1
  /\ Enqueue(batch) /\ batch' = NoMutation /\ current' = FALSE
  /\ UNCHANGED <<now, entry, version, row, soft, att, call, refresh,
                 restarts, lastFail, off, deleted>>

-----------------------------------------------------------------------------
(* Calls of the desktop.  A call that enables the account ends the user's   *)
(* "disabled" as soon as it starts; one that disables establishes it when   *)
(* it returns, unless another call that may rewrite the row is under way.   *)

InFlight(c) == call[c].pc \notin {"idle", "done"}
Begin(c, new) ==
  call' = [d \in Calls |->
             IF d = c THEN [new EXCEPT !.alone = \A e \in Calls \ {c} : ~InFlight(e)]
             ELSE [call[d] EXCEPT !.alone = @ /\ ~InFlight(d)]]

BackgroundUnchanged ==
  UNCHANGED <<now, pending, batch, current, att, refresh, restarts>>

\* applyToggle
Flip(c, on) ==
  /\ entry' = IF on THEN [Activated EXCEPT !.enabled = TRUE]
              ELSE [entry EXCEPT !.enabled = FALSE, !.updated = now]
  /\ version' = version + 1

\* The start of ToggleAccount: the cache first.
Toggle(c, on) ==
  /\ call[c].pc = "idle" /\ entry.here
  /\ Flip(c, on)
  /\ Begin(c, [NoCall EXCEPT !.op = "toggle", !.pc = "cached", !.on = on,
               !.version = version + 1, !.saved = entry, !.savedVersion = version])
  /\ off' = (off /\ ~on)
  /\ BackgroundUnchanged /\ UNCHANGED <<row, soft, faults, lastFail, deleted>>

\* store.ToggleAccount: disabling leaves the failure state alone.
Toggled(on) == IF on THEN [row EXCEPT !.enabled = TRUE, !.state = "active",
                                      !.until = 0, !.updated = now]
               ELSE [row EXCEPT !.enabled = FALSE, !.updated = now]

CommitToggle(c) ==
  /\ call[c].op = "toggle" /\ call[c].pc = "cached" /\ row.here
  /\ row' = Toggled(call[c].on)
  /\ call' = [call EXCEPT ![c] = Finished]
  /\ off' = (off \/ (~call[c].on /\ call[c].alone))
  /\ BackgroundUnchanged /\ UNCHANGED <<entry, version, soft, faults, lastFail, deleted>>

\* restoreRuntimeStateIfVersion
AnyVersion(c) == entry.here                                  \* faulty variant
Untouched(c) == entry.here /\ version = call[c].version

\* A version may come back when calls overlap (reloadAccountIntoCache does not
\* advance it): what such a call restores may be older than the last failure.
Restore(c) == /\ entry' = call[c].saved /\ version' = call[c].savedVersion
              /\ lastFail' = IF call[c].alone THEN lastFail ELSE 0

\* The row is gone, or the statement fails: take the flip back, or, when
\* somebody changed the account meanwhile, read the row again.
AbortToggle(c) ==
  /\ call[c].op = "toggle" /\ call[c].pc = "cached"
  /\ \/ row.here /\ faults < MaxFaults /\ faults' = faults + 1
     \/ ~row.here /\ UNCHANGED faults
  /\ IF Untouched(c)
     THEN Restore(c) /\ call' = [call EXCEPT ![c] = Finished]
     ELSE /\ call' = [call EXCEPT ![c] = [NoCall EXCEPT !.op = "toggle", !.alone = call[c].alone, !.pc = "reload"]]
          /\ UNCHANGED <<entry, version, lastFail>>
  /\ BackgroundUnchanged /\ UNCHANGED <<row, soft, off, deleted>>

\* reloadAccountIntoCache: read, then upsert or remove
ReadRow(c) ==
  /\ call[c].pc = "reload"
  /\ call' = [call EXCEPT ![c] = [NoCall EXCEPT !.op = call[c].op, !.alone = call[c].alone, !.pc = "loaded", !.read = row]]
  /\ BackgroundUnchanged
  /\ UNCHANGED <<entry, version, row, soft, faults, lastFail, off, deleted>>

Reload(c) ==
  /\ call[c].pc = "loaded"
  /\ entry' = call[c].read /\ lastFail' = 0
  /\ version' = IF ~call[c].read.here THEN 0 ELSE IF version = 0 THEN 1 ELSE version
  /\ call' = [call EXCEPT ![c] = Finished]
  /\ BackgroundUnchanged /\ UNCHANGED <<row, soft, faults, off, deleted>>

\* UpdateAccount compares the form with the cache, then reads the row.
StartEdit(c, on) ==
  /\ call[c].pc = "idle" /\ entry.here
  /\ Begin(c, [NoCall EXCEPT !.op = "edit", !.pc = "seen", !.on = on,
               !.flips = (on # entry.enabled)])
  /\ off' = (off /\ ~on)
  /\ BackgroundUnchanged
  /\ UNCHANGED <<entry, version, row, soft, faults, lastFail, deleted>>

ReadForEdit(c) ==
  /\ call[c].op = "edit" /\ call[c].pc = "seen"
  /\ call' = [call EXCEPT ![c] = IF row.here THEN [@ EXCEPT !.pc = "read", !.read = row]
                                         ELSE Finished]
  /\ BackgroundUnchanged
  /\ UNCHANGED <<entry, version, row, soft, faults, lastFail, off, deleted>>

\* A changed switch goes to the cache before the row, an unchanged one not.
FlipForEdit(c) ==
  /\ call[c].op = "edit" /\ call[c].pc = "read"
  /\ IF ~call[c].flips
     THEN UNCHANGED <<entry, version>> /\ call' = [call EXCEPT ![c].pc = "cached"]
     ELSE IF ~entry.here
     THEN UNCHANGED <<entry, version>> /\ call' = [call EXCEPT ![c] = Finished]
     ELSE /\ Flip(c, call[c].on)
          /\ call' = [call EXCEPT ![c].pc = "cached", ![c].version = version + 1,
                      ![c].saved = entry, ![c].savedVersion = version]
  /\ BackgroundUnchanged /\ UNCHANGED <<row, soft, faults, lastFail, off, deleted>>

\* mergeEditableAccountRecord and applyEnabledTransitionForUpdate: every
\* column is written, those the form does not hold as the call read them.
Edited(c) ==
  LET read == [call[c].read EXCEPT !.updated = now] IN
  CASE ~call[c].flips                -> read
    [] call[c].flips /\ call[c].on  -> [read EXCEPT !.enabled = TRUE, !.state = "active", !.until = 0]
    [] call[c].flips /\ ~call[c].on -> [read EXCEPT !.enabled = FALSE]

CommitEdit(c) ==
  /\ call[c].op = "edit" /\ call[c].pc = "cached" /\ row.here
  /\ row' = Edited(c)
  /\ call' = [call EXCEPT ![c] = IF entry.here THEN Finished ELSE [@ EXCEPT !.pc = "reload"]]
  /\ off' = (off \/ (call[c].flips /\ ~call[c].on /\ call[c].alone))
  /\ BackgroundUnchanged /\ UNCHANGED <<entry, version, soft, faults, lastFail, deleted>>

AbortEdit(c) ==
  /\ call[c].op = "edit" /\ call[c].pc = "cached"
  /\ \/ row.here /\ faults < MaxFaults /\ faults' = faults + 1
     \/ ~row.here /\ UNCHANGED faults
  /\ IF call[c].flips /\ Untouched(c) THEN Restore(c)
     ELSE UNCHANGED <<entry, version, lastFail>>
  /\ call' = [call EXCEPT ![c] = Finished]
  /\ BackgroundUnchanged /\ UNCHANGED <<row, soft, off, deleted>>

\* TestUpstreamAccount that answers: markSuccess, then the row.
Test(c) ==
  /\ call[c].pc = "idle" /\ entry.here
  /\ entry' = Activated /\ version' = version + 1
  /\ Begin(c, [NoCall EXCEPT !.op = "test", !.pc = "cached"])
  /\ BackgroundUnchanged /\ UNCHANGED <<row, soft, faults, lastFail, off, deleted>>

\* store.MarkAccountSuccess changes nothing when the row is gone.
CommitTest(c) ==
  /\ call[c].op = "test" /\ call[c].pc = "cached"
  /\ row' = IF row.here THEN [row EXCEPT !.state = "active", !.until = 0, !.updated = now]
            ELSE row
  /\ soft' = 0
  /\ call' = [call EXCEPT ![c] = Finished]
  /\ BackgroundUnchanged /\ UNCHANGED <<entry, version, faults, lastFail, off, deleted>>

AbortTest(c) ==
  /\ call[c].op = "test" /\ call[c].pc = "cached"
  /\ faults < MaxFaults /\ faults' = faults + 1
  /\ call' = [call EXCEPT ![c].pc = "reload"]
  /\ BackgroundUnchanged
  /\ UNCHANGED <<entry, version, row, soft, lastFail, off, deleted>>

\* DeleteAccount: the row, then the queue, then the cache.
DeleteRow(c) ==
  /\ call[c].pc = "idle" /\ row.here
  /\ row' = NoEntry
  /\ Begin(c, [NoCall EXCEPT !.op = "delete", !.pc = "cached"])
  /\ BackgroundUnchanged
  /\ UNCHANGED <<entry, version, soft, faults, lastFail, off, deleted>>

DropPending(c) ==
  /\ call[c].op = "delete" /\ call[c].pc = "cached"
  /\ pending' = NoMutation
  /\ call' = [call EXCEPT ![c].pc = "forget"]
  /\ UNCHANGED <<now, entry, version, row, batch, current, soft, att, refresh,
                 faults, restarts, lastFail, off, deleted>>

Forget(c) ==
  /\ call[c].op = "delete" /\ call[c].pc = "forget"
  /\ entry' = NoEntry /\ version' = 0
  /\ call' = [call EXCEPT ![c] = Finished]
  /\ deleted' = call[c].alone
  /\ BackgroundUnchanged /\ UNCHANGED <<row, soft, faults, lastFail, off>>

-----------------------------------------------------------------------------
(* RefreshAccountProfile finds the credential dead.  It takes the time of   *)
(* the failure before it asks, writes the row, then marks the cache.        *)

StartRefresh ==
  /\ refresh.pc = "idle" /\ entry.here
  /\ refresh' = [pc |-> "asked", at |-> now]
  /\ UNCHANGED <<now, entry, version, row, pending, batch, current, soft, att, call,
                 faults, restarts, lastFail, off, deleted>>

\* MarkAccountAuthFailedWithProfile; a row that is gone ends the refresh.
RefreshWrites ==
  /\ refresh.pc = "asked"
  /\ IF row.here
     THEN /\ row' = [row EXCEPT !.enabled = FALSE, !.state = "disabled_auth",
                                !.until = 0, !.updated = now]
          /\ refresh' = [refresh EXCEPT !.pc = "written"]
     ELSE UNCHANGED row /\ refresh' = [pc |-> "done", at |-> 0]
  /\ UNCHANGED <<now, entry, version, pending, batch, current, soft, att, call,
                 faults, restarts, lastFail, off, deleted>>

RefreshMarks ==
  /\ refresh.pc = "written"
  /\ IF entry.here
     THEN entry' = AuthFailed(refresh.at) /\ version' = version + 1 /\ lastFail' = now
     ELSE UNCHANGED <<entry, version, lastFail>>
  /\ refresh' = [pc |-> "done", at |-> 0]
  /\ UNCHANGED <<now, row, pending, batch, current, soft, att, call,
                 faults, restarts, off, deleted>>

\* The process ends at any moment and starts again: reloadRuntimeCacheLocked.
Restart ==
  /\ restarts < MaxRestarts /\ restarts' = restarts + 1
  /\ entry' = row /\ version' = IF row.here THEN 1 ELSE 0
  /\ pending' = NoMutation /\ batch' = NoMutation /\ current' = FALSE
  /\ soft' = 0 /\ lastFail' = 0
  /\ att' = [a \in Attempts |-> IF att[a].pc = "idle" THEN att[a] ELSE Gone]
  /\ call' = [c \in Calls |-> IF InFlight(c) THEN Finished ELSE call[c]]
  /\ refresh' = IF refresh.pc = "idle" THEN refresh ELSE [pc |-> "done", at |-> 0]
  /\ UNCHANGED <<now, row, faults, off, deleted>>

-----------------------------------------------------------------------------
UserStep(c) ==
  \/ \E on \in BOOLEAN : Toggle(c, on) \/ StartEdit(c, on)
  \/ CommitToggle(c) \/ AbortToggle(c) \/ ReadRow(c) \/ Reload(c)
  \/ ReadForEdit(c) \/ FlipForEdit(c) \/ CommitEdit(c) \/ AbortEdit(c)
  \/ Test(c) \/ CommitTest(c) \/ AbortTest(c)
  \/ DeleteRow(c) \/ DropPending(c) \/ Forget(c)

Next ==
  \/ Tick
  \/ \E a \in Attempts :
        \/ Start(a) \/ Succeed(a) \/ FailTransient(a) \/ FailUsageLimit(a)
        \/ FailSoft(a) \/ FailAuth(a) \/ Report(a)
  \/ SoftExpires
  \/ Detach \/ CheckVersion \/ Write \/ WriteFails
  \/ \E c \in Calls : UserStep(c)
  \/ StartRefresh \/ RefreshWrites \/ RefreshMarks
  \/ Restart

Spec == Init /\ [][Next]_vars

-----------------------------------------------------------------------------
(* Properties.                                                              *)

\* Every variable has its type.
TypeOK ==
  /\ now \in 0 .. MaxTime
  /\ entry \in Entries /\ row \in Entries /\ version \in Nat
  /\ pending \in Mutations /\ batch \in Mutations /\ current \in BOOLEAN
  /\ soft \in Nat
  /\ att \in [Attempts -> [pc : {"idle", "sent", "marked", "done"}, start : Nat, m : Mutations]]
  /\ call \in [Calls -> CallRecords]
  /\ refresh \in [pc : {"idle", "asked", "written", "done"}, at : Nat]
  /\ faults \in 0 .. MaxFaults /\ restarts \in 0 .. MaxRestarts
  /\ lastFail \in Nat /\ off \in BOOLEAN /\ deleted \in BOOLEAN

\* A recorded failure of an account in use is taken back only by the user (enabling,
\* or a test that answers), by reading the row again, or by an attempt that
\* began no earlier than the failure: not by the late success of an older
\* attempt, and not by a failed call that restores what it had saved, unless
\* it overlapped another call
\* (markSuccessIfNoNewerFailure, restoreRuntimeStateIfVersion).
RevivedByUser(c) == Toggle(c, TRUE) \/ FlipForEdit(c) \/ Test(c) \/ Reload(c) \/ Forget(c)
Overlapped(c) == ~call[c].alone /\ (AbortToggle(c) \/ AbortEdit(c))
NewerFailureStands ==
  [][Blocked(entry) /\ ~Blocked(entry') /\ entry'.enabled =>
       \/ \E a \in Attempts : Succeed(a) /\ att[a].start >= lastFail
       \/ \E c \in Calls : RevivedByUser(c) \/ Overlapped(c)
       \/ Restart]_vars

\* Once the user's "disable" has returned, without another call of the
\* desktop in between, nothing but the user enables the account again: no
\* report, retried write, refresh or restart (ToggleAccount, UpdateAccount).
DisabledStays == off => ~entry.enabled /\ ~row.enabled

\* A deleted account never comes back: what attempts, the writer and a
\* refresh still hold of it neither fills the cache nor the table.
DeletedIsGone == deleted => ~entry.here /\ ~row.here

=============================================================================
