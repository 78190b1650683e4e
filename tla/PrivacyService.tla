---------------------------- MODULE PrivacyService ----------------------------
(***************************************************************************)
(* The privacy rules: stored, compiled into a snapshot that replaces the   *)
(* one in force, and applied to the body of every upstream attempt of a    *)
(* request, with the results kept for the request's later attempts.        *)
(* internal/service/privacy_service.go, privacy_builtin_rules.go and       *)
(* privacy_exact_secrets.go, proxy/handlers/privacy.go, store/             *)
(* privacy_rules.go, App.setupPrivacyService.                              *)
(*                                                                         *)
(* What a rule finds in a text is PrivacyScan's subject; here a rule that  *)
(* applies to an upstream is a rule that has been applied.  Exact secrets  *)
(* are rules without a scope.  Changes hold a mutex from the write to the  *)
(* store to the new snapshot; attempts take no lock and load the snapshot  *)
(* three times: for its version, for the cache key and for the scan.       *)
(***************************************************************************)
EXTENDS Integers, FiniteSets, Sequences

CONSTANTS
  Rules,       \* rules the user makes
  Builtin,     \* the rule the service puts back when it is missing
  Preset,      \* the rule of Rules that is also in the preset
  Upstreams,   \* endpoints
  MaxChanges,  \* bound: changes
  MaxKept,     \* bound: results one request keeps
  MaxFaults    \* bound: failures of the store

VARIABLES
  mode,        \* stored mode; "disabled" or "redact"
  rows,        \* stored rules: a function from those that exist
  snapshot,    \* the snapshot in force
  installed,   \* the handler has the service as its filter
  change,      \* "none", or what the holder of the mutex has reached
  told,        \* what the last change reported
  attempt,     \* the request's current attempt; right: what it could be given so far
  kept,        \* results of the request's attempts, by key
  sent,        \* what the last attempt sent
  changes, faults

privacyVars == <<mode, rows, snapshot, installed, change, told, attempt, kept, sent,
                 changes, faults>>

AllRules == Rules \cup {Builtin}
\* ok: it compiles; scope: the endpoints it is for, {} for all
RuleRows == [on : BOOLEAN, ok : BOOLEAN, scope : {{}} \cup {{u} : u \in Upstreams}]
FromUser == {r \in RuleRows : r.ok}     \* CompileRule refuses the others, if they are enabled
BuiltinRow == [on |-> TRUE, ok |-> TRUE, scope |-> {}]
Silent == [version |-> 0, mode |-> "disabled", rules |-> << >>]
NoAttempt == [pc |-> "idle"]

\* rebuildSnapshotLocked: the rules that are enabled and compile.
Compiled(rs) == [r \in {r \in DOMAIN rs : rs[r].on /\ rs[r].ok} |-> rs[r].scope]
\* ensureBuiltinRulesLocked
WithBuiltin(rs) == [r \in DOMAIN rs \cup {Builtin} |-> IF r \in DOMAIN rs THEN rs[r] ELSE BuiltinRow]

\* Scope.Matches
InScope(scope, u) == scope = {} \/ u \in scope
\* Snapshot.Apply for an upstream: the rules applied.
AppliedBy(s, u) ==
  IF s.mode = "disabled" THEN {}
  ELSE {r \in DOMAIN s.rules : InScope(s.rules[r], u)}

\* privacyScopeFingerprint: the upstream counts if a rule asks for one.
Scoped(s) == \E r \in DOMAIN s.rules : s.rules[r] # {}
WithoutUpstream(version, s, u, b) == <<version, {}, b>>             \* faulty variant
Key(version, s, u, b) == <<version, IF Scoped(s) THEN {u} ELSE {}, b>>

Init ==
  /\ mode = "disabled" /\ rows = [r \in {Builtin} |-> BuiltinRow]
  /\ snapshot = Silent /\ installed = FALSE
  /\ change = "starting" /\ told = "ok"
  /\ attempt = NoAttempt /\ kept = << >> /\ sent = << >>
  /\ changes = 0 /\ faults = 0

-----------------------------------------------------------------------------
RequestAlone == UNCHANGED <<attempt, kept, sent>>

\* A change takes the mutex and writes: UpdateSettings, CreateRule, UpdateRule,
\* DeleteRule, and the same for exact secrets.
Change(m, rs, c) ==
  /\ installed /\ change = "none" /\ changes < MaxChanges
  /\ changes' = changes + 1
  /\ \/ mode' = m /\ rows' = rs /\ change' = c /\ UNCHANGED <<told, faults>>
     \/ faults < MaxFaults /\ faults' = faults + 1
        /\ told' = "error" /\ UNCHANGED <<mode, rows, change>>
  /\ UNCHANGED <<snapshot, installed>> /\ RequestAlone

SetMode == \E m \in {"disabled", "redact"} : Change(m, rows, "written")
SaveRule(r, row) ==
  Change(mode, [x \in DOMAIN rows \cup {r} |-> IF x = r THEN row ELSE rows[x]], "written")
SaveAnyRule == \E r \in AllRules, row \in FromUser : (r \in Rules \/ r \in DOMAIN rows) /\ SaveRule(r, row)
DeleteRule == \E r \in DOMAIN rows : Change(mode, [x \in DOMAIN rows \ {r} |-> rows[x]], "written")

\* ImportPreset: the existing rule is updated by a write of its own, what is
\* new is created after it.
ImportPreset ==
  IF Preset \in DOMAIN rows
  THEN \E scope \in {{}} \cup {{u} : u \in Upstreams} :
         Change(mode, [rows EXCEPT ![Preset].scope = scope, ![Preset].ok = TRUE], "importing")
  ELSE Change(mode, [x \in DOMAIN rows \cup {Preset} |-> IF x = Preset THEN BuiltinRow ELSE rows[x]],
              "written")
ImportRest ==
  /\ change = "importing"
  /\ \/ change' = "written" /\ UNCHANGED <<told, faults>>
     \/ faults < MaxFaults /\ faults' = faults + 1 /\ change' = "none" /\ told' = "error"
  /\ UNCHANGED <<mode, rows, snapshot, installed, changes>> /\ RequestAlone

\* rebuildSnapshotLocked
Published ==
  /\ rows' = WithBuiltin(rows)
  /\ snapshot' = [version |-> snapshot.version + 1, mode |-> mode,
                  rules |-> Compiled(WithBuiltin(rows))]
Rebuild ==
  /\ change \in {"written", "starting"}
  /\ change' = "none" /\ told' = "ok" /\ installed' = TRUE
  /\ Published
  /\ attempt' = IF attempt.pc = "idle" THEN attempt
                ELSE [attempt EXCEPT !.right = @ \cup {AppliedBy(snapshot', attempt.upstream)}]
  /\ UNCHANGED <<mode, changes, faults, kept, sent>>

\* A read or the creation of a missing rule fails.  At startup the service is
\* dropped and requests are not filtered at all.
RebuildFails ==
  /\ change \in {"written", "starting"} /\ faults < MaxFaults
  /\ faults' = faults + 1 /\ change' = "none" /\ told' = "error"
  /\ UNCHANGED <<mode, rows, snapshot, installed, changes>> /\ RequestAlone

\* A restart; rules of another version of the program may not compile.
Restart ==
  /\ change = "none" /\ changes < MaxChanges /\ changes' = changes + 1
  /\ \E r \in DOMAIN rows, good \in BOOLEAN : rows' = [rows EXCEPT ![r].ok = good]
  /\ snapshot' = Silent /\ installed' = FALSE /\ change' = "starting"
  /\ attempt' = NoAttempt /\ kept' = << >> /\ sent' = << >>
  /\ UNCHANGED <<mode, told, faults>>

-----------------------------------------------------------------------------
ServiceAlone == UNCHANGED <<mode, rows, snapshot, installed, change, told, changes, faults>>
Request(a) == attempt' = a /\ ServiceAlone

\* ApplyPrivacyFilter for upstream u and the body b prepared for it.
BeginAttempt(u, b) ==
  /\ installed /\ attempt.pc = "idle" /\ Cardinality(DOMAIN kept) < MaxKept
  /\ Request([pc |-> "key", upstream |-> u, body |-> b, version |-> snapshot.version,
               key |-> << >>, right |-> {AppliedBy(snapshot, u)}])
  /\ sent' = << >> /\ UNCHANGED kept

Send(body, applied) ==
  sent' = [body |-> body, applied |-> applied, asked |-> attempt.body, right |-> attempt.right]

LookUp ==
  /\ attempt.pc = "key"
  /\ LET key == Key(attempt.version, snapshot, attempt.upstream, attempt.body) IN
     IF key \in DOMAIN kept
     THEN Send(kept[key].body, kept[key].applied) /\ Request(NoAttempt)
     ELSE Request([attempt EXCEPT !.pc = "scan", !.key = key]) /\ UNCHANGED sent
  /\ UNCHANGED kept

\* The result is kept for the request's later attempts.
Scan ==
  /\ attempt.pc = "scan"
  /\ kept' = [k \in DOMAIN kept \cup {attempt.key} |->
               IF k = attempt.key THEN [body |-> attempt.body,
                                        applied |-> AppliedBy(snapshot, attempt.upstream)]
               ELSE kept[k]]
  /\ Send(attempt.body, AppliedBy(snapshot, attempt.upstream))
  /\ Request(NoAttempt)

NextRequest ==
  /\ attempt.pc = "idle" /\ kept # << >>
  /\ kept' = << >> /\ sent' = << >> /\ Request(NoAttempt)

Next ==
  \/ SetMode \/ SaveAnyRule \/ DeleteRule \/ ImportPreset \/ ImportRest
  \/ Rebuild \/ RebuildFails \/ Restart
  \/ \E u \in Upstreams, b \in 1 .. 2 : BeginAttempt(u, b)
  \/ LookUp \/ Scan \/ NextRequest

Spec == Init /\ [][Next]_privacyVars

-----------------------------------------------------------------------------
\* The shapes of the state; a snapshot is in force once the service is installed.
TypeOK ==
  /\ DOMAIN rows \subseteq AllRules /\ \A r \in DOMAIN rows : rows[r] \in RuleRows
  /\ installed => snapshot.version > 0
  /\ told \in {"ok", "error"} /\ change \in {"none", "starting", "importing", "written"}

\* What an attempt sends was filtered for its own upstream and its own body,
\* by rules that were in force at some time during the attempt: no result of
\* an earlier attempt is reused for an upstream with rules of its own, for a
\* body prepared differently or across a change of the rules.
FilteredForUpstream ==
  sent # << >> =>
    /\ sent.body = sent.asked
    /\ sent.applied \in sent.right

\* A change that reported success is in force when it reports: while nothing
\* is being changed and the last change did not fail, the snapshot is what
\* the stored rules and mode compile to, whatever failed before.
SavedIsInForce ==
  installed /\ change = "none" /\ told = "ok" =>
    snapshot.mode = mode /\ snapshot.rules = Compiled(rows)
=============================================================================
