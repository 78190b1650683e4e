--------------------- MODULE MCEndpointAdmission_proofs ---------------------
(***************************************************************************)
(* Proofs of three of the parts MCEndpointAdmission checks: the calls that *)
(* come one after the other, from EndpointAdmission_proofs; the snapshots  *)
(* of scheduling decisions, for any requests, upstreams and ages; and the  *)
(* choice of endpoints and of accounts, for any number of them and         *)
(* whatever a snapshot or a pool says of them.                             *)
(***************************************************************************)
EXTENDS MCEndpointAdmission, Ordering, FiniteSetTheorems, TLAPS

-----------------------------------------------------------------------------
(* Which decision the user is shown.                                        *)

Tellings == [chosen : Upstreams \cup {Snapshots!NoUpstream}, outcome : Snapshots!Outcomes]
Decisions ==
  [owner : Requests \cup {Snapshots!NoRequest}, chosen : Upstreams \cup {Snapshots!NoUpstream},
   outcome : Snapshots!Outcomes, seq : Nat, at : Nat]

SnapshotTypes ==
  /\ numbered \in BOOLEAN /\ clock \in Nat /\ sequence \in Nat
  /\ latest \in Decisions
  /\ pending \in [Requests -> Decisions]
  /\ phase \in [Requests -> {"new", "running", "done"}]
  /\ truth \in [Requests -> Tellings]

\* A draft is of the request it is kept for, which runs, and says what that
\* request said last; a number is given to one draft.
DraftsAreOwn ==
  /\ \A r \in Requests :
       /\ pending[r].owner \in {r, Snapshots!NoRequest}
       /\ phase[r] = "new" => truth[r] = Snapshots!Told(Snapshots!Nothing)
       /\ Snapshots!Held(r) =>
            /\ phase[r] = "running" /\ Snapshots!Told(pending[r]) = truth[r]
            /\ numbered => pending[r].seq <= sequence
            /\ numbered /\ pending[r].seq = sequence => latest.owner = r

\* What is shown is the newest draft, or what became of it.
LatestIsOwn ==
  /\ numbered => latest.seq = sequence
  /\ latest.owner # Snapshots!NoRequest =>
       /\ phase[latest.owner] # "new" /\ Snapshots!Told(latest) = truth[latest.owner]
       /\ numbered /\ phase[latest.owner] = "running" =>
            Snapshots!Held(latest.owner) /\ pending[latest.owner].seq = sequence

SnapshotInv == SnapshotTypes /\ DraftsAreOwn /\ LatestIsOwn

LEMMA NothingIsADecision ==
  /\ Snapshots!Nothing \in Decisions
  /\ Snapshots!Nothing.owner = Snapshots!NoRequest /\ Snapshots!Nothing.seq = 0
<1>1. Snapshots!Nothing \in Decisions
  BY DEF Snapshots!Nothing, Decisions, Snapshots!NoRequest, Snapshots!NoUpstream, Snapshots!Outcomes
<1>2. Snapshots!Nothing.owner = Snapshots!NoRequest /\ Snapshots!Nothing.seq = 0
  BY DEF Snapshots!Nothing
<1> QED
  BY <1>1, <1>2

LEMMA SnapshotInit == Snapshots!Init => SnapshotInv
<1> SUFFICES ASSUME Snapshots!Init PROVE SnapshotInv
  OBVIOUS
<1>1. Snapshots!Nothing \in Decisions
  BY NothingIsADecision
<1>2. Snapshots!Told(Snapshots!Nothing) \in Tellings
  BY DEF Snapshots!Told, Snapshots!Nothing, Tellings, Snapshots!NoRequest, Snapshots!NoUpstream,
     Snapshots!Outcomes
<1>3. SnapshotTypes
  BY <1>1, <1>2 DEF SnapshotTypes, Snapshots!Init
<1>4. /\ latest = Snapshots!Nothing /\ sequence = 0
      /\ \A r \in Requests : /\ pending[r] = Snapshots!Nothing /\ phase[r] = "new"
                             /\ truth[r] = Snapshots!Told(Snapshots!Nothing)
  BY DEF Snapshots!Init
<1>5. Snapshots!Nothing.owner = Snapshots!NoRequest /\ Snapshots!Nothing.seq = 0
  BY NothingIsADecision
<1>6. \A r \in Requests : ~Snapshots!Held(r)
  BY <1>4, <1>5, SnapshotAssumption DEF Snapshots!Held
<1> QED
  BY <1>3, <1>4, <1>5, <1>6 DEF SnapshotInv, DraftsAreOwn, LatestIsOwn

\* A request is scheduled: its draft is the newest and is shown, and no draft of
\* a request that is shown becomes too old before that.
LEMMA DraftStep ==
  ASSUME SnapshotInv, NEW r \in Requests, Snapshots!Draft(r)
  PROVE  SnapshotInv'
<1> DEFINE own == [Snapshots!Nothing EXCEPT !.owner = r, !.seq = sequence + 1, !.at = clock]
<1>1. /\ phase[r] = "new" /\ phase' = [phase EXCEPT ![r] = "running"] /\ sequence' = sequence + 1
      /\ latest' = own /\ UNCHANGED <<numbered, clock, truth>>
      /\ pending' = [x \in Requests |-> pending'[x]] /\ pending'[r] = own
      /\ \A x \in Requests \ {r} : pending'[x] \in {Snapshots!Nothing, pending[x]}
  BY DEF Snapshots!Draft
<1>2. SnapshotTypes /\ DraftsAreOwn /\ LatestIsOwn
  BY DEF SnapshotInv
<1>3. /\ own \in Decisions /\ own.owner = r /\ own.seq = sequence + 1
      /\ Snapshots!Told(own) = Snapshots!Told(Snapshots!Nothing)
      /\ Snapshots!Nothing \in Decisions /\ Snapshots!Nothing.owner = Snapshots!NoRequest
  <2>1. own \in Decisions /\ own.owner = r /\ own.seq = sequence + 1
    <3>1. own \in Decisions
      <4>1. sequence + 1 \in Nat /\ clock \in Nat
        BY <1>2 DEF SnapshotTypes
      <4>2. \A d \in Decisions, n, t \in Nat :
              [d EXCEPT !.owner = r, !.seq = n, !.at = t] \in Decisions
        BY DEF Decisions
      <4> QED
        BY <4>1, <4>2, NothingIsADecision, Zenon
    <3>2. own.owner = r /\ own.seq = sequence + 1
      BY NothingIsADecision DEF Decisions
    <3> QED
      BY <3>1, <3>2
  <2>2. own.chosen = Snapshots!Nothing.chosen /\ own.outcome = Snapshots!Nothing.outcome
    BY NothingIsADecision DEF Decisions
  <2> QED
    BY <2>1, <2>2, NothingIsADecision DEF Snapshots!Told
<1> HIDE DEF own
<1>4. SnapshotTypes'
  <2>1. \A x \in Requests : pending'[x] \in Decisions
    BY <1>1, <1>2, <1>3 DEF SnapshotTypes
  <2> QED
    BY <1>1, <1>2, <1>3, <2>1 DEF SnapshotTypes
<1>5. truth'[r] = Snapshots!Told(own) /\ phase'[r] = "running"
  BY <1>1, <1>2, <1>3 DEF SnapshotTypes, DraftsAreOwn
<1>6. ASSUME NEW x \in Requests \ {r}
      PROVE  /\ pending'[x].owner \in {x, Snapshots!NoRequest}
             /\ phase'[x] = "new" => truth'[x] = Snapshots!Told(Snapshots!Nothing)
             /\ Snapshots!Held(x)' =>
                  /\ phase'[x] = "running" /\ Snapshots!Told(pending'[x]) = truth'[x]
                  /\ numbered' => pending'[x].seq <= sequence' /\ pending'[x].seq # sequence'
  <2>1. phase'[x] = phase[x] /\ truth'[x] = truth[x]
    BY <1>1, <1>2 DEF SnapshotTypes
  <2>2. CASE pending'[x] = Snapshots!Nothing
    BY <1>2, <1>3, <2>1, <2>2, SnapshotAssumption DEF DraftsAreOwn, Snapshots!Held
  <2>3. CASE pending'[x] = pending[x]
    <3>1. pending[x].seq \in Nat
      BY <1>2 DEF SnapshotTypes, Decisions
    <3> QED
      BY <1>1, <1>2, <2>1, <2>3, <3>1 DEF DraftsAreOwn, SnapshotTypes, Snapshots!Held
  <2> QED
    BY <1>1, <2>2, <2>3
<1>7. DraftsAreOwn'
  BY <1>1, <1>2, <1>3, <1>5, <1>6 DEF DraftsAreOwn, SnapshotTypes, Snapshots!Held
<1>8. LatestIsOwn'
  BY <1>1, <1>3, <1>5 DEF LatestIsOwn, Snapshots!Held
<1> QED
  BY <1>4, <1>7, <1>8 DEF SnapshotInv

\* What a report writes is of its request, with the number the draft had; a
\* request without a draft that is not shown writes nothing.
LEMMA BasisIsOwn ==
  ASSUME SnapshotInv, NEW r \in Requests, phase[r] = "running"
  PROVE  LET b == Snapshots!Basis(r) IN
         /\ b \in Decisions
         /\ b.owner # Snapshots!NoRequest => b.owner = r /\ Snapshots!Told(b) = truth[r]
         /\ numbered /\ b.owner # Snapshots!NoRequest =>
              /\ b = pending[r] /\ Snapshots!Held(r)
              /\ (b.seq = sequence <=> latest.owner = r)
         /\ b.owner = Snapshots!NoRequest => ~Snapshots!Held(r) /\ latest.owner # r
<1>1. SnapshotTypes /\ DraftsAreOwn /\ LatestIsOwn
  BY DEF SnapshotInv
<1>2. r # Snapshots!NoRequest
  BY SnapshotAssumption
<1>3. CASE Snapshots!Held(r)
  <2>1. Snapshots!Basis(r) = pending[r] /\ pending[r].owner = r
    BY <1>3 DEF Snapshots!Basis, Snapshots!Held
  <2>2. latest.owner = r /\ numbered => pending[r].seq = sequence
    BY <1>1, <1>2 DEF LatestIsOwn
  <2> QED
    BY <1>1, <1>2, <1>3, <2>1, <2>2 DEF DraftsAreOwn, SnapshotTypes
<1>4. CASE ~Snapshots!Held(r) /\ ~numbered /\ latest.owner = r
  BY <1>1, <1>2, <1>4 DEF Snapshots!Basis, LatestIsOwn, SnapshotTypes
<1>5. CASE ~Snapshots!Held(r) /\ ~(~numbered /\ latest.owner = r)
  <2>1. Snapshots!Basis(r) = Snapshots!Nothing
    BY <1>5 DEF Snapshots!Basis
  <2>2. Snapshots!Nothing \in Decisions /\ Snapshots!Nothing.owner = Snapshots!NoRequest
    BY NothingIsADecision
  <2>3. latest.owner # r
    BY <1>1, <1>2, <1>5 DEF LatestIsOwn
  <2> QED
    BY <1>2, <1>5, <2>1, <2>2, <2>3
<1> QED
  BY <1>3, <1>4, <1>5

LEMMA ReportStep ==
  ASSUME SnapshotInv, NEW r \in Requests, NEW u \in Upstreams \cup {Snapshots!NoUpstream},
         NEW outcome \in Snapshots!Outcomes, NEW ends \in BOOLEAN,
         Snapshots!Report(r, u, outcome, ends)
  PROVE  SnapshotInv'
<1>1. SnapshotTypes /\ DraftsAreOwn /\ LatestIsOwn /\ r # Snapshots!NoRequest
  BY SnapshotAssumption DEF SnapshotInv
<1> DEFINE b == Snapshots!Basis(r)
           c == IF u = Snapshots!NoUpstream THEN truth[r].chosen ELSE u
           new == [b EXCEPT !.chosen = IF u = Snapshots!NoUpstream THEN @ ELSE u, !.outcome = outcome,
                            !.at = IF numbered THEN @ ELSE clock]
<1>2. /\ phase[r] = "running" /\ phase' = [phase EXCEPT ![r] = IF ends THEN "done" ELSE "running"]
      /\ truth' = [truth EXCEPT ![r] = [chosen |-> c, outcome |-> outcome]]
      /\ IF b.owner = Snapshots!NoRequest THEN UNCHANGED <<latest, pending>>
         ELSE /\ pending' = [pending EXCEPT ![r] = IF ends THEN Snapshots!Nothing ELSE new]
              /\ latest' = IF Snapshots!Shown(new) THEN new ELSE latest
      /\ UNCHANGED <<numbered, clock, sequence>>
  BY DEF Snapshots!Report
<1>3. /\ b \in Decisions
      /\ b.owner # Snapshots!NoRequest => b.owner = r /\ Snapshots!Told(b) = truth[r]
      /\ numbered /\ b.owner # Snapshots!NoRequest =>
           /\ b = pending[r] /\ Snapshots!Held(r)
           /\ (b.seq = sequence <=> latest.owner = r)
      /\ b.owner = Snapshots!NoRequest => ~Snapshots!Held(r) /\ latest.owner # r
  BY <1>2, BasisIsOwn
<1> HIDE DEF b
<1>4. /\ new \in Decisions /\ new.owner = b.owner /\ new.seq = b.seq
      /\ new.chosen = (IF u = Snapshots!NoUpstream THEN b.chosen ELSE u) /\ new.outcome = outcome
  BY <1>1, <1>3 DEF SnapshotTypes, Decisions
<1>5. b.owner # Snapshots!NoRequest => Snapshots!Told(new) = [chosen |-> c, outcome |-> outcome]
  <2>1. b.owner # Snapshots!NoRequest => b.chosen = truth[r].chosen
    BY <1>3 DEF Snapshots!Told
  <2> QED
    BY <1>4, <2>1 DEF Snapshots!Told
<1> HIDE DEF new
<1>6. [chosen |-> c, outcome |-> outcome] \in Tellings
  BY <1>1 DEF SnapshotTypes, Tellings
<1> HIDE DEF c
<1>7. /\ truth'[r] = [chosen |-> c, outcome |-> outcome]
      /\ phase'[r] = IF ends THEN "done" ELSE "running"
      /\ \A x \in Requests \ {r} : truth'[x] = truth[x] /\ phase'[x] = phase[x]
  BY <1>1, <1>2 DEF SnapshotTypes
<1>8. Snapshots!Nothing \in Decisions /\ Snapshots!Nothing.owner = Snapshots!NoRequest
  BY NothingIsADecision
<1>9. CASE b.owner = Snapshots!NoRequest
  <2>1. UNCHANGED <<latest, pending>> /\ ~Snapshots!Held(r) /\ latest.owner # r
    BY <1>2, <1>3, <1>9
  <2>2. SnapshotTypes'
    BY <1>1, <1>2, <1>6, <2>1 DEF SnapshotTypes
  <2>3. DraftsAreOwn'
    BY <1>1, <1>2, <1>7, <2>1 DEF DraftsAreOwn, Snapshots!Held
  <2>4. LatestIsOwn'
    BY <1>1, <1>2, <1>7, <2>1 DEF LatestIsOwn, Snapshots!Held, SnapshotTypes, Decisions
  <2> QED
    BY <2>2, <2>3, <2>4 DEF SnapshotInv
<1>10. CASE b.owner # Snapshots!NoRequest
  <2>1. /\ pending' = [pending EXCEPT ![r] = IF ends THEN Snapshots!Nothing ELSE new]
        /\ latest' = IF Snapshots!Shown(new) THEN new ELSE latest
        /\ new.owner = r /\ Snapshots!Told(new) = truth'[r]
    BY <1>2, <1>3, <1>4, <1>5, <1>7, <1>10
  <2>2. SnapshotTypes'
    BY <1>1, <1>2, <1>4, <1>6, <1>8, <2>1 DEF SnapshotTypes
  <2>3. /\ pending'[r] = IF ends THEN Snapshots!Nothing ELSE new
        /\ \A x \in Requests \ {r} : pending'[x] = pending[x]
    BY <1>1, <2>1 DEF SnapshotTypes
  <2>4. numbered => (Snapshots!Shown(new) <=> latest.owner = r)
    BY <1>1, <1>3, <1>4, <1>10 DEF Snapshots!Shown, LatestIsOwn
  <2>5. ~numbered => Snapshots!Shown(new)
    BY DEF Snapshots!Shown
  <2>6. numbered => latest'.owner = latest.owner /\ latest'.seq = latest.seq
    BY <1>1, <1>3, <1>4, <1>10, <2>1, <2>4 DEF LatestIsOwn
  <2>7. DraftsAreOwn'
    <3>1. ASSUME NEW x \in Requests \ {r}
          PROVE  /\ pending'[x].owner \in {x, Snapshots!NoRequest}
                 /\ phase'[x] = "new" => truth'[x] = Snapshots!Told(Snapshots!Nothing)
                 /\ Snapshots!Held(x)' =>
                      /\ phase'[x] = "running" /\ Snapshots!Told(pending'[x]) = truth'[x]
                      /\ numbered' => pending'[x].seq <= sequence'
                      /\ numbered' /\ pending'[x].seq = sequence' => latest'.owner = x
      BY <1>1, <1>2, <1>7, <2>3, <2>6 DEF DraftsAreOwn, Snapshots!Held
    <3>2. CASE ends
      BY <1>1, <1>7, <1>8, <2>3, <3>1, <3>2 DEF DraftsAreOwn, Snapshots!Held
    <3>3. CASE ~ends
      <4>1. /\ numbered => new.seq <= sequence
            /\ numbered /\ new.seq = sequence => latest'.owner = r
        BY <1>1, <1>2, <1>3, <1>4, <1>10, <2>1, <2>4, <2>6 DEF DraftsAreOwn
      <4> QED
        BY <1>1, <1>2, <1>7, <2>1, <2>3, <3>1, <3>3, <4>1 DEF DraftsAreOwn, Snapshots!Held
    <3> QED
      BY <3>2, <3>3
  <2>8. LatestIsOwn'
    <3>1. CASE Snapshots!Shown(new)
      <4>1. latest' = new
        BY <2>1, <3>1
      <4>2. numbered => new.seq = sequence
        BY <1>1, <3>1 DEF Snapshots!Shown, LatestIsOwn
      <4> QED
        BY <1>2, <1>7, <2>1, <2>3, <4>1, <4>2 DEF LatestIsOwn, Snapshots!Held
    <3>2. CASE ~Snapshots!Shown(new)
      <4>1. latest' = latest /\ numbered /\ latest.owner # r
        BY <2>1, <2>4, <2>5, <3>2
      <4> QED
        BY <1>1, <1>2, <1>7, <2>3, <4>1 DEF LatestIsOwn, Snapshots!Held, SnapshotTypes, Decisions
    <3> QED
      BY <3>1, <3>2
  <2> QED
    BY <2>2, <2>7, <2>8 DEF SnapshotInv
<1> QED
  BY <1>9, <1>10

LEMMA SnapshotStep == SnapshotInv /\ [MCNext]_allVars => SnapshotInv'
<1> SUFFICES ASSUME SnapshotInv, [MCNext]_allVars PROVE SnapshotInv'
  OBVIOUS
<1>1. CASE UNCHANGED snapshotVars
  BY <1>1 DEF snapshotVars, SnapshotInv, SnapshotTypes, DraftsAreOwn, LatestIsOwn, Snapshots!Held
<1>2. CASE Snapshots!ClearAll
  <2>1. /\ ~numbered /\ latest' = Snapshots!Nothing
        /\ pending' = [r \in Requests |-> Snapshots!Nothing]
        /\ UNCHANGED <<numbered, clock, sequence, phase, truth>>
    BY <1>2 DEF Snapshots!ClearAll
  <2>2. \A r \in Requests : pending'[r] = Snapshots!Nothing /\ ~Snapshots!Held(r)'
    BY <2>1, NothingIsADecision, SnapshotAssumption DEF Snapshots!Held
  <2> QED
    BY <2>1, <2>2, NothingIsADecision DEF SnapshotInv, SnapshotTypes, DraftsAreOwn, LatestIsOwn
<1>3. CASE Snapshots!Tick
  BY <1>3 DEF Snapshots!Tick, SnapshotInv, SnapshotTypes, DraftsAreOwn, LatestIsOwn, Snapshots!Held
<1>4. ASSUME NEW r \in Requests, Snapshots!Draft(r) PROVE SnapshotInv'
  BY <1>4, DraftStep
<1>5. ASSUME NEW r \in Requests, Snapshots!GiveUp(r) PROVE SnapshotInv'
  <2>1. Snapshots!Report(r, Snapshots!NoUpstream, "failed", TRUE)
    BY <1>5 DEF Snapshots!GiveUp
  <2> QED
    BY <2>1, ReportStep DEF Snapshots!Outcomes
<1>6. ASSUME NEW r \in Requests, NEW u \in Upstreams, Snapshots!TryAttempt(r, u) PROVE SnapshotInv'
  <2>1. Snapshots!Report(r, u, "failed", FALSE)
    BY <1>6 DEF Snapshots!TryAttempt
  <2> QED
    BY <2>1, ReportStep DEF Snapshots!Outcomes
<1>7. ASSUME NEW r \in Requests, NEW u \in Upstreams, Snapshots!Complete(r, u) PROVE SnapshotInv'
  <2>1. Snapshots!Report(r, u, "success", TRUE)
    BY <1>7 DEF Snapshots!Complete
  <2> QED
    BY <2>1, ReportStep DEF Snapshots!Outcomes
<1> QED
  BY <1>1, <1>2, <1>3, <1>4, <1>5, <1>6, <1>7 DEF MCNext, AdmissionStep, DecisionStep, Input,
     allVars, Snapshots!Next

\* Whatever drafts, reports of attempts and the dropping of old drafts interleave,
\* in the numbered store of the endpoints (scheduler.go) and in the account pool's
\* (account_pool_scheduler.go), what is shown of a request is what that request
\* reported last, and a numbered store shows the newest.
THEOREM ShownIsOwn == MCSpec => []SnapshotIsOwn
<1>1. SnapshotInv => SnapshotIsOwn
  BY DEF SnapshotInv, LatestIsOwn, SnapshotIsOwn, Snapshots!SnapshotIsOwn
<1>2. MCInit => SnapshotInv
  BY SnapshotInit DEF MCInit
<1> QED
  BY <1>1, <1>2, SnapshotStep, PTL DEF MCSpec

-----------------------------------------------------------------------------
(* Calls that come one after the other.                                     *)

OneByOne == INSTANCE EndpointAdmission_proofs
              WITH MaxRunning <- 1, MaxRetries <- 0, MaxRevision <- 5

\* The instance the proofs are taken from is the one TLC runs, action by action.
LEMMA SameAttempts ==
  ASSUME NEW a \in Attempts
  PROVE  Serial!Attempt(a) <=> OneByOne!Attempt(a)
BY DEF Serial!Plan, OneByOne!Plan, Serial!Register, OneByOne!Register, Serial!CheckGate,
       OneByOne!CheckGate, Serial!GateOpen, OneByOne!GateOpen,
       Serial!CheckConfig, OneByOne!CheckConfig, Serial!StillPlanned,
       OneByOne!StillPlanned, Serial!Release, OneByOne!Release, Serial!Attempt,
       OneByOne!Attempt, Serial!Returned, OneByOne!Returned, Serial!GotoA,
       OneByOne!GotoA, Serial!Objects, OneByOne!Objects

LEMMA SameStarts ==
  ASSUME NEW o \in Ops, NEW kind
  PROVE  Serial!Starts(o, kind) <=> OneByOne!Starts(o, kind)
<1>1. \A S : Serial!Cardinality(S) = OneByOne!Cardinality(S)
  BY DEF Serial!Cardinality, OneByOne!Cardinality
<1>2. Serial!Running = OneByOne!Running
  BY DEF Serial!Running, OneByOne!Running
<1> QED
  BY <1>1, <1>2 DEF Serial!Starts, OneByOne!Starts

LEMMA SameCalls ==
  ASSUME NEW o \in Ops
  PROVE  Serial!Operate(o) <=> OneByOne!Operate(o)
<1>1. \A to \in BOOLEAN : Serial!BeginAvailability(o, to) <=> OneByOne!BeginAvailability(o, to)
  BY SameStarts DEF Serial!BeginAvailability, OneByOne!BeginAvailability
<1>2. Serial!ReadRecord(o) <=> OneByOne!ReadRecord(o)
  BY DEF Serial!ReadRecord, OneByOne!ReadRecord
<1>3. Serial!CloseGate(o) <=> OneByOne!CloseGate(o)
  BY DEF Serial!CloseGate, OneByOne!CloseGate
<1>4. Serial!PersistAvailability(o) <=> OneByOne!PersistAvailability(o)
  BY DEF Serial!PersistAvailability, OneByOne!PersistAvailability, Serial!GotoO,
         OneByOne!GotoO
<1>5. Serial!StartDrain(o) <=> OneByOne!StartDrain(o)
  BY DEF Serial!StartDrain, OneByOne!StartDrain, Serial!AfterDrain, OneByOne!AfterDrain
<1>6. Serial!Drained(o) <=> OneByOne!Drained(o)
  BY DEF Serial!Drained, OneByOne!Drained, Serial!AfterDrain, OneByOne!AfterDrain
<1>7. Serial!DrainTimeout(o) <=> OneByOne!DrainTimeout(o)
  BY DEF Serial!DrainTimeout, OneByOne!DrainTimeout, Serial!TimesOut, OneByOne!TimesOut,
         Serial!AfterDrain, OneByOne!AfterDrain, Serial!GotoO, OneByOne!GotoO
<1>8. Serial!PublishAvailability(o) <=> OneByOne!PublishAvailability(o)
  BY DEF Serial!PublishAvailability, OneByOne!PublishAvailability, Serial!GotoO,
         OneByOne!GotoO, Serial!NewRevision, OneByOne!NewRevision,
         Serial!ConfigLockFree, OneByOne!ConfigLockFree
<1>9. Serial!Rollback(o) <=> OneByOne!Rollback(o)
  BY DEF Serial!Rollback, OneByOne!Rollback, Serial!RolledBack, OneByOne!RolledBack,
         Serial!GotoO, OneByOne!GotoO
<1>10. Serial!OpenGate(o) <=> OneByOne!OpenGate(o)
  BY DEF Serial!OpenGate, OneByOne!OpenGate
<1>11. Serial!BeginDelete(o) <=> OneByOne!BeginDelete(o)
  BY SameStarts DEF Serial!BeginDelete, OneByOne!BeginDelete, Serial!Running, OneByOne!Running
<1>12. Serial!DeleteRow(o) <=> OneByOne!DeleteRow(o)
  BY DEF Serial!DeleteRow, OneByOne!DeleteRow, Serial!NoRecord, OneByOne!NoRecord,
         Serial!GotoO, OneByOne!GotoO
<1>13. Serial!RemoveObject(o) <=> OneByOne!RemoveObject(o)
  BY DEF Serial!RemoveObject, OneByOne!RemoveObject, Serial!NoObject, OneByOne!NoObject,
         Serial!GotoO, OneByOne!GotoO, Serial!ConfigLockFree,
         OneByOne!ConfigLockFree
<1>14. \A to \in BOOLEAN : Serial!BeginCreate(o, to) <=> OneByOne!BeginCreate(o, to)
  BY SameStarts DEF Serial!BeginCreate, OneByOne!BeginCreate
<1>15. Serial!InsertRow(o) <=> OneByOne!InsertRow(o)
  BY DEF Serial!InsertRow, OneByOne!InsertRow, Serial!GotoO, OneByOne!GotoO
<1>16. Serial!AddObject(o) <=> OneByOne!AddObject(o)
  BY DEF Serial!AddObject, OneByOne!AddObject, Serial!GotoO, OneByOne!GotoO,
         Serial!ConfigLockFree, OneByOne!ConfigLockFree, Serial!NewObject,
         OneByOne!NewObject, Serial!NewRevision, OneByOne!NewRevision,
         Serial!CanAdd, OneByOne!CanAdd, Serial!NoRecord, OneByOne!NoRecord
<1>17. Serial!BeginEdit(o) <=> OneByOne!BeginEdit(o)
  BY SameStarts DEF Serial!BeginEdit, OneByOne!BeginEdit
<1>18. \A to \in BOOLEAN : Serial!ReadExisting(o, to) <=> OneByOne!ReadExisting(o, to)
  BY DEF Serial!ReadExisting, OneByOne!ReadExisting
<1>19. Serial!UpdateRow(o) <=> OneByOne!UpdateRow(o)
  BY DEF Serial!UpdateRow, OneByOne!UpdateRow, Serial!EditedAvailability,
         OneByOne!EditedAvailability, Serial!GotoO, OneByOne!GotoO
<1>20. Serial!LookUpObject(o) <=> OneByOne!LookUpObject(o)
  BY DEF Serial!LookUpObject, OneByOne!LookUpObject
<1>21. Serial!ApplyConfig(o) <=> OneByOne!ApplyConfig(o)
  BY DEF Serial!ApplyConfig, OneByOne!ApplyConfig, Serial!GotoO, OneByOne!GotoO,
         Serial!ConfigLockFree, OneByOne!ConfigLockFree, Serial!NewObject,
         OneByOne!NewObject, Serial!NewRevision, OneByOne!NewRevision,
         Serial!CanAdd, OneByOne!CanAdd, Serial!EditedAvailability,
         OneByOne!EditedAvailability
<1> QED
  BY <1>1, <1>2, <1>3, <1>4, <1>5, <1>6, <1>7, <1>8, <1>9, <1>10, <1>11, <1>12,
     <1>13, <1>14, <1>15, <1>16, <1>17, <1>18, <1>19, <1>20, <1>21
     DEF Serial!SetAvailability, OneByOne!SetAvailability, Serial!Delete,
         OneByOne!Delete, Serial!Create, OneByOne!Create, Serial!Edit,
         OneByOne!Edit, Serial!Operate, OneByOne!Operate

\* In the serial part the steps of MCSpec are the instance's.
LEMMA SerialIsOneByOne ==
  /\ MCInit => OneByOne!Init
  /\ part = "serial" /\ [MCNext]_allVars => [OneByOne!Next]_(OneByOne!vars)
<1>1. MCInit => OneByOne!Init
  BY DEF MCInit, Init, OneByOne!Init, IdleAttempt, OneByOne!IdleAttempt, IdleOp, OneByOne!IdleOp,
     Objects, OneByOne!Objects, NoRecord, OneByOne!NoRecord, NoObject, OneByOne!NoObject
<1>2. Serial!Next => OneByOne!Next
  BY SameAttempts, SameCalls DEF Serial!Next, OneByOne!Next
<1>3. part = "serial" /\ [MCNext]_allVars => Serial!Next \/ UNCHANGED admissionVars
  BY DEF MCNext, AdmissionStep, DecisionStep, Input, allVars
<1> QED
  BY <1>1, <1>2, <1>3 DEF admissionVars, vars, OneByOne!vars

\* A behaviour is one part from beginning to end.
LEMMA PartIsKept == [MCNext]_allVars => (part = "serial" <=> (part = "serial")')
BY DEF MCNext, allVars

LEMMA OneByOneAssumption == OneByOne!AdmissionAssumption
<1>1. {1, 0, 5} \subseteq Nat
  OBVIOUS
<1>2. OneByOne!IsFiniteSet(Attempts)
  BY AdmissionAssumption DEF AdmissionAssumption, IsFiniteSet, OneByOne!IsFiniteSet
<1> QED
  BY <1>1, <1>2, AdmissionAssumption, Zenon DEF OneByOne!AdmissionAssumption, AdmissionAssumption

\* When calls come one at a time, what SetEndpointAvailability, DeleteEndpoint,
\* CreateEndpoint and UpdateEndpointRecord leave behind agrees, whichever write or
\* drain fails.
THEOREM SerialCallsLeaveAgreement == MCSpec => []SerialCallsAgree
<1>1. OneByOne!Spec => []OneByOne!RuntimeFollowsRecord
  BY OneByOneAssumption, OneByOne!OneCallAgrees
<1>2. (part = "serial" => OneByOne!RuntimeFollowsRecord) => SerialCallsAgree
  BY DEF SerialCallsAgree, RuntimeFollowsRecord, OneByOne!RuntimeFollowsRecord, Quiet,
     OneByOne!Quiet, Running, OneByOne!Running
<1> QED
  BY <1>1, <1>2, SerialIsOneByOne, PartIsKept, PTL DEF MCSpec, OneByOne!Spec

\* When calls come one at a time, an edit leaves the availability as it is.
THEOREM SerialEditsKeepAvailability == MCSpec => SerialEditKeepsAvailability
<1>1. OneByOne!Spec => [][\A o \in Ops : OneByOne!KeepsAvailability(o)]_(OneByOne!vars)
  BY OneByOneAssumption, OneByOne!OneEditKeepsAvailability
<1>2. [\A o \in Ops : OneByOne!KeepsAvailability(o)]_(OneByOne!vars) =>
        [part = "serial" => \A o \in Ops : KeepsAvailability(o)]_allVars
  BY DEF KeepsAvailability, OneByOne!KeepsAvailability, OneByOne!vars
<1>3. [MCNext]_allVars /\ part # "serial" =>
        [part = "serial" => \A o \in Ops : KeepsAvailability(o)]_allVars
  OBVIOUS
<1> QED
  BY <1>1, <1>2, <1>3, SerialIsOneByOne, PartIsKept, PTL
     DEF MCSpec, OneByOne!Spec, SerialEditKeepsAvailability

-----------------------------------------------------------------------------
(* The choice uses its own copies of the operators of Ordering.             *)

LEMMA SameArranged ==
  /\ \A S, R : Candidates!Arranged(S, R) = Arranged(S, R)
  /\ \A S, R : Ranking!Arranged(S, R) = Arranged(S, R)
  BY Zenon DEF Candidates!Arranged, Ranking!Arranged, Arranged, Candidates!Cardinality,
     Ranking!Cardinality, Cardinality

LEMMA SameOnly ==
  /\ \A q, T : Candidates!Only(q, T) = Only(q, T)
  /\ \A q, T : Ranking!Only(q, T) = Only(q, T)
  BY Zenon DEF Candidates!Only, Ranking!Only, Only, Candidates!Arranged, Ranking!Arranged, Arranged,
     Candidates!Cardinality, Ranking!Cardinality, Cardinality
-----------------------------------------------------------------------------
(* Sorting and filtering, for any order and any entries.                    *)

\* Sequence q has every member of S once, an earlier one related by R to a later one.
Lists(q, S, R) ==
  /\ q \in Seq(S)
  /\ \A x \in S : \E i \in 1 .. Len(q) : q[i] = x
  /\ \A i, j \in 1 .. Len(q) : i < j => q[i] # q[j] /\ <<q[i], q[j]>> \in R

\* Relation R is a strict and total order on S.
Orders(R, S) ==
  /\ \A x \in S : <<x, x>> \notin R
  /\ \A x, y \in S : x # y => (<<x, y>> \in R <=> <<y, x>> \notin R)
  /\ \A x, y, z \in S : <<x, y>> \in R /\ <<y, z>> \in R => <<x, z>> \in R

\* A strict and total order puts every member of a finite set at one place: the
\* numbers of those before it are all different.
LEMMA ArrangedLists ==
  ASSUME NEW S, NEW R, IsFiniteSet(S), Orders(R, S)
  PROVE  Lists(Arranged(S, R), S, R)
<1> DEFINE n == Cardinality(S)
           before(x) == {y \in S : <<y, x>> \in R}
           rank == [x \in S |-> Cardinality(before(x))]
           q == Arranged(S, R)
<1>1. n \in Nat
  BY FS_CardinalityType
<1>2. \A x \in S : IsFiniteSet(before(x)) /\ Cardinality(before(x)) \in Nat /\ Cardinality(before(x)) < n
  <2> TAKE x \in S
  <2>1. before(x) \in SUBSET S /\ before(x) # S
    BY DEF Orders
  <2>2. IsFiniteSet(before(x)) /\ Cardinality(before(x)) <= n /\ Cardinality(before(x)) # n
    BY <2>1, FS_Subset
  <2>3. Cardinality(before(x)) \in Nat
    BY <2>2, FS_CardinalityType
  <2> QED
    BY <1>1, <2>2, <2>3
<1>3. \A x, y \in S : <<x, y>> \in R => rank[x] < rank[y]
  <2> TAKE x, y \in S
  <2> HAVE <<x, y>> \in R
  <2>1. before(x) \in SUBSET before(y)
    BY DEF Orders
  <2>3. x \in before(y) /\ x \notin before(x)
    BY DEF Orders
  <2>2. Cardinality(before(x)) <= Cardinality(before(y)) /\ Cardinality(before(x)) # Cardinality(before(y))
    BY <1>2, <2>1, <2>3, FS_Subset
  <2>4. Cardinality(before(x)) \in Nat /\ Cardinality(before(y)) \in Nat
    BY <1>2
  <2>5. rank[x] = Cardinality(before(x)) /\ rank[y] = Cardinality(before(y))
    OBVIOUS
  <2> HIDE DEF rank, before
  <2> QED
    BY <2>2, <2>4, <2>5
<1>4. rank \in [S -> 0 .. n - 1]
  BY <1>1, <1>2
<1>5. \A x \in S : rank[x] = Cardinality(before(x))
  OBVIOUS
<1>6. rank \in Surjection(S, 0 .. n - 1)
  <2>1. rank \in Injection(S, 0 .. n - 1)
    <3>1. \A x, y \in S : x # y => rank[x] # rank[y]
      <4> TAKE x, y \in S
      <4> HAVE x # y
      <4>1. <<x, y>> \in R \/ <<y, x>> \in R
        BY DEF Orders
      <4>2. rank[x] \in 0 .. n - 1 /\ rank[y] \in 0 .. n - 1
        BY <1>4
      <4> QED
        BY <1>1, <1>3, <4>1, <4>2
    <3> QED
      BY <1>4, <3>1 DEF Injection, IsInjective
  <2>2. IsFiniteSet(0 .. n - 1) /\ Cardinality(0 .. n - 1) = n
    <3>1. 0 \in Int /\ n - 1 \in Int
      BY <1>1
    <3>2. IsFiniteSet(0 .. n - 1) /\ Cardinality(0 .. n - 1) = IF 0 > n - 1 THEN 0 ELSE (n - 1) - 0 + 1
      BY <3>1, FS_Interval
    <3> QED
      BY <1>1, <3>2
  <2> QED
    BY <2>1, <2>2, FS_Injection
<1>7. \A k \in 1 .. n : \E x \in S : rank[x] = k - 1
  <2>1. \A m \in 0 .. n - 1 : \E x \in S : rank[x] = m
    BY <1>6, Zenon DEF Surjection
  <2> HIDE DEF rank, n
  <2>2. \A k \in 1 .. n : k - 1 \in 0 .. n - 1
    BY <1>1
  <2> QED
    BY <2>1, <2>2, Zenon
<1>8. q = [k \in 1 .. n |-> CHOOSE x \in S : Cardinality(before(x)) = k - 1]
  BY Zenon DEF Arranged
<1>9. \A k \in 1 .. n : q[k] \in S /\ rank[q[k]] = k - 1
  <2> TAKE k \in 1 .. n
  <2>1. q[k] = CHOOSE x \in S : Cardinality(before(x)) = k - 1
    BY <1>8
  <2>2. \E x \in S : Cardinality(before(x)) = k - 1
    BY <1>5, <1>7
  <2> HIDE DEF rank, q
  <2>3. q[k] \in S /\ Cardinality(before(q[k])) = k - 1
    BY <2>1, <2>2
  <2> QED
    BY <1>5, <2>3
<1>10. q \in Seq(S) /\ Len(q) = n
  <2>1. q = [k \in 1 .. n |-> q[k]]
    BY <1>8
  <2> HIDE DEF q, rank
  <2> QED
    BY <1>1, <1>9, <2>1
<1> HIDE DEF q, rank, n
<1>11. \A x \in S : \E i \in 1 .. n : q[i] = x
  <2> TAKE x \in S
  <2>1. rank[x] + 1 \in 1 .. n /\ rank[x] \in Int
    BY <1>1, <1>4
  <2>2. q[rank[x] + 1] \in S /\ rank[q[rank[x] + 1]] = rank[x]
    BY <1>9, <2>1
  <2>3. q[rank[x] + 1] = x
    <3> SUFFICES ASSUME q[rank[x] + 1] # x PROVE FALSE
      OBVIOUS
    <3>1. <<q[rank[x] + 1], x>> \in R \/ <<x, q[rank[x] + 1]>> \in R
      BY <2>2 DEF Orders
    <3> QED
      BY <1>3, <2>1, <2>2, <3>1
  <2> QED
    BY <2>1, <2>3
<1>12. \A i, j \in 1 .. n : i < j => q[i] # q[j] /\ <<q[i], q[j]>> \in R
  <2> TAKE i, j \in 1 .. n
  <2> HAVE i < j
  <2>1. q[i] \in S /\ q[j] \in S /\ rank[q[i]] < rank[q[j]]
    BY <1>1, <1>9
  <2>2. q[i] # q[j] /\ ~(rank[q[j]] < rank[q[i]])
    BY <1>1, <1>9, <2>1
  <2> QED
    BY <1>3, <2>1, <2>2 DEF Orders
<1> QED
  BY <1>10, <1>11, <1>12 DEF Lists, q

\* The order of the places: a filter keeps it.
LEMMA PlacesOrdered ==
  ASSUME NEW n \in Nat, NEW at \in SUBSET (1 .. n)
  PROVE  LET to == Arranged(at, {x \in at \X at : x[1] < x[2]}) IN
         /\ to \in Seq(at)
         /\ \A i \in at : \E k \in 1 .. Len(to) : to[k] = i
         /\ \A k, m \in 1 .. Len(to) : k < m => to[k] < to[m]
<1> DEFINE R == {x \in at \X at : x[1] < x[2]}
<1>1. \A i, j \in at : <<i, j>> \in R <=> i < j
  OBVIOUS
<1>2. Orders(R, at)
  BY <1>1 DEF Orders
<1>3. IsFiniteSet(at)
  <2>1. IsFiniteSet(1 .. n)
    BY FS_Interval
  <2> QED
    BY <2>1, FS_Subset
<1>4. Lists(Arranged(at, R), at, R)
  BY <1>2, <1>3, ArrangedLists
<1> HIDE DEF R
<1>5. \A k, m \in 1 .. Len(Arranged(at, R)) : k < m => Arranged(at, R)[k] < Arranged(at, R)[m]
  <2> DEFINE to == Arranged(at, R)
  <2> SUFFICES ASSUME NEW k \in 1 .. Len(to), NEW m \in 1 .. Len(to), k < m PROVE to[k] < to[m]
    OBVIOUS
  <2>1. to \in Seq(at) /\ <<to[k], to[m]>> \in R
    BY <1>4, Zenon DEF Lists
  <2> HIDE DEF to
  <2>2. to[k] \in at /\ to[m] \in at
    BY <2>1
  <2> QED
    BY <1>1, <2>1, <2>2
<1>6. /\ Arranged(at, R) \in Seq(at)
      /\ \A i \in at : \E k \in 1 .. Len(Arranged(at, R)) : Arranged(at, R)[k] = i
  BY <1>4 DEF Lists
<1> QED
  BY <1>5, <1>6 DEF R

\* A filter lists what is left, in the order it had.
LEMMA OnlyLists ==
  ASSUME NEW q, NEW S, NEW R, Lists(q, S, R), NEW T
  PROVE  Lists(Only(q, T), S \cap T, R)
<1> DEFINE at == {i \in DOMAIN q : q[i] \in T}
           to == Arranged(at, {x \in at \X at : x[1] < x[2]})
           p == Only(q, T)
<1>1. q \in Seq(S) /\ Len(q) \in Nat /\ DOMAIN q = 1 .. Len(q)
  BY DEF Lists
<1>2. /\ to \in Seq(at)
      /\ \A i \in at : \E k \in 1 .. Len(to) : to[k] = i
      /\ \A k, m \in 1 .. Len(to) : k < m => to[k] < to[m]
  <2>1. at \in SUBSET (1 .. Len(q))
    BY <1>1
  <2> HIDE DEF at
  <2> QED
    BY <1>1, <2>1, PlacesOrdered
<1>3. p = [k \in DOMAIN to |-> q[to[k]]]
  BY Zenon DEF Only
<1>4. \A i \in at : i \in 1 .. Len(q) /\ q[i] \in S \cap T
  BY <1>1
<1>5. \A x \in S \cap T : \E i \in at : q[i] = x
  BY <1>1 DEF Lists
<1> HIDE DEF at, to, p
<1>6. \A k \in 1 .. Len(to) : p[k] = q[to[k]] /\ to[k] \in at
  BY <1>2, <1>3
<1>7. p \in Seq(S \cap T) /\ Len(p) = Len(to)
  <2>1. DOMAIN to = 1 .. Len(to) /\ Len(to) \in Nat
    BY <1>2
  <2>2. p = [k \in 1 .. Len(to) |-> p[k]]
    BY <1>3, <2>1
  <2>3. \A k \in 1 .. Len(to) : p[k] \in S \cap T
    BY <1>4, <1>6
  <2> QED
    BY <2>1, <2>2, <2>3
<1>8. \A x \in S \cap T : \E k \in 1 .. Len(p) : p[k] = x
  BY <1>2, <1>5, <1>6, <1>7
<1>9. \A k, m \in 1 .. Len(p) : k < m => p[k] # p[m] /\ <<p[k], p[m]>> \in R
  <2> TAKE k, m \in 1 .. Len(p)
  <2> HAVE k < m
  <2>1. to[k] \in 1 .. Len(q) /\ to[m] \in 1 .. Len(q) /\ to[k] < to[m]
    BY <1>2, <1>4, <1>6, <1>7
  <2>2. q[to[k]] # q[to[m]] /\ <<q[to[k]], q[to[m]]>> \in R
    BY <2>1 DEF Lists
  <2> QED
    BY <1>6, <1>7, <2>2
<1> QED
  BY <1>7, <1>8, <1>9 DEF Lists, p

LEMMA Empty ==
  ASSUME NEW q, NEW S, NEW R, Lists(q, S, R)
  PROVE  S = {} <=> q = << >>
<1>1. q \in Seq(S) /\ \A x \in S : \E i \in 1 .. Len(q) : q[i] = x
  BY DEF Lists
<1>2. ASSUME S = {} PROVE q = << >>
  <2>1. ~\E i \in 1 .. Len(q) : TRUE
    BY <1>1, <1>2
  <2>2. Len(q) \in Nat
    BY <1>1
  <2> QED
    BY <1>1, <2>1, <2>2
<1>3. ASSUME q = << >> PROVE S = {}
  BY <1>1, <1>3
<1> QED
  BY <1>2, <1>3

LEMMA Members ==
  ASSUME NEW q, NEW S, NEW R, Lists(q, S, R)
  PROVE  /\ q \in Seq(S) /\ Len(q) \in Nat /\ DOMAIN q = 1 .. Len(q)
         /\ S = {q[i] : i \in DOMAIN q}
         /\ \A i, j \in DOMAIN q : q[i] = q[j] => i = j
         /\ \A i, j \in DOMAIN q : i < j => <<q[i], q[j]>> \in R
<1>1. q \in Seq(S) /\ Len(q) \in Nat /\ DOMAIN q = 1 .. Len(q)
  BY DEF Lists
<1>2. S = {q[i] : i \in DOMAIN q}
  BY <1>1 DEF Lists
<1>3. \A i, j \in DOMAIN q : q[i] = q[j] => i = j
  <2> SUFFICES ASSUME NEW i \in 1 .. Len(q), NEW j \in 1 .. Len(q), q[i] = q[j], i # j PROVE FALSE
    BY <1>1
  <2>1. i < j \/ j < i
    BY <1>1
  <2> QED
    BY <2>1 DEF Lists
<1>4. \A i, j \in DOMAIN q : i < j => <<q[i], q[j]>> \in R
  BY <1>1 DEF Lists
<1> QED
  BY <1>1, <1>2, <1>3, <1>4

\* One list after another.
LEMMA Joined ==
  ASSUME NEW p, NEW S, NEW q, NEW T, NEW R, Lists(p, S, R), Lists(q, T, R),
         \A x \in S, y \in T : x # y /\ <<x, y>> \in R
  PROVE  Lists(p \o q, S \cup T, R)
<1> DEFINE m == Len(p)
           n == Len(q)
           c == p \o q
<1>1. /\ p \in Seq(S) /\ q \in Seq(T) /\ m \in Nat /\ n \in Nat
  BY DEF Lists
<1>2. /\ c \in Seq(S \cup T) /\ Len(c) = m + n
      /\ \A i \in 1 .. m : c[i] = p[i] /\ p[i] \in S
      /\ \A i \in 1 .. n : c[m + i] = q[i] /\ q[i] \in T
  <2>1. p \in Seq(S \cup T) /\ q \in Seq(S \cup T)
    BY <1>1
  <2>2. Len(c) = m + n /\ c \in Seq(S \cup T)
    BY <2>1, <1>1
  <2>3. \A i \in 1 .. m : c[i] = p[i] /\ p[i] \in S
    BY <1>1
  <2>4. \A i \in 1 .. n : c[m + i] = q[i] /\ q[i] \in T
    BY <1>1
  <2> QED
    BY <2>2, <2>3, <2>4
<1> HIDE DEF c, m, n
<1>3. \A x \in S \cup T : \E i \in 1 .. Len(c) : c[i] = x
  <2>1. ASSUME NEW x \in S PROVE \E i \in 1 .. Len(c) : c[i] = x
    <3>1. PICK i \in 1 .. m : p[i] = x
      BY DEF Lists, m
    <3>2. i \in 1 .. Len(c)
      BY <1>1, <1>2
    <3> QED
      BY <1>2, <3>1, <3>2
  <2>2. ASSUME NEW x \in T PROVE \E i \in 1 .. Len(c) : c[i] = x
    <3>1. PICK i \in 1 .. n : q[i] = x
      BY DEF Lists, n
    <3>2. m + i \in 1 .. Len(c)
      BY <1>1, <1>2
    <3> QED
      BY <1>2, <3>1, <3>2
  <2> QED
    BY <2>1, <2>2
<1>4. ASSUME NEW i \in 1 .. Len(c), NEW j \in 1 .. Len(c), i < j
      PROVE  c[i] # c[j] /\ <<c[i], c[j]>> \in R
  <2>1. CASE j <= m
    <3>1. i \in 1 .. m /\ j \in 1 .. m
      BY <1>1, <1>2, <1>4, <2>1
    <3>2. p[i] # p[j] /\ <<p[i], p[j]>> \in R
      BY <1>4, <3>1 DEF Lists, m
    <3> QED
      BY <1>2, <3>1, <3>2
  <2>2. CASE i <= m /\ m < j
    <3>1. i \in 1 .. m /\ j - m \in 1 .. n /\ m + (j - m) = j
      BY <1>1, <1>2, <2>2
    <3>2. c[i] \in S
      BY <1>2, <3>1
    <3>3. c[j] \in T
      BY <1>2, <3>1
    <3> QED
      BY <3>2, <3>3
  <2>3. CASE m < i
    <3>1. i - m \in 1 .. n /\ j - m \in 1 .. n /\ m + (j - m) = j /\ m + (i - m) = i /\ i - m < j - m
      BY <1>1, <1>2, <1>4, <2>3
    <3>2. q[i - m] # q[j - m] /\ <<q[i - m], q[j - m]>> \in R
      BY <3>1 DEF Lists, n
    <3>3. c[i] = q[i - m] /\ c[j] = q[j - m]
      BY <1>2, <3>1
    <3> QED
      BY <3>2, <3>3
  <2> QED
    BY <1>1, <1>2, <2>1, <2>2, <2>3
<1> QED
  BY <1>2, <1>3, <1>4 DEF Lists, c

LEMMA Single ==
  ASSUME NEW x, NEW R
  PROVE  Lists(<<x>>, {x}, R)
  BY DEF Lists

\* What is listed in one order is listed in a coarser one.
LEMMA Coarser ==
  ASSUME NEW q, NEW S, NEW R, Lists(q, S, R), NEW W,
         \A x, y \in S : <<x, y>> \in R => <<x, y>> \in W
  PROVE  Lists(q, S, W)
<1>1. q \in Seq(S) /\ \A i \in 1 .. Len(q) : q[i] \in S
  BY DEF Lists
<1> QED
  BY <1>1 DEF Lists

\* A stable sort lists the same entries by their key.
ByKey(S, key) == {x \in S \X S : key[x[1]] <= key[x[2]]}

LEMMA StableLists ==
  ASSUME NEW q, NEW S, NEW R, Lists(q, S, R), NEW key, \A x \in S : key[x] \in Int
  PROVE  Lists(Candidates!Stable(q, key), S, ByKey(S, key))
<1> DEFINE D == DOMAIN q
           W == {x \in D \X D : \/ key[q[x[1]]] < key[q[x[2]]]
                                \/ key[q[x[1]]] = key[q[x[2]]] /\ x[1] < x[2]}
           at == Arranged(D, W)
           p == Candidates!Stable(q, key)
<1>1. /\ q \in Seq(S) /\ Len(q) \in Nat /\ DOMAIN q = 1 .. Len(q)
      /\ S = {q[i] : i \in DOMAIN q}
      /\ \A i, j \in DOMAIN q : q[i] = q[j] => i = j
  BY Members
<1>2. p = [i \in D |-> q[at[i]]]
  BY SameArranged, Zenon DEF Candidates!Stable
<1>3. \A i \in D : q[i] \in S /\ key[q[i]] \in Int /\ i \in Int
  BY <1>1
<1>4. \A i, j \in D : <<i, j>> \in W <=> \/ key[q[i]] < key[q[j]]
                                         \/ key[q[i]] = key[q[j]] /\ i < j
  OBVIOUS
<1>5. IsFiniteSet(D) /\ Cardinality(D) = Len(q)
  <2>1. IsFiniteSet(1 .. Len(q)) /\ Cardinality(1 .. Len(q)) = IF 1 > Len(q) THEN 0 ELSE Len(q) - 1 + 1
    BY <1>1, FS_Interval
  <2> QED
    BY <1>1, <2>1
<1> HIDE DEF W, at, p
<1>6. Orders(W, D)
  BY <1>3, <1>4 DEF Orders
<1>7. Lists(at, D, W)
  BY <1>5, <1>6, ArrangedLists DEF at
<1>8. /\ at \in Seq(D) /\ DOMAIN at = 1 .. Len(at) /\ Len(at) \in Nat
      /\ D = {at[i] : i \in DOMAIN at}
      /\ \A i, j \in DOMAIN at : i < j => <<at[i], at[j]>> \in W
      /\ \A i, j \in DOMAIN at : at[i] = at[j] => i = j
  BY <1>7, Members
<1>9. DOMAIN at = D
  <2>1. DOMAIN at = 1 .. Cardinality(D)
    BY Zenon DEF at, Arranged
  <2> QED
    BY <1>1, <1>5, <2>1
<1>10. \A i \in D : at[i] \in D /\ p[i] = q[at[i]]
  BY <1>2, <1>8, <1>9
<1>11. p \in Seq(S) /\ Len(p) = Len(q)
  <2>1. p = [i \in 1 .. Len(q) |-> p[i]]
    BY <1>1, <1>2
  <2>2. \A i \in 1 .. Len(q) : p[i] \in S
    BY <1>1, <1>3, <1>10
  <2> QED
    BY <1>1, <2>1, <2>2
<1>12. \A x \in S : \E i \in 1 .. Len(p) : p[i] = x
  <2> TAKE x \in S
  <2>1. PICK j \in D : q[j] = x
    BY <1>1
  <2>2. PICK i \in D : at[i] = j
    BY <1>8, <1>9
  <2> QED
    BY <1>1, <1>10, <1>11, <2>1, <2>2
<1>13. ASSUME NEW i \in 1 .. Len(p), NEW j \in 1 .. Len(p), i < j
       PROVE  p[i] # p[j] /\ <<p[i], p[j]>> \in ByKey(S, key)
  <2>1. i \in D /\ j \in D /\ at[i] \in D /\ at[j] \in D
    BY <1>1, <1>10, <1>11
  <2>2. <<at[i], at[j]>> \in W
    BY <1>8, <1>9, <1>13, <2>1
  <2>3. at[i] # at[j]
    <3>1. i # j
      BY <1>13, <1>11, <1>1
    <3> QED
      BY <1>8, <1>9, <2>1, <3>1
  <2>4. p[i] = q[at[i]] /\ p[j] = q[at[j]] /\ p[i] \in S /\ p[j] \in S /\ p[i] # p[j]
    BY <1>1, <1>10, <2>1, <2>3
  <2>5. key[p[i]] <= key[p[j]]
    BY <1>3, <1>4, <2>1, <2>2, <2>4
  <2> QED
    BY <2>4, <2>5 DEF ByKey
<1> QED
  BY <1>11, <1>12, <1>13 DEF Lists, p
-----------------------------------------------------------------------------
(* The endpoints a request will try, for any snapshot of them.              *)

\* A snapshot the manager can take: every endpoint once, with what the plan reads of it.
Listed(s) == Candidates!ToSet(s.order)
RouteSnapshot(s) ==
  /\ s.order \in Seq(Listed(s)) /\ \A i, j \in DOMAIN s.order : s.order[i] = s.order[j] => i = j
  /\ \A e \in Listed(s) : s.prio[e] \in Int
  /\ s.speed # << >> => \A e \in Listed(s) : s.speed[e] \in Nat

\* Those in automatic scheduling that the plan has to hold besides the target.
Rest(s) == {e \in Listed(s) : s.auto[e] /\ Candidates!Open(s, e)} \ Candidates!ToSet(Candidates!Target(s))

LEMMA ToSetOf ==
  ASSUME NEW q, NEW S, NEW R, Lists(q, S, R)
  PROVE  Candidates!ToSet(q) = S
  BY Members, Zenon DEF Candidates!ToSet

LEMMA Loosely ==
  ASSUME NEW q, NEW S, NEW R, Lists(q, S, R), NEW T, S \subseteq T
  PROVE  Lists(q, S, T \X T)
<1>1. \A x, y \in S : <<x, y>> \in R => <<x, y>> \in T \X T
  OBVIOUS
<1> QED
  BY <1>1, Coarser

LEMMA TargetIs ==
  ASSUME NEW s, RouteSnapshot(s)
  PROVE  LET t == Candidates!Target(s) IN
         \/ t = << >> /\ Candidates!ToSet(t) = {}
         \/ /\ t = <<s.target>> /\ Candidates!ToSet(t) = {s.target}
            /\ s.mode # "auto" /\ s.target # "none" /\ s.target \in Listed(s) /\ Candidates!Open(s, s.target)
<1>1. Candidates!ToSet(<< >>) = {}
  BY DEF Candidates!ToSet
<1>2. Candidates!ToSet(<<s.target>>) = {s.target}
  BY DEF Candidates!ToSet
<1> QED
  BY <1>1, <1>2 DEF Candidates!Target, Candidates!Unlisted, Listed

\* The retained endpoint goes first, and nothing is lost or doubled.
LEMMA ToFrontLists ==
  ASSUME NEW q, NEW S, Lists(q, S, S \X S), NEW e
  PROVE  LET p == Candidates!ToFront(q, e) IN
         /\ Lists(p, S, S \X S)
         /\ e \in S => p # << >> /\ p[1] = e
<1>1. Candidates!ToSet(q) = S
  BY ToSetOf
<1>2. CASE e \notin S
  BY <1>1, <1>2 DEF Candidates!ToFront
<1>3. CASE e \in S
  <2> DEFINE o == Only(q, S \ {e})
  <2>1. Candidates!ToFront(q, e) = <<e>> \o o
    BY <1>1, <1>3, SameOnly, Zenon DEF Candidates!ToFront
  <2>2. Lists(o, S \ {e}, S \X S)
    <3>1. S \cap (S \ {e}) = S \ {e}
      OBVIOUS
    <3>2. Lists(o, S \cap (S \ {e}), S \X S)
      BY OnlyLists
    <3> QED
      BY <3>1, <3>2
  <2> HIDE DEF o
  <2>3. Lists(<<e>>, {e}, S \X S)
    BY Single
  <2>4. \A x \in {e}, y \in S \ {e} : x # y /\ <<x, y>> \in S \X S
    BY <1>3
  <2>5. Lists(<<e>> \o o, {e} \cup (S \ {e}), S \X S)
    BY <2>2, <2>3, <2>4, Joined
  <2>6. {e} \cup (S \ {e}) = S
    BY <1>3
  <2>7. o \in Seq(S)
    BY <2>2 DEF Lists
  <2>8. <<e>> \o o # << >> /\ (<<e>> \o o)[1] = e
    BY <1>3, <2>7
  <2> QED
    BY <2>1, <2>5, <2>6, <2>8
<1> QED
  BY <1>2, <1>3

\* The order by the last test keeps every endpoint of the tier.
LEMMA BySpeedLists ==
  ASSUME NEW s, RouteSnapshot(s), NEW S, S \subseteq Listed(s), NEW q, Lists(q, S, S \X S)
  PROVE  Lists(Candidates!BySpeed(s, q), S, S \X S)
<1>1. CASE s.speed = << >>
  BY <1>1 DEF Candidates!BySpeed
<1>2. CASE s.speed # << >>
  <2> DEFINE A == {e \in S : s.speed[e] > 0}
             B == {e \in S : s.speed[e] = 0}
  <2>1. Candidates!ToSet(q) = S
    BY ToSetOf
  <2>2. Candidates!BySpeed(s, q) = Candidates!Stable(Only(q, A), s.speed) \o Only(q, B)
    BY <1>2, <2>1, SameOnly, Zenon DEF Candidates!BySpeed
  <2>3. \A e \in S : s.speed[e] \in Nat
    BY <1>2 DEF RouteSnapshot
  <2>4. S \cap A = A /\ S \cap B = B /\ A \cup B = S /\ A \cap B = {}
    BY <2>3
  <2>5. Lists(Only(q, A), S \cap A, S \X S) /\ Lists(Only(q, B), S \cap B, S \X S)
    BY OnlyLists
  <2>6. \A e \in A : s.speed[e] \in Int
    BY <2>3
  <2> HIDE DEF A, B
  <2>7. Lists(Only(q, A), A, S \X S) /\ Lists(Only(q, B), B, S \X S)
    BY <2>4, <2>5
  <2>8. Lists(Candidates!Stable(Only(q, A), s.speed), A, S \X S)
    <3>1. Lists(Candidates!Stable(Only(q, A), s.speed), A, ByKey(A, s.speed))
      BY <2>6, <2>7, StableLists
    <3> QED
      BY <2>4, <3>1, Loosely
  <2>9. \A x \in A, y \in B : x # y /\ <<x, y>> \in S \X S
    BY <2>4
  <2> QED
    BY <2>2, <2>4, <2>7, <2>8, <2>9, Joined
<1> QED
  BY <1>1, <1>2

\* The automatic part of the plan: every endpoint of Rest, by tier, the retained
\* one of the best tier at its head.
LEMMA AutoPlanLists ==
  ASSUME NEW s, RouteSnapshot(s)
  PROVE  LET p == Candidates!AutoPlan(s) IN
         /\ Lists(p, Rest(s), ByKey(Rest(s), s.prio))
         /\ \A e \in Rest(s) : (\A x \in Rest(s) : s.prio[e] <= s.prio[x]) /\ e = s.retained[s.prio[e]]
                                 => p[1] = e
<1> DEFINE N == Listed(s)
           O == Rest(s)
           K == ByKey(O, s.prio)
           sorted == Candidates!Stable(Candidates!Eligible(s), s.prio)
           best == s.prio[sorted[1]]
           A == {e \in O : s.prio[e] = best}
           B == {e \in O : s.prio[e] # best}
           tier == Only(sorted, A)
           lower == Only(sorted, B)
           front == Candidates!ToFront(Candidates!BySpeed(s, tier), s.retained[best])
<1>1. O \subseteq N /\ \A e \in O : s.prio[e] \in Int
  BY DEF Rest, RouteSnapshot
<1>2. Lists(Candidates!Eligible(s), O, N \X N)
  <2>1. Lists(s.order, N, N \X N)
    <3>1. s.order \in Seq(N) /\ DOMAIN s.order = 1 .. Len(s.order) /\ Len(s.order) \in Nat
      BY DEF RouteSnapshot
    <3>2. \A i \in 1 .. Len(s.order) : s.order[i] \in N
      BY <3>1
    <3>3. \A x \in N : \E i \in 1 .. Len(s.order) : s.order[i] = x
      BY <3>1 DEF Listed, Candidates!ToSet
    <3>4. \A i, j \in 1 .. Len(s.order) : i < j => s.order[i] # s.order[j]
      BY <3>1 DEF RouteSnapshot
    <3> HIDE DEF N
    <3> QED
      BY <3>1, <3>2, <3>3, <3>4 DEF Lists
  <2>2. Lists(Only(s.order, O), N \cap O, N \X N)
    BY <2>1, OnlyLists
  <2>3. Candidates!Eligible(s) = Only(s.order, O)
    BY SameOnly, Zenon DEF Candidates!Eligible, Rest, Listed
  <2>4. N \cap O = O
    BY <1>1
  <2> QED
    BY <2>2, <2>3, <2>4
<1>3. Lists(sorted, O, K)
  BY <1>1, <1>2, StableLists
<1> HIDE DEF N, O
<1>4. Candidates!ToSet(sorted) = O
  BY <1>3, ToSetOf
<1>5. CASE O = {}
  <2>1. sorted = << >>
    BY <1>3, <1>5, Empty
  <2>2. Candidates!AutoPlan(s) = sorted
    BY <2>1, Zenon DEF Candidates!AutoPlan
  <2> QED
    BY <1>3, <1>5, <2>2 DEF O
<1>6. CASE O # {}
  <2>1. sorted # << >>
    BY <1>3, <1>6, Empty
  <2>2. /\ sorted \in Seq(O) /\ 1 \in 1 .. Len(sorted) /\ sorted[1] \in O
        /\ DOMAIN sorted = 1 .. Len(sorted) /\ Len(sorted) \in Nat
    <3>1. sorted \in Seq(O)
      BY <1>3 DEF Lists
    <3> HIDE DEF sorted
    <3> QED
      BY <2>1, <3>1
  <2>3. \A x \in O : best <= s.prio[x]
    <3> TAKE x \in O
    <3>1. PICK i \in 1 .. Len(sorted) : sorted[i] = x
      BY <1>3, Zenon DEF Lists
    <3> HIDE DEF sorted
    <3>2. CASE i = 1
      BY <1>1, <2>2, <3>1, <3>2
    <3>3. CASE i # 1
      <4>1. 1 < i
        BY <2>2, <3>3
      <4>2. <<sorted[1], sorted[i]>> \in K
        BY <1>3, <2>2, <4>1 DEF Lists
      <4> QED
        BY <3>1, <4>2 DEF ByKey
    <3> QED
      BY <3>2, <3>3
  <2>4. best \in Int
    BY <1>1, <2>2
  <2>5. Candidates!AutoPlan(s) = front \o lower
    BY <1>4, <2>1, SameOnly, Zenon DEF Candidates!AutoPlan
  <2>6. /\ A \subseteq N /\ A \subseteq O /\ B \subseteq O /\ A \cup B = O
        /\ O \cap A = A /\ O \cap B = B
    BY <1>1
  <2>7. Lists(tier, O \cap A, K) /\ Lists(lower, O \cap B, K)
    BY <1>3, OnlyLists
  <2>8. \A x \in A, y \in A : <<x, y>> \in K
    BY <2>4, <2>6 DEF ByKey
  <2>9. \A x \in A, y \in B : x # y /\ <<x, y>> \in K
    BY <1>1, <2>3, <2>4, <2>6 DEF ByKey
  <2>10. \A e \in O : (\A x \in O : s.prio[e] <= s.prio[x]) => s.prio[e] = best
    BY <1>1, <2>2, <2>3, <2>4
  <2>11. \A e \in O : s.prio[e] = best => e \in A
    OBVIOUS
  <2> HIDE DEF sorted, best, A, B, tier, lower, K
  <2>12. Lists(tier, A, A \X A)
    <3>1. Lists(tier, A, K)
      BY <2>6, <2>7
    <3> QED
      BY <3>1, Loosely
  <2>13. Lists(Candidates!BySpeed(s, tier), A, A \X A)
    BY <2>6, <2>12, BySpeedLists DEF N
  <2>14. /\ Lists(front, A, A \X A)
         /\ s.retained[best] \in A => front # << >> /\ front[1] = s.retained[best]
    BY <2>13, ToFrontLists
  <2> HIDE DEF front
  <2>15. Lists(front, A, K)
    <3>1. \A x, y \in A : <<x, y>> \in A \X A => <<x, y>> \in K
      BY <2>8
    <3> QED
      BY <2>14, <3>1, Coarser
  <2>16. Lists(lower, B, K)
    BY <2>6, <2>7
  <2>17. Lists(front \o lower, O, K)
    <3>1. Lists(front \o lower, A \cup B, K)
      BY <2>9, <2>15, <2>16, Joined
    <3> QED
      BY <2>6, <3>1
  <2>18. ASSUME NEW e \in O, \A x \in O : s.prio[e] <= s.prio[x], e = s.retained[s.prio[e]]
         PROVE  (front \o lower)[1] = e
    <3>1. s.prio[e] = best /\ e \in A
      BY <2>10, <2>11, <2>18
    <3>2. front # << >> /\ front[1] = e
      BY <2>14, <2>18, <3>1
    <3>3. front \in Seq(A) /\ lower \in Seq(B)
      BY <2>15, <2>16 DEF Lists
    <3>4. (front \o lower)[1] = front[1]
      BY <3>2, <3>3
    <3> QED
      BY <3>2, <3>4
  <2> QED
    BY <2>5, <2>17, <2>18 DEF O, K
<1> QED
  BY <1>5, <1>6

\* The target, then the automatic part.
LEMMA AllLists ==
  ASSUME NEW s, RouteSnapshot(s)
  PROVE  LET t == Candidates!ToSet(Candidates!Target(s))
             p == Candidates!Target(s) \o Candidates!AutoPlan(s) IN
         /\ p \in Seq(t \cup Rest(s)) /\ DOMAIN p = 1 .. Len(p) /\ Len(p) \in Nat
         /\ \A x \in t \cup Rest(s) : \E i \in DOMAIN p : p[i] = x
         /\ \A i, j \in DOMAIN p : p[i] = p[j] => i = j
         /\ \A i, j \in DOMAIN p : i < j /\ {p[i], p[j]} \subseteq Rest(s) => s.prio[p[i]] <= s.prio[p[j]]
         /\ \A i, j \in DOMAIN p :
              /\ {p[i], p[j]} \subseteq Rest(s) /\ \A x \in Rest(s) : s.prio[p[j]] <= s.prio[x]
              /\ p[j] = s.retained[s.prio[p[j]]]
              => j <= i
         /\ Candidates!Target(s) # << >> => p # << >> /\ p[1] = s.target
<1> DEFINE t == Candidates!Target(s)
           T == Candidates!ToSet(t)
           O == Rest(s)
           a == Candidates!AutoPlan(s)
           p == t \o a
           W == (T \X (T \cup O)) \cup ByKey(O, s.prio)
<1>1. /\ Lists(a, O, ByKey(O, s.prio))
      /\ \A e \in O : (\A x \in O : s.prio[e] <= s.prio[x]) /\ e = s.retained[s.prio[e]] => a[1] = e
  BY AutoPlanLists
<1>2. O \cap T = {}
  BY DEF Rest
<1>3. \/ t = << >> /\ T = {}
      \/ t = <<s.target>> /\ T = {s.target}
  BY TargetIs
<1> HIDE DEF t, T, O, a
<1>4. \A x, y \in O : <<x, y>> \in W => s.prio[x] <= s.prio[y]
  BY <1>2 DEF ByKey
<1>5. Lists(t, T, W)
  <2>1. CASE t = << >> /\ T = {}
    BY <2>1 DEF Lists
  <2>2. CASE t = <<s.target>> /\ T = {s.target}
    BY <2>2, Single
  <2> QED
    BY <1>3, <2>1, <2>2
<1>6. Lists(a, O, W)
  <2>1. \A x, y \in O : <<x, y>> \in ByKey(O, s.prio) => <<x, y>> \in W
    OBVIOUS
  <2> QED
    BY <1>1, <2>1, Coarser
<1>7. \A x \in T, y \in O : x # y /\ <<x, y>> \in W
  BY <1>2
<1> HIDE DEF W
<1>8. Lists(p, T \cup O, W)
  BY <1>5, <1>6, <1>7, Joined
<1>9. /\ t \in Seq(T) /\ a \in Seq(O) /\ Len(t) \in Nat /\ Len(a) \in Nat
      /\ Len(p) = Len(t) + Len(a) /\ Len(p) \in Nat
      /\ \A i \in 1 .. Len(t) : p[i] \in T
      /\ \A i \in 1 .. Len(a) : p[Len(t) + i] = a[i]
  <2>1. t \in Seq(T) /\ a \in Seq(O)
    BY <1>5, <1>6 DEF Lists
  <2> QED
    BY <2>1
<1> HIDE DEF p
<1>10. /\ p \in Seq(T \cup O) /\ DOMAIN p = 1 .. Len(p)
       /\ T \cup O = {p[i] : i \in DOMAIN p}
       /\ \A i, j \in DOMAIN p : p[i] = p[j] => i = j
       /\ \A i, j \in DOMAIN p : i < j => <<p[i], p[j]>> \in W
  BY <1>8, Members
<1>11. \A x \in T \cup O : \E i \in DOMAIN p : p[i] = x
  BY <1>10
<1>12. \A i, j \in DOMAIN p : i < j /\ {p[i], p[j]} \subseteq O => s.prio[p[i]] <= s.prio[p[j]]
  BY <1>4, <1>10
<1>13. ASSUME NEW i \in DOMAIN p, NEW j \in DOMAIN p, {p[i], p[j]} \subseteq O,
              \A x \in O : s.prio[p[j]] <= s.prio[x], p[j] = s.retained[s.prio[p[j]]]
       PROVE  j <= i
  <2>1. p[j] = a[1]
    BY <1>1, <1>13
  <2>2. a # << >>
    BY <1>1, <1>13, Empty
  <2>3. 1 \in 1 .. Len(a)
    BY <1>9, <2>2
  <2>4. p[Len(t) + 1] = a[1] /\ Len(t) + 1 \in DOMAIN p
    BY <1>9, <1>10, <2>3
  <2>5. j = Len(t) + 1
    BY <1>10, <2>1, <2>4
  <2>6. i \notin 1 .. Len(t)
    BY <1>2, <1>9, <1>13
  <2>7. i \in Nat /\ 1 <= i
    BY <1>9, <1>10
  <2> QED
    BY <1>9, <2>5, <2>6, <2>7
<1>14. ASSUME t # << >> PROVE p # << >> /\ p[1] = s.target
  <2>1. t = <<s.target>> /\ Len(t) = 1 /\ t[1] = s.target
    BY <1>3, <1>14
  <2> QED
    BY <1>9, <2>1 DEF p
<1> QED
  BY <1>9, <1>10, <1>11, <1>12, <1>13, <1>14 DEF t, T, O, a, p

\* The plan of a request keeps to the route, for any number of endpoints, any
\* tiers, times of the tests and retained endpoints: PrepareRouteCandidates.
THEOREM RouteKept == ASSUME NEW s, RouteSnapshot(s) PROVE Candidates!PlanRespectsRoute(s)
<1> DEFINE p == Candidates!Plan(s)
           t == Candidates!Target(s)
           T == Candidates!ToSet(t)
           O == Rest(s)
           all == t \o Candidates!AutoPlan(s)
           Fixed == s.mode = "manual_fixed" /\ s.target # "none"
           Best == {e \in O : \A x \in O : s.prio[e] <= s.prio[x]}
<1> SUFFICES ASSUME s.ready
             PROVE  /\ \A i, j \in DOMAIN p : p[i] = p[j] => i = j
                    /\ Fixed => /\ Candidates!ToSet(p) \subseteq {s.target}
                                /\ (p = << >> <=> Candidates!FixedBlock(s) # 0)
                    /\ \A i \in DOMAIN p : p[i] \in Listed(s) /\ Candidates!Open(s, p[i])
                    /\ ~Fixed =>
                       /\ t # << >> => p # << >> /\ p[1] = s.target
                       /\ \A i \in DOMAIN p : p[i] \in O \/ p[i] = s.target
                       /\ \A i, j \in DOMAIN p : i < j /\ {p[i], p[j]} \subseteq O => s.prio[p[i]] <= s.prio[p[j]]
                       /\ \A i, j \in DOMAIN p : {p[i], p[j]} \subseteq Best /\ p[j] = s.retained[s.prio[p[j]]] => j <= i
                       /\ IF s.failover THEN O \subseteq Candidates!ToSet(p)
                          ELSE Len(p) = IF O = {} /\ t = << >> THEN 0 ELSE 1
  BY Zenon DEF Candidates!PlanRespectsRoute, Rest, Listed
<1>1. \/ t = << >> /\ T = {}
      \/ /\ t = <<s.target>> /\ T = {s.target}
         /\ s.mode # "auto" /\ s.target # "none" /\ s.target \in Listed(s) /\ Candidates!Open(s, s.target)
  BY TargetIs
<1>2. CASE Fixed
  <2>1. p = t
    BY <1>2, Zenon DEF Candidates!Plan
  <2>2. t = << >> <=> s.target \notin Listed(s) \/ ~Candidates!Open(s, s.target)
    BY <1>2 DEF Candidates!Target, Candidates!Unlisted, Listed
  <2>3. Candidates!FixedBlock(s) # 0 <=> s.target \notin Listed(s) \/ ~Candidates!Open(s, s.target)
    BY <1>2 DEF Candidates!FixedBlock, Candidates!Unlisted, Candidates!Open, Listed
  <2> HIDE DEF p, t, T, O
  <2>4. Candidates!ToSet(p) \subseteq {s.target} /\ \A i \in DOMAIN p : p[i] = s.target /\ i = 1
    BY <1>1, <2>1 DEF Candidates!ToSet
  <2>5. \A i \in DOMAIN p : s.target \in Listed(s) /\ Candidates!Open(s, s.target)
    BY <1>1, <2>1
  <2> QED
    BY <1>2, <2>1, <2>2, <2>3, <2>4, <2>5
<1>3. CASE ~Fixed
  <2>1. p = IF s.failover \/ all = << >> THEN all ELSE <<all[1]>>
    BY <1>3, Zenon DEF Candidates!Plan
  <2>2. /\ all \in Seq(T \cup O) /\ DOMAIN all = 1 .. Len(all) /\ Len(all) \in Nat
        /\ \A x \in T \cup O : \E i \in DOMAIN all : all[i] = x
        /\ \A i, j \in DOMAIN all : all[i] = all[j] => i = j
        /\ \A i, j \in DOMAIN all : i < j /\ {all[i], all[j]} \subseteq O => s.prio[all[i]] <= s.prio[all[j]]
        /\ \A i, j \in DOMAIN all :
             /\ {all[i], all[j]} \subseteq O /\ \A x \in O : s.prio[all[j]] <= s.prio[x]
             /\ all[j] = s.retained[s.prio[all[j]]]
             => j <= i
        /\ t # << >> => all # << >> /\ all[1] = s.target
    BY AllLists
  <2>3. \A x \in T \cup O : x \in Listed(s) /\ Candidates!Open(s, x) /\ (x \in O \/ x = s.target)
    <3>1. \A x \in O : x \in Listed(s) /\ Candidates!Open(s, x)
      BY DEF Rest
    <3> QED
      BY <1>1, <3>1
  <2> HIDE DEF p, t, T, O, all
  <2>4. all = << >> <=> T \cup O = {}
    BY <2>2
  <2>5. T = {} <=> t = << >>
    BY <1>1
  <2>6. CASE s.failover \/ all = << >>
    <3>1. p = all
      BY <2>1, <2>6
    <3>2. \A i \in DOMAIN p : p[i] \in T \cup O
      BY <2>2, <3>1
    <3>3. O \subseteq Candidates!ToSet(p)
      BY <2>2, <3>1 DEF Candidates!ToSet
    <3>4. ~s.failover => Len(p) = 0 /\ O = {} /\ t = << >>
      BY <2>4, <2>5, <2>6, <3>1
    <3>5. \A i, j \in DOMAIN p : {p[i], p[j]} \subseteq Best /\ p[j] = s.retained[s.prio[p[j]]] => j <= i
      BY <2>2, <3>1
    <3> QED
      BY <1>3, <2>2, <2>3, <3>1, <3>2, <3>3, <3>4, <3>5
  <2>7. CASE ~s.failover /\ all # << >>
    <3>1. p = <<all[1]>> /\ DOMAIN p = {1} /\ p[1] = all[1] /\ Len(p) = 1
      BY <2>1, <2>7
    <3>2. all[1] \in T \cup O
      BY <2>2, <2>7
    <3>3. ~(O = {} /\ t = << >>)
      BY <2>4, <2>5, <2>7
    <3> QED
      BY <1>3, <2>2, <2>3, <2>7, <3>1, <3>2, <3>3
  <2> QED
    BY <2>6, <2>7
<1> QED
  BY <1>2, <1>3
-----------------------------------------------------------------------------
(* The accounts a request will try, for any pool of them.                   *)

Accounts ==
  [tier : 1 .. 3, oauth : BOOLEAN, free : BOOLEAN, quota : {"ok", "exhausted", "unknown"},
   rem5 : Int, q5 : Nat, remW : Int, qW : Nat, fails : Nat, last : Nat]

\* A pool as the scheduler sees it: the choices of the user and those retained
\* name an account of the pool or none.
AccountPool(s) ==
  /\ s = [accounts |-> s.accounts, search |-> s.search, pinned |-> s.pinned,
          preferred |-> s.preferred, retained |-> s.retained]
  /\ s.accounts \in Seq(Accounts) /\ s.search \in BOOLEAN
  /\ s.pinned \in 0 .. Len(s.accounts)
  /\ s.preferred \in [1 .. 3 -> Nat] /\ s.retained \in [1 .. 3 -> Nat]

LEMMA PressureIsNat ==
  \A left, quarters \in Nat, minimal \in Nat \ {0} : Ranking!Pressure(left, quarters, minimal) \in Nat
<1> SUFFICES ASSUME NEW left \in Nat, NEW quarters \in Nat, NEW minimal \in Nat \ {0}
             PROVE  Ranking!Pressure(left, quarters, minimal) \in Nat
  OBVIOUS
<1> DEFINE d == IF quarters < minimal THEN minimal ELSE quarters
<1>1. d \in Nat \ {0}
  OBVIOUS
<1>2. left * 96 \in Nat
  OBVIOUS
<1>3. Ranking!Pressure(left, quarters, minimal) = (left * 96) \div d
  BY DEF Ranking!Pressure, Ranking!Unit
<1> HIDE DEF d
<1>4. \A x \in Nat, y \in Nat \ {0} : x \div y \in Nat
  OBVIOUS
<1> QED
  BY <1>1, <1>2, <1>3, <1>4

\* How an account is ranked: its bucket, and its score as the product of what
\* its quota says and of the penalty for a recent success.
Merit(a) == Ranking!Utilization(a) * Ranking!Guardrail(a)

LEMMA ScoreOf ==
  ASSUME NEW a \in Accounts
  PROVE  /\ Ranking!Bucket(a) \in 1 .. 3 /\ Ranking!Score(a) \in Nat
         /\ Ranking!Bucket(a) = 1 => Merit(a) \in Nat /\ Ranking!Score(a) = Merit(a) * Ranking!Suppression(a)
         /\ Ranking!Bucket(a) # 1 => Ranking!Score(a) = 0
<1>1. Ranking!Bucket(a) \in 1 .. 3 /\ (Ranking!Bucket(a) = 1 => Ranking!KnownQuota(a))
  BY DEF Ranking!Bucket, Accounts
<1>2. ASSUME Ranking!KnownQuota(a) PROVE Ranking!Utilization(a) \in Nat
  <2>1. a.rem5 \in Int /\ a.remW \in Int /\ a.q5 \in Nat /\ a.qW \in Nat /\ a.free \in BOOLEAN
    BY DEF Accounts
  <2>2. Ranking!KnownW(a) => Ranking!Pressure(a.remW, a.qW, 24) \in Nat
    <3>1. Ranking!KnownW(a) => a.remW \in Nat
      BY <2>1 DEF Ranking!KnownW
    <3>2. 24 \in Nat \ {0} /\ 1 \in Nat \ {0}
      OBVIOUS
    <3> QED
      BY <2>1, <3>1, <3>2, PressureIsNat, Zenon
  <2>3. Ranking!Known5(a) => Ranking!Pressure(a.rem5, a.q5, 1) \in Nat
    <3>1. Ranking!Known5(a) => a.rem5 \in Nat
      BY <2>1 DEF Ranking!Known5
    <3>2. 24 \in Nat \ {0} /\ 1 \in Nat \ {0}
      OBVIOUS
    <3> QED
      BY <2>1, <3>1, <3>2, PressureIsNat, Zenon
  <2>4. CASE a.free
    <3>1. Ranking!KnownW(a)
      BY <1>2, <2>4 DEF Ranking!KnownQuota
    <3>2. Ranking!Utilization(a) = 5 * Ranking!Pressure(a.remW, a.qW, 24)
      BY <2>4 DEF Ranking!Utilization
    <3> QED
      BY <2>2, <3>1, <3>2
  <2>5. CASE ~a.free
    <3> DEFINE x == IF Ranking!Known5(a) THEN 5 * Ranking!Pressure(a.rem5, a.q5, 1) ELSE 0
               y == IF Ranking!KnownW(a) THEN Ranking!Pressure(a.remW, a.qW, 24) ELSE 0
    <3>1. x \in Nat /\ y \in Nat
      BY <2>2, <2>3
    <3>2. Ranking!Utilization(a) = x + y
      BY <2>5, Zenon DEF Ranking!Utilization
    <3> HIDE DEF x, y
    <3> QED
      BY <3>1, <3>2
  <2> QED
    BY <2>4, <2>5
<1>3. Ranking!Guardrail(a) \in Nat
  <2>1. a.remW \in Int
    BY DEF Accounts
  <2>2. Ranking!Guardrail(a) \in {10, 3, 6}
    BY <2>1 DEF Ranking!Guardrail
  <2> QED
    BY <2>2
<1>4. Ranking!Suppression(a) \in Nat
  BY DEF Ranking!Suppression
<1>5. \A x, y \in Nat : x * y \in Nat
  OBVIOUS
<1>6. Ranking!Bucket(a) = 1 => Merit(a) \in Nat
  BY <1>1, <1>2, <1>3, <1>5 DEF Merit
<1>7. Ranking!Bucket(a) = 1 => Ranking!Score(a) = Merit(a) * Ranking!Suppression(a)
  BY Zenon DEF Ranking!Score, Merit
<1>8. Ranking!Bucket(a) # 1 => Ranking!Score(a) = 0
  BY Zenon DEF Ranking!Score
<1>9. Ranking!Score(a) \in Nat
  BY <1>4, <1>5, <1>6, <1>7, <1>8
<1> QED
  BY <1>1, <1>6, <1>7, <1>8, <1>9

RankBefore(s) == {x \in Ranking!Ids(s) \X Ranking!Ids(s) : Ranking!Before(s, x[1], x[2])}

\* The ranking tells any two accounts apart.
LEMMA RankOrders ==
  ASSUME NEW s, AccountPool(s)
  PROVE  Orders(RankBefore(s), Ranking!Ids(s))
<1> DEFINE D == Ranking!Ids(s)
           b == [i \in D |-> Ranking!Bucket(s.accounts[i])]
           v == [i \in D |-> Ranking!Score(s.accounts[i])]
           f == [i \in D |-> s.accounts[i].fails]
           l == [i \in D |-> s.accounts[i].last]
<1>1. D = 1 .. Len(s.accounts) /\ Len(s.accounts) \in Nat /\ \A i \in D : s.accounts[i] \in Accounts
  BY DEF AccountPool, Ranking!Ids
<1>2. \A i \in D : i \in Int /\ b[i] \in Int /\ v[i] \in Int /\ f[i] \in Int /\ l[i] \in Int
  <2> TAKE i \in D
  <2>1. Ranking!Bucket(s.accounts[i]) \in 1 .. 3 /\ Ranking!Score(s.accounts[i]) \in Nat
    BY <1>1, ScoreOf
  <2>2. s.accounts[i].fails \in Nat /\ s.accounts[i].last \in Nat
    BY <1>1 DEF Accounts
  <2> QED
    BY <1>1, <2>1, <2>2
<1>3. \A i, j \in D :
        <<i, j>> \in RankBefore(s) <=>
          \/ b[i] < b[j]
          \/ /\ b[i] = b[j]
             /\ \/ v[i] > v[j]
                \/ /\ v[i] = v[j]
                   /\ \/ f[i] < f[j]
                      \/ f[i] = f[j] /\ (l[i] > l[j] \/ (l[i] = l[j] /\ i < j))
  <2> TAKE i, j \in D
  <2>1. <<i, j>> \in RankBefore(s) <=> Ranking!Before(s, i, j)
    BY DEF RankBefore
  <2> QED
    BY <2>1 DEF Ranking!Before
<1> HIDE DEF D, b, v, f, l
<1> QED
  BY <1>2, <1>3 DEF Orders, D

\* The accounts of a group that can be scheduled, and their list.
Schedulable(s, t) == {i \in Ranking!Ids(s) : s.accounts[i].tier = t /\ ~Ranking!Skipped(s, i)}

LEMMA TierLists ==
  ASSUME NEW s, AccountPool(s), NEW t
  PROVE  Lists(Ranking!Tier(s, t), Schedulable(s, t), RankBefore(s))
<1>1. Orders(RankBefore(s), Schedulable(s, t))
  BY RankOrders DEF Orders, Schedulable
<1>2. IsFiniteSet(Schedulable(s, t))
  <2>1. Ranking!Ids(s) = 1 .. Len(s.accounts) /\ Len(s.accounts) \in Nat
    BY DEF AccountPool, Ranking!Ids
  <2>2. IsFiniteSet(Ranking!Ids(s))
    BY <2>1, FS_Interval
  <2>3. Schedulable(s, t) \in SUBSET Ranking!Ids(s)
    BY DEF Schedulable
  <2> QED
    BY <2>2, <2>3, FS_Subset
<1>3. Ranking!Tier(s, t) = Arranged(Schedulable(s, t), RankBefore(s))
  BY SameArranged, Zenon DEF Ranking!Tier, Schedulable, RankBefore
<1> QED
  BY <1>1, <1>2, <1>3, ArrangedLists

LEMMA FirstTierIs ==
  ASSUME NEW s, AccountPool(s)
  PROVE  /\ Ranking!FirstTier(s) \in 1 .. 4
         /\ Ranking!FirstTier(s) # 4 => Schedulable(s, Ranking!FirstTier(s)) # {}
         /\ \A t \in 1 .. 3 : t < Ranking!FirstTier(s) => Schedulable(s, t) = {}
<1> DEFINE M == {4} \cup {t \in 1 .. 3 : Ranking!Tier(s, t) # << >>}
           m == Ranking!FirstTier(s)
<1>1. \A t : Ranking!Tier(s, t) = << >> <=> Schedulable(s, t) = {}
  BY TierLists, Empty
<1>2. M \subseteq 1 .. 4 /\ 4 \in M /\ \A t \in 1 .. 3 : t \in M <=> Ranking!Tier(s, t) # << >>
  OBVIOUS
<1>3. m = CHOOSE x \in M : \A y \in M : x =< y
  BY Zenon DEF Ranking!FirstTier, Ranking!Min
<1> HIDE DEF M, m
<1>4. \E x \in M : \A y \in M : x =< y
  <2>0. \A y \in M : y = 1 \/ y = 2 \/ y = 3 \/ y = 4
    BY <1>2
  <2>1. CASE 1 \in M
    BY <2>0, <2>1
  <2>2. CASE 1 \notin M /\ 2 \in M
    BY <2>0, <2>2
  <2>3. CASE 1 \notin M /\ 2 \notin M /\ 3 \in M
    BY <2>0, <2>3
  <2>4. CASE 1 \notin M /\ 2 \notin M /\ 3 \notin M
    BY <1>2, <2>0, <2>4
  <2> QED
    BY <2>1, <2>2, <2>3, <2>4
<1>5. m \in M /\ \A y \in M : m <= y
  BY <1>3, <1>4
<1>6. m \in 1 .. 4 /\ (m # 4 => Ranking!Tier(s, m) # << >>)
  BY <1>2, <1>5
<1>7. \A t \in 1 .. 3 : t < m => Ranking!Tier(s, t) = << >>
  BY <1>2, <1>5, <1>6
<1> QED
  BY <1>1, <1>6, <1>7 DEF m

\* The list of a group: the account that is to come first, and the others by their rank.
LEMMA InTierLists ==
  ASSUME NEW s, AccountPool(s), NEW t
  PROVE  LET p == Ranking!InTier(s, t)
             q == Ranking!Tier(s, t)
             S == Schedulable(s, t) IN
         /\ Lists(p, S, S \X S)
         /\ p = << >> <=> S = {}
         /\ S # {} => p[1] = Ranking!First(s, t, q) /\ p[1] \in S
         /\ \A m, n \in 2 .. Len(p) :
              m < n => Ranking!Bucket(s.accounts[p[m]]) <= Ranking!Bucket(s.accounts[p[n]])
<1> DEFINE p == Ranking!InTier(s, t)
           q == Ranking!Tier(s, t)
           S == Schedulable(s, t)
           f == Ranking!First(s, t, q)
           o == Only(q, S \ {f})
           W == {x \in S \X S : x[1] = f \/ Ranking!Bucket(s.accounts[x[1]]) <= Ranking!Bucket(s.accounts[x[2]])}
<1>1. Lists(q, S, RankBefore(s))
  BY TierLists
<1>2. Ranking!ToSet(q) = S
  BY <1>1, Members, Zenon DEF Ranking!ToSet
<1>3. S = {} <=> q = << >>
  BY <1>1, Empty
<1>4. \A i, j \in S : <<i, j>> \in RankBefore(s) =>
        Ranking!Bucket(s.accounts[i]) <= Ranking!Bucket(s.accounts[j])
  <2> TAKE i, j \in S
  <2> HAVE <<i, j>> \in RankBefore(s)
  <2>1. Ranking!Before(s, i, j)
    BY DEF RankBefore
  <2>2. s.accounts[i] \in Accounts /\ s.accounts[j] \in Accounts
    BY DEF Schedulable, Ranking!Ids, AccountPool
  <2>3. Ranking!Bucket(s.accounts[i]) \in 1 .. 3 /\ Ranking!Bucket(s.accounts[j]) \in 1 .. 3
    BY <2>2, ScoreOf
  <2> QED
    BY <2>1, <2>3 DEF Ranking!Before
<1>5. CASE S = {}
  <2>1. p = << >>
    BY <1>3, <1>5, Zenon DEF Ranking!InTier, Ranking!Ordered
  <2>2. Len(p) = 0 /\ Lists(p, S, S \X S)
    BY <1>5, <2>1 DEF Lists
  <2> HIDE DEF p, q, S, f
  <2>3. \A m, n \in 2 .. Len(p) :
          m < n => Ranking!Bucket(s.accounts[p[m]]) <= Ranking!Bucket(s.accounts[p[n]])
    BY <2>2
  <2> QED
    BY <1>5, <2>1, <2>2, <2>3 DEF p, q, S, f
<1>6. CASE S # {}
  <2>1. p = <<f>> \o o
    BY <1>2, <1>3, <1>6, SameOnly, Zenon DEF Ranking!InTier, Ranking!Ordered, Ranking!ToFront
  <2>2. q[1] \in S
    <3>1. q \in Seq(S) /\ q # << >>
      BY <1>1, <1>3, <1>6 DEF Lists
    <3> HIDE DEF q, S
    <3> QED
      BY <3>1
  <2>3. f \in S
    BY <1>2, <2>2, Zenon DEF Ranking!First, Ranking!Among
  <2> HIDE DEF p, q, S, f
  <2>4. Lists(o, S \ {f}, W)
    <3>1. S \cap (S \ {f}) = S \ {f}
      OBVIOUS
    <3>2. Lists(o, S \cap (S \ {f}), RankBefore(s))
      BY <1>1, OnlyLists
    <3>3. \A x, y \in S \ {f} : <<x, y>> \in RankBefore(s) => <<x, y>> \in W
      BY <1>4
    <3> HIDE DEF o, W
    <3>4. Lists(o, S \ {f}, RankBefore(s))
      BY <3>1, <3>2
    <3> QED
      BY <3>3, <3>4, Coarser
  <2>5. \A x \in {f}, y \in S \ {f} : x # y /\ <<x, y>> \in W
    BY <2>3
  <2>6. {f} \cup (S \ {f}) = S
    BY <2>3
  <2>7. \A x, y \in S : <<x, y>> \in W /\ x # f =>
          Ranking!Bucket(s.accounts[x]) <= Ranking!Bucket(s.accounts[y])
    OBVIOUS
  <2>8. o \in Seq(S \ {f})
    BY <2>4 DEF Lists
  <2> HIDE DEF o, W
  <2>9. Lists(p, S, W)
    <3>1. Lists(<<f>>, {f}, W)
      BY Single
    <3>2. Lists(<<f>> \o o, {f} \cup (S \ {f}), W)
      BY <2>4, <2>5, <3>1, Joined
    <3> QED
      BY <2>1, <2>6, <3>2
  <2>10. p # << >> /\ p[1] = f /\ 1 \in DOMAIN p
    BY <2>1, <2>8
  <2>11. /\ p \in Seq(S) /\ Len(p) \in Nat /\ DOMAIN p = 1 .. Len(p)
         /\ \A i, j \in DOMAIN p : p[i] = p[j] => i = j
         /\ \A i, j \in DOMAIN p : i < j => <<p[i], p[j]>> \in W
    BY <2>9, Members
  <2>12. ASSUME NEW m \in 2 .. Len(p), NEW n \in 2 .. Len(p), m < n
         PROVE  Ranking!Bucket(s.accounts[p[m]]) <= Ranking!Bucket(s.accounts[p[n]])
    <3>1. m \in DOMAIN p /\ n \in DOMAIN p /\ m # 1
      BY <2>11
    <3>2. p[m] # f /\ p[m] \in S /\ p[n] \in S
      BY <2>10, <2>11, <3>1
    <3> QED
      BY <2>7, <2>11, <2>12, <3>1, <3>2
  <2>13. Lists(p, S, S \X S)
    BY <2>9, Loosely
  <2> QED
    BY <1>6, <2>3, <2>10, <2>12, <2>13 DEF p, q, S, f
<1> QED
  BY <1>5, <1>6

\* The group the request is served from is the best one with an account, unless
\* the user pinned an account elsewhere.
LEMMA ChosenTierIs ==
  ASSUME NEW s, AccountPool(s)
  PROVE  LET t == Ranking!ChosenTier(s) IN
         /\ t \in 1 .. 4
         /\ Schedulable(s, t) = {} => \A i \in Ranking!Ids(s) : Ranking!Skipped(s, i)
         /\ s.pinned = 0 => t = Ranking!FirstTier(s)
<1>1. Ranking!Tier(s, s.accounts[s.pinned].tier) = << >> <=> Schedulable(s, s.accounts[s.pinned].tier) = {}
  BY TierLists, Empty
<1>2. \A i \in Ranking!Ids(s) : s.accounts[i] \in Accounts /\ s.accounts[i].tier \in 1 .. 3
  <2>1. \A i \in Ranking!Ids(s) : s.accounts[i] \in Accounts
    BY DEF AccountPool, Ranking!Ids
  <2>2. \A a \in Accounts : a.tier \in 1 .. 3
    BY DEF Accounts
  <2> QED
    BY <2>1, <2>2
<1>3. CASE Ranking!Pinned(s) /\ Ranking!Tier(s, s.accounts[s.pinned].tier) # << >>
  <2>1. Ranking!ChosenTier(s) = s.accounts[s.pinned].tier
    BY <1>3, Zenon DEF Ranking!ChosenTier
  <2>2. s.pinned # 0 /\ s.pinned \in Ranking!Ids(s)
    BY <1>3 DEF Ranking!Pinned, Ranking!Ids, AccountPool
  <2> QED
    BY <1>1, <1>2, <1>3, <2>1, <2>2
<1>4. CASE ~(Ranking!Pinned(s) /\ Ranking!Tier(s, s.accounts[s.pinned].tier) # << >>)
  <2>1. Ranking!ChosenTier(s) = Ranking!FirstTier(s)
    BY <1>4, Zenon DEF Ranking!ChosenTier
  <2>2. /\ Ranking!FirstTier(s) \in 1 .. 4
        /\ Ranking!FirstTier(s) # 4 => Schedulable(s, Ranking!FirstTier(s)) # {}
        /\ \A t \in 1 .. 3 : t < Ranking!FirstTier(s) => Schedulable(s, t) = {}
    BY FirstTierIs
  <2>3. Schedulable(s, Ranking!FirstTier(s)) = {} => \A t \in 1 .. 3 : Schedulable(s, t) = {}
    BY <2>2
  <2>4. (\A t \in 1 .. 3 : Schedulable(s, t) = {}) => \A i \in Ranking!Ids(s) : Ranking!Skipped(s, i)
    BY <1>2 DEF Schedulable
  <2> QED
    BY <2>1, <2>2, <2>3, <2>4
<1>5. s.pinned = 0 => ~Ranking!Pinned(s)
  BY DEF Ranking!Pinned
<1> QED
  BY <1>3, <1>4, <1>5, Zenon DEF Ranking!ChosenTier

\* The sequence made of a finite set has every member once.
LEMMA SetToSeqLists ==
  ASSUME NEW S, IsFiniteSet(S)
  PROVE  Lists(Ranking!SetToSeq(S), S, S \X S)
<1> DEFINE n == Cardinality(S)
           q == Ranking!SetToSeq(S)
<1>1. n \in Nat /\ ExistsBijection(1 .. n, S)
  BY FS_CardinalityType
<1>2. q = CHOOSE f \in [1 .. n -> S] : \A i, j \in DOMAIN f : f[i] = f[j] => i = j
  BY Zenon DEF Ranking!SetToSeq, Ranking!IsInjective, Ranking!Cardinality, Cardinality
<1>3. \E f \in [1 .. n -> S] : \A i, j \in DOMAIN f : f[i] = f[j] => i = j
  <2>1. PICK f \in Bijection(1 .. n, S) : TRUE
    BY <1>1, Zenon DEF ExistsBijection
  <2>2. f \in [1 .. n -> S] /\ \A i, j \in 1 .. n : f[i] = f[j] => i = j
    BY <2>1 DEF Bijection, Injection, Surjection, IsInjective
  <2> HIDE DEF n
  <2>3. DOMAIN f = 1 .. n
    BY <2>2
  <2> QED
    BY <2>2, <2>3, Zenon
<1> HIDE DEF n, q
<1>4. q \in [1 .. n -> S] /\ \A i, j \in DOMAIN q : q[i] = q[j] => i = j
  BY <1>2, <1>3, Zenon
<1>5. q \in Surjection(1 .. n, S)
  <2>1. q \in Injection(1 .. n, S)
    BY <1>4 DEF Injection, IsInjective
  <2>2. Cardinality(1 .. n) = n
    <3>1. IsFiniteSet(1 .. n) /\ Cardinality(1 .. n) = IF 1 > n THEN 0 ELSE n - 1 + 1
      BY <1>1, FS_Interval
    <3> QED
      BY <1>1, <3>1
  <2> QED
    BY <2>1, <2>2, FS_Injection DEF n
<1>6. \A x \in S : \E i \in 1 .. n : q[i] = x
  BY <1>5, Zenon DEF Surjection
<1>7. q \in Seq(S) /\ Len(q) = n /\ DOMAIN q = 1 .. n
  BY <1>1, <1>4
<1>8. \A i, j \in 1 .. Len(q) : i < j => q[i] # q[j] /\ <<q[i], q[j]>> \in S \X S
  BY <1>1, <1>4, <1>7
<1> QED
  BY <1>6, <1>7, <1>8 DEF Lists, q

\* A list with something said of each entry.
LEMMA SaidLists ==
  ASSUME NEW q, NEW S, Lists(q, S, S \X S), NEW v, NEW w,
         DOMAIN w = DOMAIN q, w = [i \in DOMAIN w |-> w[i]], \A i \in DOMAIN q : w[i] = <<q[i], v[q[i]]>>
  PROVE  LET V == {<<x, v[x]>> : x \in S} IN Lists(w, V, V \X V)
<1> DEFINE V == {<<x, v[x]>> : x \in S}
<1>1. /\ q \in Seq(S) /\ Len(q) \in Nat /\ DOMAIN q = 1 .. Len(q)
      /\ S = {q[i] : i \in DOMAIN q}
      /\ \A i, j \in DOMAIN q : q[i] = q[j] => i = j
  BY Members
<1>2. \A i \in 1 .. Len(q) : w[i] \in V /\ q[i] \in S
  <2> TAKE i \in 1 .. Len(q)
  <2>1. q[i] \in S /\ w[i] = <<q[i], v[q[i]]>>
    BY <1>1
  <2>2. <<q[i], v[q[i]]>> \in V
    BY <2>1
  <2> QED
    BY <2>1, <2>2
<1>3. \A x \in V : \E i \in 1 .. Len(q) : w[i] = x
  BY <1>1
<1> HIDE DEF V
<1>4. w \in Seq(V) /\ Len(w) = Len(q)
  BY <1>1, <1>2
<1>5. \A i, j \in 1 .. Len(w) : i < j => w[i] # w[j] /\ <<w[i], w[j]>> \in V \X V
  BY <1>1, <1>2, <1>4
<1> QED
  BY <1>3, <1>4, <1>5 DEF Lists, V

\* Two lists of different entries, one after the other.
LEMMA JoinedAny ==
  ASSUME NEW p, NEW S, NEW q, NEW T, Lists(p, S, S \X S), Lists(q, T, T \X T), S \cap T = {}
  PROVE  Lists(p \o q, S \cup T, (S \cup T) \X (S \cup T))
<1> DEFINE W == (S \cup T) \X (S \cup T)
<1>1. Lists(p, S, W) /\ Lists(q, T, W)
  BY Loosely
<1>2. \A x \in S, y \in T : x # y /\ <<x, y>> \in W
  OBVIOUS
<1> HIDE DEF W
<1>3. Lists(p \o q, S \cup T, W)
  BY <1>1, <1>2, Joined
<1> QED
  BY <1>3 DEF W

LEMMA LengthOf ==
  ASSUME NEW q, NEW S, NEW R, Lists(q, S, R)
  PROVE  IsFiniteSet(S) /\ Cardinality(S) = Len(q)
<1>1. /\ q \in Seq(S) /\ Len(q) \in Nat /\ DOMAIN q = 1 .. Len(q)
      /\ S = {q[i] : i \in DOMAIN q}
      /\ \A i, j \in DOMAIN q : q[i] = q[j] => i = j
  BY Members
<1>2. q \in [1 .. Len(q) -> S]
  BY <1>1
<1>3. q \in Injection(1 .. Len(q), S)
  BY <1>1, <1>2 DEF Injection, IsInjective
<1>4. q \in Surjection(1 .. Len(q), S)
  <2>1. \A x \in S : \E i \in 1 .. Len(q) : q[i] = x
    BY <1>1
  <2> QED
    BY <1>2, <2>1, Zenon DEF Surjection
<1>5. IsFiniteSet(1 .. Len(q)) /\ Cardinality(1 .. Len(q)) = Len(q)
  <2>1. IsFiniteSet(1 .. Len(q)) /\ Cardinality(1 .. Len(q)) = IF 1 > Len(q) THEN 0 ELSE Len(q) - 1 + 1
    BY <1>1, FS_Interval
  <2> QED
    BY <1>1, <2>1
<1> QED
  BY <1>3, <1>4, <1>5, FS_Surjection

\* What is decided of each account when the list is p.
Verdict(s, p) ==
  [i \in Ranking!Ids(s) |->
     IF i \in Ranking!ToSet(p) THEN (IF i = p[1] THEN "selected" ELSE "eligible") ELSE "skipped"]
Told(S, v) == {<<i, v[i]>> : i \in S}
OfTier(s, t) == {i \in Ranking!Ids(s) : s.accounts[i].tier = t}

LEMMA ToldApart ==
  ASSUME NEW S, NEW T, NEW v
  PROVE  /\ S \cap T = {} => Told(S, v) \cap Told(T, v) = {}
         /\ Told(S, v) \cup Told(T, v) = Told(S \cup T, v)
  BY DEF Told

SaidOf(V, c) == {x[1] : x \in {y \in V : y[2] = c}}

LEMMA ToldOf ==
  ASSUME NEW S, NEW v, NEW c
  PROVE  /\ {x[1] : x \in Told(S, v)} = S
         /\ SaidOf(Told(S, v), c) = {i \in S : v[i] = c}
<1>1. \A x \in Told(S, v) : x[1] \in S /\ x[2] = v[x[1]]
  BY DEF Told
<1>2. \A i \in S : <<i, v[i]>> \in Told(S, v) /\ <<i, v[i]>>[1] = i /\ <<i, v[i]>>[2] = v[i]
  BY DEF Told
<1>3. {x[1] : x \in Told(S, v)} = S
  BY <1>1, <1>2
<1>4. SaidOf(Told(S, v), c) = {i \in S : v[i] = c}
  <2> DEFINE G == {y \in Told(S, v) : y[2] = c}
  <2>1. \A x \in G : x[1] \in S /\ v[x[1]] = c
    BY <1>1
  <2>2. \A i \in S : v[i] = c => \E x \in G : x[1] = i
    BY <1>2
  <2> HIDE DEF G
  <2>3. {x[1] : x \in G} = {i \in S : v[i] = c}
    BY <2>1, <2>2
  <2> QED
    BY <2>3 DEF G, SaidOf
<1> QED
  BY <1>3, <1>4

\* Of the accounts of a group, those that can be scheduled are told first, then the skipped.
LEMMA DecidedLists ==
  ASSUME NEW s, AccountPool(s), NEW t \in 1 .. 3
  PROVE  LET p == Ranking!Schedule(s)
             V == Told(OfTier(s, t), Verdict(s, p)) IN
         Lists(Ranking!Decided(s, t, p), V, V \X V)
<1> DEFINE p == Ranking!Schedule(s)
           c == Ranking!ChosenTier(s)
           q == Ranking!Tier(s, t)
           S == Schedulable(s, t)
           K == {i \in Ranking!Ids(s) : s.accounts[i].tier = t /\ Ranking!Skipped(s, i)}
           v == Verdict(s, p)
           w == IF p # << >> /\ s.accounts[p[1]].tier = t
                THEN [i \in DOMAIN p |-> <<p[i], IF i = 1 THEN "selected" ELSE "eligible">>]
                ELSE [i \in DOMAIN q |-> <<q[i], "skipped">>]
           z == Ranking!SetToSeq(Ranking!AllSkipped(s, t))
<1>1. p = Ranking!InTier(s, c)
  BY Zenon DEF Ranking!Schedule
<1>2. /\ Lists(p, Schedulable(s, c), Schedulable(s, c) \X Schedulable(s, c))
      /\ p = << >> <=> Schedulable(s, c) = {}
      /\ Schedulable(s, c) # {} => p[1] \in Schedulable(s, c)
  BY <1>1, InTierLists
<1>3. Ranking!ToSet(p) = Schedulable(s, c) /\ Schedulable(s, c) = {p[i] : i \in DOMAIN p}
  BY <1>2, Members, Zenon DEF Ranking!ToSet
<1>4. Lists(q, S, S \X S)
  BY TierLists, Loosely
<1>5. Lists(w, Told(S, v), Told(S, v) \X Told(S, v))
  <2>1. CASE p # << >> /\ s.accounts[p[1]].tier = t
    <3>1. c = t
      BY <1>2, <2>1 DEF Schedulable
    <3>2. /\ DOMAIN p = 1 .. Len(p) /\ Len(p) \in Nat
          /\ \A i, j \in DOMAIN p : p[i] = p[j] => i = j
      BY <1>2, Members
    <3>3. Lists(p, S, S \X S)
      BY <1>2, <3>1
    <3>4. w = [i \in DOMAIN p |-> <<p[i], IF i = 1 THEN "selected" ELSE "eligible">>]
      BY <2>1
    <3>5. \A i \in DOMAIN p : p[i] \in Ranking!Ids(s) /\ p[i] \in Ranking!ToSet(p)
      BY <1>3 DEF Schedulable
    <3>6. 1 \in DOMAIN p
      <4>1. p \in Seq(S)
        BY <3>3 DEF Lists
      <4> HIDE DEF p, S
      <4> QED
        BY <2>1, <4>1
    <3>7. \A i \in Ranking!Ids(s) : v[i] = IF i \in Ranking!ToSet(p) THEN (IF i = p[1] THEN "selected" ELSE "eligible") ELSE "skipped"
      BY DEF Verdict
    <3> HIDE DEF p, w, v, S
    <3>8. \A i \in DOMAIN p : w[i] = <<p[i], v[p[i]]>>
      BY <3>2, <3>4, <3>5, <3>6, <3>7
    <3>9. DOMAIN w = DOMAIN p /\ w = [i \in DOMAIN w |-> w[i]]
      BY <3>4
    <3> QED
      BY <3>3, <3>8, <3>9, SaidLists DEF Told
  <2>2. CASE ~(p # << >> /\ s.accounts[p[1]].tier = t)
    <3>1. S \cap Schedulable(s, c) = {}
      BY <1>2, <2>2 DEF Schedulable
    <3>2. w = [i \in DOMAIN q |-> <<q[i], "skipped">>]
      BY <2>2, Zenon
    <3>3. \A i \in S : v[i] = "skipped"
      BY <1>3, <3>1 DEF Verdict, Schedulable
    <3>4. S = {q[i] : i \in DOMAIN q}
      BY <1>4, Members
    <3> HIDE DEF p, w, v, S, q
    <3>5. \A i \in DOMAIN q : w[i] = <<q[i], v[q[i]]>>
      BY <3>2, <3>3, <3>4
    <3>6. DOMAIN w = DOMAIN q /\ w = [i \in DOMAIN w |-> w[i]]
      BY <3>2
    <3> QED
      BY <1>4, <3>5, <3>6, SaidLists DEF Told
  <2> QED
    BY <2>1, <2>2
<1>6. Lists(z, Told(K, v), Told(K, v) \X Told(K, v))
  <2>1. \A i \in K : v[i] = "skipped"
    BY <1>3 DEF Verdict, Schedulable
  <2>2. Ranking!AllSkipped(s, t) = {<<i, "skipped">> : i \in K}
    BY Zenon DEF Ranking!AllSkipped
  <2>3. IsFiniteSet(K)
    <3>1. Ranking!Ids(s) = 1 .. Len(s.accounts) /\ Len(s.accounts) \in Nat
      BY DEF AccountPool, Ranking!Ids
    <3>2. IsFiniteSet(Ranking!Ids(s))
      BY <3>1, FS_Interval
    <3>3. K \in SUBSET Ranking!Ids(s)
      OBVIOUS
    <3> QED
      BY <3>2, <3>3, FS_Subset
  <2> HIDE DEF K, v
  <2>4. Told(K, v) = {<<i, "skipped">> : i \in K}
    BY <2>1 DEF Told
  <2>5. IsFiniteSet(Told(K, v))
    <3> DEFINE g == [i \in K |-> <<i, v[i]>>]
    <3>1. g \in Surjection(K, Told(K, v))
      BY DEF Surjection, Told
    <3> QED
      BY <2>3, <3>1, FS_Surjection
  <2>6. z = Ranking!SetToSeq(Told(K, v))
    BY <2>2, <2>4
  <2> QED
    BY <2>5, <2>6, SetToSeqLists
<1>7. S \cap K = {} /\ S \cup K = OfTier(s, t)
  BY DEF Schedulable, OfTier
<1>8. Ranking!Decided(s, t, p) = w \o z
  BY Zenon DEF Ranking!Decided
<1> HIDE DEF p, w, z, v, S, K
<1>9. Told(S, v) \cap Told(K, v) = {} /\ Told(S, v) \cup Told(K, v) = Told(OfTier(s, t), v)
  BY <1>7, ToldApart
<1> QED
  BY <1>5, <1>6, <1>8, <1>9, JoinedAny DEF p, v

\* The snapshot tells every account once.
LEMMA DecisionsList ==
  ASSUME NEW s, AccountPool(s)
  PROVE  LET p == Ranking!Schedule(s)
             d == Ranking!Decisions(s, p) IN
         /\ Ranking!ToSet(d) = Told(Ranking!Ids(s), Verdict(s, p))
         /\ Len(d) = Len(s.accounts)
<1> DEFINE p == Ranking!Schedule(s)
           d == Ranking!Decisions(s, p)
           v == Verdict(s, p)
           D(t) == Ranking!Decided(s, t, p)
           N == Ranking!Ids(s)
<1>1. N = 1 .. Len(s.accounts) /\ Len(s.accounts) \in Nat /\ \A i \in N : s.accounts[i] \in Accounts
  BY DEF AccountPool, Ranking!Ids
<1>2. \A i \in N : s.accounts[i].tier \in 1 .. 3
  <2>1. \A a \in Accounts : a.tier \in 1 .. 3
    BY DEF Accounts
  <2> QED
    BY <1>1, <2>1
<1>3. \A t \in 1 .. 3 : Lists(D(t), Told(OfTier(s, t), v), Told(OfTier(s, t), v) \X Told(OfTier(s, t), v))
  BY DecidedLists
<1>4. d = (D(1) \o D(2)) \o D(3)
  BY Zenon DEF Ranking!Decisions
<1>5. /\ OfTier(s, 1) \cap OfTier(s, 2) = {}
      /\ (OfTier(s, 1) \cup OfTier(s, 2)) \cap OfTier(s, 3) = {}
      /\ (OfTier(s, 1) \cup OfTier(s, 2)) \cup OfTier(s, 3) = N
  BY <1>2 DEF OfTier
<1> HIDE DEF d, D, v, N
<1>6. LET V == Told(OfTier(s, 1) \cup OfTier(s, 2), v) IN Lists(D(1) \o D(2), V, V \X V)
  BY <1>3, <1>5, JoinedAny, ToldApart
<1>7. Lists(d, Told(N, v), Told(N, v) \X Told(N, v))
  <2> DEFINE A == Told(OfTier(s, 1) \cup OfTier(s, 2), v)
             B == Told(OfTier(s, 3), v)
  <2>1. A \cap B = {} /\ A \cup B = Told(N, v)
    BY <1>5, ToldApart
  <2>2. Lists(D(1) \o D(2), A, A \X A) /\ Lists(D(3), B, B \X B)
    BY <1>3, <1>6
  <2> HIDE DEF A, B
  <2> QED
    BY <1>4, <2>1, <2>2, JoinedAny
<1>8. Ranking!ToSet(d) = Told(N, v)
  BY <1>7, Members, Zenon DEF Ranking!ToSet
<1>9. Len(d) = Len(s.accounts)
  <2> DEFINE n == Len(s.accounts)
             ids == [i \in 1 .. n |-> i]
             told == [i \in 1 .. n |-> <<i, v[i]>>]
  <2>1. Lists(ids, N, N \X N)
    BY <1>1 DEF Lists
  <2>2. /\ DOMAIN told = DOMAIN ids /\ told = [i \in DOMAIN told |-> told[i]]
        /\ \A i \in DOMAIN ids : told[i] = <<ids[i], v[ids[i]]>>
    OBVIOUS
  <2>3. Len(told) = n
    BY <1>1
  <2> HIDE DEF ids, told, n
  <2>4. Lists(told, Told(N, v), Told(N, v) \X Told(N, v))
    BY <2>1, <2>2, SaidLists DEF Told
  <2>5. Cardinality(Told(N, v)) = Len(told) /\ Cardinality(Told(N, v)) = Len(d)
    BY <1>7, <2>4, LengthOf
  <2> QED
    BY <2>3, <2>5 DEF n
<1> QED
  BY <1>8, <1>9 DEF d, N, v

\* The list of a request and what the snapshot says of it, for any pool: prepareSchedulableAccounts.
THEOREM ListsAreSound == ASSUME NEW s, AccountPool(s) PROVE Ranking!ScheduleIsSound(s)
<1> DEFINE p == Ranking!Schedule(s)
           d == Ranking!Decisions(s, p)
           u == Ranking!Usable(s)
           c == Ranking!ChosenTier(s)
           v == Verdict(s, p)
           N == Ranking!Ids(s)
           S == Schedulable(s, c)
<1>1. p = Ranking!InTier(s, c)
  BY Zenon DEF Ranking!Schedule
<1>2. /\ Lists(p, S, S \X S)
      /\ p = << >> <=> S = {}
      /\ S # {} => p[1] \in S
      /\ \A m, n \in 2 .. Len(p) :
           m < n => Ranking!Bucket(s.accounts[p[m]]) <= Ranking!Bucket(s.accounts[p[n]])
  BY <1>1, InTierLists
<1>3. /\ DOMAIN p = 1 .. Len(p)
      /\ \A i, j \in DOMAIN p : p[i] = p[j] => i = j
      /\ Ranking!ToSet(p) = S
  BY <1>2, Members, Zenon DEF Ranking!ToSet
<1>4. /\ c \in 1 .. 4
      /\ S = {} => \A i \in N : Ranking!Skipped(s, i)
      /\ s.pinned = 0 => c = Ranking!FirstTier(s)
  BY ChosenTierIs
<1>5. \A i \in N : s.accounts[i] \in Accounts /\ s.accounts[i].tier \in 1 .. 3 /\ s.accounts[i].oauth \in BOOLEAN
  <2>1. \A i \in N : s.accounts[i] \in Accounts
    BY DEF AccountPool, Ranking!Ids
  <2>2. \A a \in Accounts : a.tier \in 1 .. 3 /\ a.oauth \in BOOLEAN
    BY DEF Accounts
  <2> QED
    BY <2>1, <2>2
<1>6. u = {i \in N : ~Ranking!Skipped(s, i)}
  BY <1>5 DEF Ranking!Usable, Ranking!Skipped
<1>7. /\ Ranking!ToSet(d) = Told(N, v)
      /\ Len(d) = Len(s.accounts)
  BY DecisionsList
<1>8. S \subseteq u
  BY <1>6 DEF Schedulable
<1>9. p = << >> => u = {}
  BY <1>2, <1>4, <1>6
<1>10. ASSUME s.pinned = 0, NEW i \in S, NEW j \in u \ S
       PROVE  s.accounts[i].tier < s.accounts[j].tier
  <2>1. \A t \in 1 .. 3 : t < c => Schedulable(s, t) = {}
    BY <1>4, <1>10, FirstTierIs
  <2>2. j \in N /\ j \in Schedulable(s, s.accounts[j].tier)
    BY <1>6 DEF Schedulable
  <2>3. s.accounts[i].tier = c
    BY DEF Schedulable
  <2>4. s.accounts[j].tier # c
    BY <2>2
  <2> HIDE DEF S, c
  <2> QED
    BY <1>4, <1>5, <2>1, <2>2, <2>3, <2>4
<1>11. {x[1] : x \in Ranking!ToSet(d)} = N
  BY <1>7, ToldOf
<1>12. {x[1] : x \in {y \in Ranking!ToSet(d) : y[2] = "selected"}} = IF p = << >> THEN {} ELSE {p[1]}
  <2>1. \A i \in N : v[i] = IF i \in S THEN (IF i = p[1] THEN "selected" ELSE "eligible") ELSE "skipped"
    BY <1>3 DEF Verdict
  <2>2. \A i \in N : v[i] = "selected" <=> i \in S /\ i = p[1]
    BY <2>1
  <2>3. S \subseteq N
    BY DEF Schedulable
  <2> HIDE DEF p, v, d, S, N
  <2>4. {x[1] : x \in {y \in Ranking!ToSet(d) : y[2] = "selected"}} = {i \in N : v[i] = "selected"}
    <3>1. SaidOf(Told(N, v), "selected") = {i \in N : v[i] = "selected"}
      BY ToldOf
    <3> QED
      BY <1>7, <3>1, Zenon DEF SaidOf
  <2> QED
    BY <1>2, <2>2, <2>3, <2>4
<1> HIDE DEF p, d, u, S, N, v, c
<1>13. Ranking!Sound(s, p, d, u)
  <2>1. Ranking!IsInjective(p)
    BY <1>3, Zenon DEF Ranking!IsInjective
  <2> QED
    BY <1>2, <1>3, <1>7, <1>8, <1>9, <1>10, <1>11, <1>12, <2>1 DEF Ranking!Sound, N
<1> QED
  BY <1>13, Zenon DEF Ranking!ScheduleIsSound, p, d, u

\* A success changes how one account is ranked, by no more than the inertia.
Succeeded(a) == [a EXCEPT !.last = 2, !.fails = 0]

LEMMA SuccessKeepsRank ==
  ASSUME NEW a \in Accounts
  PROVE  LET z == Succeeded(a) IN
         /\ z \in Accounts /\ z.last = 2 /\ z.tier = a.tier /\ z.oauth = a.oauth
         /\ Ranking!Bucket(z) = Ranking!Bucket(a) /\ Merit(z) = Merit(a)
         /\ Ranking!Exhausted(z) = Ranking!Exhausted(a)
<1> DEFINE z == Succeeded(a)
<1>1. /\ z \in Accounts /\ z.last = 2 /\ z.tier = a.tier
      /\ z.oauth = a.oauth /\ z.free = a.free /\ z.quota = a.quota
      /\ z.rem5 = a.rem5 /\ z.q5 = a.q5 /\ z.remW = a.remW /\ z.qW = a.qW
  BY DEF Accounts, Succeeded
<1> HIDE DEF z
<1>2. Ranking!Bucket(z) = Ranking!Bucket(a) /\ Merit(z) = Merit(a)
  BY <1>1, Zenon DEF Ranking!Bucket, Merit, Ranking!Utilization, Ranking!Guardrail, Ranking!KnownQuota,
     Ranking!Known5, Ranking!KnownW
<1>3. Ranking!Exhausted(z) = Ranking!Exhausted(a)
  BY <1>1, Zenon DEF Ranking!Exhausted
<1> QED
  BY <1>1, <1>2, <1>3 DEF z

LEMMA SuccessKeepsLead ==
  ASSUME NEW a \in Accounts, NEW b \in Accounts,
         Ranking!Bucket(a) = Ranking!Bucket(b), Ranking!Score(b) <= Ranking!Score(a)
  PROVE  Ranking!Keeps(b, Succeeded(a))
<1> DEFINE z == Succeeded(a)
<1>1. z \in Accounts /\ z.last = 2 /\ Ranking!Bucket(z) = Ranking!Bucket(a) /\ Merit(z) = Merit(a)
  BY SuccessKeepsRank
<1> HIDE DEF z
<1>2. CASE Ranking!Bucket(a) # 1
  BY <1>1, <1>2 DEF Ranking!Keeps, z
<1>3. CASE Ranking!Bucket(a) = 1
  <2>1. /\ Merit(a) \in Nat /\ Ranking!Score(a) = Merit(a) * Ranking!Suppression(a)
        /\ Ranking!Score(z) = Merit(a) * Ranking!Suppression(z)
        /\ Ranking!Score(b) \in Nat /\ Ranking!Score(z) \in Nat
    BY <1>1, <1>3, ScoreOf
  <2>2. Ranking!Suppression(a) \in {17, 20} /\ Ranking!Suppression(z) = 17
    BY <1>1 DEF Ranking!Suppression
  <2>3. \A m, x, y \in Nat, k \in {17, 20} :
          y <= m * k /\ x = m * 17 => (x = 0 /\ y = 0) \/ 4 * y < 5 * x
    OBVIOUS
  <2>4. \/ Ranking!Score(z) = 0 /\ Ranking!Score(b) = 0
        \/ 4 * Ranking!Score(b) < 5 * Ranking!Score(z)
    BY <2>1, <2>2, <2>3
  <2> QED
    BY <1>1, <2>4 DEF Ranking!Keeps, z
<1> QED
  BY <1>2, <1>3

\* An account that came first by its rank comes first again after its own success,
\* for any pool: applyRecentSuccessSuppression against shouldRetainAutoActiveSelection.
THEOREM SuccessStays == ASSUME NEW s, AccountPool(s) PROVE Ranking!ChosenStays(s)
<1> DEFINE t == Ranking!FirstTier(s)
           q == Ranking!Tier(s, t)
           i == q[1]
           z == Ranking!AfterSuccess(s, i)
           r == Ranking!Tier(z, t)
           S == Schedulable(s, t)
<1> SUFFICES ASSUME s.pinned = 0, q # << >>, Ranking!First(s, s.accounts[i].tier, q) = i
             PROVE  Head(Ranking!Schedule(z)) = i
  BY Zenon DEF Ranking!ChosenStays, Ranking!StaysFirst
<1>1. Lists(q, S, RankBefore(s))
  BY TierLists
<1>2. /\ q \in Seq(S) /\ DOMAIN q = 1 .. Len(q) /\ Len(q) \in Nat /\ S = {q[k] : k \in DOMAIN q}
      /\ \A k, m \in DOMAIN q : k < m => <<q[k], q[m]>> \in RankBefore(s)
  BY <1>1, Members
<1>3. 1 \in DOMAIN q /\ i \in S
  <2> HIDE DEF q, S
  <2> QED
    BY <1>2
<1>4. /\ i \in Ranking!Ids(s) /\ s.accounts[i].tier = t /\ s.accounts[i] \in Accounts /\ t \in 1 .. 3
      /\ Ranking!Ids(s) = 1 .. Len(s.accounts)
  <2>1. i \in Ranking!Ids(s) /\ s.accounts[i].tier = t /\ s.accounts[i] \in Accounts
        /\ Ranking!Ids(s) = 1 .. Len(s.accounts)
    BY <1>3 DEF Schedulable, Ranking!Ids, AccountPool
  <2>2. s.accounts[i].tier \in 1 .. 3
    BY <2>1 DEF Accounts
  <2> QED
    BY <2>1, <2>2
<1> HIDE DEF t, q, i, S
<1> DEFINE own == Succeeded(s.accounts[i])
<1>5. /\ z.accounts = [s.accounts EXCEPT ![i] = own]
      /\ z.retained = [s.retained EXCEPT ![t] = i]
      /\ z.search = s.search /\ z.pinned = s.pinned /\ z.preferred = s.preferred
      /\ z = [accounts |-> z.accounts, search |-> z.search, pinned |-> z.pinned,
              preferred |-> z.preferred, retained |-> z.retained]
  <2>1. s = [accounts |-> s.accounts, search |-> s.search, pinned |-> s.pinned,
             preferred |-> s.preferred, retained |-> s.retained]
    BY DEF AccountPool
  <2>2. z = [s EXCEPT !.accounts[i].last = 2, !.accounts[i].fails = 0, !.retained[t] = i]
    BY <1>4, Zenon DEF Ranking!AfterSuccess
  <2>3. DOMAIN s.accounts = 1 .. Len(s.accounts) /\ i \in DOMAIN s.accounts
    BY <1>4 DEF AccountPool
  <2> HIDE DEF z
  <2> QED
    BY <1>4, <2>1, <2>2, <2>3 DEF Succeeded, Accounts
<1> HIDE DEF z, own
<1>6. /\ own \in Accounts /\ own.tier = t /\ own.oauth = s.accounts[i].oauth
      /\ Ranking!Bucket(own) = Ranking!Bucket(s.accounts[i])
      /\ Ranking!Exhausted(own) = Ranking!Exhausted(s.accounts[i])
  BY <1>4, SuccessKeepsRank DEF own
<1>7. /\ Ranking!Ids(z) = Ranking!Ids(s) /\ z.accounts[i] = own /\ z.retained[t] = i
      /\ \A j \in Ranking!Ids(s) : j # i => z.accounts[j] = s.accounts[j]
  BY <1>4, <1>5 DEF Ranking!Ids, AccountPool
<1>8. AccountPool(z)
  <2>1. z.accounts \in Seq(Accounts) /\ Len(z.accounts) = Len(s.accounts)
    BY <1>4, <1>5, <1>6 DEF AccountPool
  <2>2. z.retained \in [1 .. 3 -> Nat]
    BY <1>4, <1>5 DEF AccountPool
  <2> QED
    BY <1>5, <2>1, <2>2 DEF AccountPool
<1>9. \A x : Schedulable(z, x) = Schedulable(s, x)
  <2>1. \A j \in Ranking!Ids(s) :
          /\ z.accounts[j].tier = s.accounts[j].tier
          /\ Ranking!Skipped(z, j) <=> Ranking!Skipped(s, j)
    <3> TAKE j \in Ranking!Ids(s)
    <3>1. /\ z.accounts[j].tier = s.accounts[j].tier /\ z.accounts[j].oauth = s.accounts[j].oauth
          /\ Ranking!Exhausted(z.accounts[j]) = Ranking!Exhausted(s.accounts[j])
      BY <1>4, <1>6, <1>7
    <3> QED
      BY <1>5, <3>1 DEF Ranking!Skipped
  <2> QED
    BY <1>7, <2>1 DEF Schedulable
<1>10. Ranking!ChosenTier(z) = t
  <2>1. /\ Ranking!FirstTier(z) \in 1 .. 4
        /\ Ranking!FirstTier(z) # 4 => Schedulable(s, Ranking!FirstTier(z)) # {}
        /\ \A x \in 1 .. 3 : x < Ranking!FirstTier(z) => Schedulable(s, x) = {}
    BY <1>8, <1>9, FirstTierIs
  <2>2. \A x \in 1 .. 3 : x < t => Schedulable(s, x) = {}
    BY FirstTierIs DEF t
  <2>3. Schedulable(s, t) # {}
    BY <1>3 DEF S
  <2>4. Ranking!FirstTier(z) = t
    BY <1>4, <2>1, <2>2, <2>3
  <2> QED
    BY <1>5, <1>8, <2>4, ChosenTierIs
<1>11. /\ Ranking!Schedule(z) \in Seq(S) /\ Ranking!Schedule(z) # << >>
       /\ Ranking!Schedule(z)[1] = Ranking!First(z, t, r)
  <2>1. Ranking!Schedule(z) = Ranking!InTier(z, t)
    BY <1>10, Zenon DEF Ranking!Schedule
  <2>2. /\ Lists(Ranking!InTier(z, t), S, S \X S)
        /\ Ranking!InTier(z, t) = << >> <=> S = {}
        /\ S # {} => Ranking!InTier(z, t)[1] = Ranking!First(z, t, r)
    BY <1>8, <1>9, InTierLists DEF S
  <2> QED
    BY <1>3, <2>1, <2>2 DEF Lists
<1>12. /\ r \in Seq(S) /\ DOMAIN r = 1 .. Len(r) /\ Len(r) \in Nat /\ S = {r[k] : k \in DOMAIN r}
       /\ \A k, m \in DOMAIN r : k < m => <<r[k], r[m]>> \in RankBefore(z)
  <2>1. Lists(r, S, RankBefore(z))
    BY <1>8, <1>9, TierLists DEF S
  <2> QED
    BY <2>1, Members
<1> DEFINE b == r[1]
<1> HIDE DEF r
<1>13. 1 \in DOMAIN r /\ b \in S /\ Ranking!ToSet(r) = S /\ Ranking!ToSet(q) = S
  <2>1. Ranking!ToSet(r) = S /\ Ranking!ToSet(q) = S
    BY <1>2, <1>12, Zenon DEF Ranking!ToSet
  <2> QED
    BY <1>3, <1>12, <2>1
<1> HIDE DEF b
<1>14. b \in Ranking!Ids(s) /\ s.accounts[b] \in Accounts
  BY <1>13 DEF S, Schedulable, AccountPool, Ranking!Ids
<1>15. b # i => Ranking!Keeps(s.accounts[b], own)
  <2> SUFFICES ASSUME b # i PROVE Ranking!Keeps(s.accounts[b], own)
    OBVIOUS
  <2>1. <<i, b>> \in RankBefore(s)
    <3>1. PICK k \in DOMAIN q : q[k] = b
      BY <1>2, <1>13
    <3>2. k # 1 /\ 1 < k
      BY <1>2, <3>1 DEF i
    <3> QED
      BY <1>2, <1>3, <3>1, <3>2 DEF i
  <2>2. <<b, i>> \in RankBefore(z)
    <3>1. PICK k \in DOMAIN r : r[k] = i
      BY <1>3, <1>12
    <3>2. k # 1 /\ 1 < k
      BY <1>12, <3>1 DEF b
    <3> QED
      BY <1>12, <1>13, <3>1, <3>2 DEF b
  <2>3. Ranking!Before(s, i, b) /\ Ranking!Before(z, b, i)
    BY <2>1, <2>2 DEF RankBefore
  <2>4. /\ Ranking!Bucket(s.accounts[i]) \in 1 .. 3 /\ Ranking!Bucket(s.accounts[b]) \in 1 .. 3
        /\ Ranking!Score(s.accounts[i]) \in Nat /\ Ranking!Score(s.accounts[b]) \in Nat
    BY <1>4, <1>14, ScoreOf
  <2>5. Ranking!Bucket(s.accounts[b]) <= Ranking!Bucket(s.accounts[i])
    <3>1. z.accounts[b] = s.accounts[b] /\ Ranking!Bucket(z.accounts[i]) = Ranking!Bucket(s.accounts[i])
      BY <1>6, <1>7, <1>14
    <3> QED
      BY <2>3, <2>4, <3>1 DEF Ranking!Before
  <2>6. /\ Ranking!Bucket(s.accounts[i]) = Ranking!Bucket(s.accounts[b])
        /\ Ranking!Score(s.accounts[b]) <= Ranking!Score(s.accounts[i])
    BY <2>3, <2>4, <2>5 DEF Ranking!Before
  <2> QED
    BY <1>4, <1>14, <2>6, SuccessKeepsLead DEF own
<1>16. s.preferred[t] \in S => s.preferred[t] = i
  <2>1. ~Ranking!Pinned(s)
    BY DEF Ranking!Pinned
  <2>2. Ranking!First(s, t, q) = i
    BY <1>4
  <2> QED
    BY <1>13, <2>1, <2>2 DEF Ranking!First, Ranking!Among
<1>17. Ranking!First(z, t, r) = i
  <2>1. ~Ranking!Pinned(z)
    BY <1>5 DEF Ranking!Pinned
  <2>2. Ranking!First(z, t, r) =
          IF s.preferred[t] \in S THEN s.preferred[t]
          ELSE IF i \in S /\ Ranking!Keeps(z.accounts[b], own) THEN i ELSE b
    BY <1>5, <1>7, <1>13, <2>1 DEF Ranking!First, Ranking!Among, b
  <2>3. b # i => Ranking!Keeps(z.accounts[b], own)
    BY <1>7, <1>14, <1>15
  <2> QED
    BY <1>3, <1>16, <2>2, <2>3
<1> QED
  BY <1>11, <1>17

-----------------------------------------------------------------------------
(* The inputs of the instance are snapshots and pools of this kind.         *)

LEMMA SituationsAreSnapshots == ASSUME NEW s \in Situations PROVE RouteSnapshot(s)
<1>1. PICK st \in [Names -> States], p \in [Names -> 1 .. 2], v \in Speeds,
           k \in {<<"none", "none">>, <<"c", "b">>}, c \in Choices, f \in BOOLEAN :
        s = [order |-> <<"a", "b", "c">>, on |-> [e \in Names |-> st[e][1]], auto |-> [e \in Names |-> st[e][2]],
             usable |-> [e \in Names |-> st[e][3]], prio |-> p, speed |-> v, retained |-> k,
             mode |-> c[1], target |-> c[2], ready |-> TRUE, failover |-> f]
  BY DEF Situations
<1>2. /\ s.order = <<"a", "b", "c">> /\ s.prio = p /\ s.speed = v
      /\ s.on = [e \in Names |-> st[e][1]] /\ s.auto = [e \in Names |-> st[e][2]]
      /\ s.usable = [e \in Names |-> st[e][3]]
  BY <1>1
<1>3. Listed(s) = Names
  BY <1>2 DEF Listed, Candidates!ToSet, Names
<1>4. s.order \in Seq(Names) /\ \A i, j \in DOMAIN s.order : s.order[i] = s.order[j] => i = j
  BY <1>2 DEF Names
<1>5. \A e \in Names : s.prio[e] \in Int
  BY <1>2
<1>7. s.speed # << >> => \A e \in Names : s.speed[e] \in Nat
  <2>1. CASE v = [a |-> 2, b |-> 1, c |-> 0]
    BY <1>2, <2>1 DEF Names
  <2>2. CASE v = [a |-> 1, b |-> 1, c |-> 2]
    BY <1>2, <2>2 DEF Names
  <2> QED
    BY <1>1, <1>2, <2>1, <2>2 DEF Speeds
<1> QED
  BY <1>3, <1>4, <1>5, <1>7, Zenon DEF RouteSnapshot

LEMMA Sequences ==
  ASSUME NEW S, NEW n \in Nat, NEW f \in [1 .. n -> S]
  PROVE  f \in Seq(S) /\ Len(f) = n
  OBVIOUS

\* The accounts of the instance are accounts.
LEMMA InstanceAccounts ==
  OAuthAccounts \subseteq Accounts /\ KeyAccounts \subseteq Accounts /\ GroupedAccounts \subseteq Accounts
<1>1. Plain \in Accounts
  BY DEF Plain, Accounts
<1>2. /\ {60, 20, 10, -1, 0} \subseteq Int /\ {0, 1, 2, 24} \subseteq Nat
       /\ {"exhausted", "unknown"} \subseteq {"ok", "exhausted", "unknown"}
  OBVIOUS
<1>3. [Plain EXCEPT !.rem5 = 60] \in Accounts
  <2>1. \A a \in Accounts, x \in Int : [a EXCEPT !.rem5 = x] \in Accounts
    BY DEF Accounts
  <2> QED
    BY <1>1, <1>2, <2>1, Zenon
<1>4. [Plain EXCEPT !.rem5 = 60, !.last = 2] \in Accounts
  <2>1. \A a \in Accounts, x \in Int, n \in Nat : [a EXCEPT !.rem5 = x, !.last = n] \in Accounts
    BY DEF Accounts
  <2> QED
    BY <1>1, <1>2, <2>1, Zenon
<1>5. [Plain EXCEPT !.last = 2] \in Accounts
  <2>1. \A a \in Accounts, n \in Nat : [a EXCEPT !.last = n] \in Accounts
    BY DEF Accounts
  <2> QED
    BY <1>1, <1>2, <2>1, Zenon
<1>6. [Plain EXCEPT !.remW = 20] \in Accounts
  <2>1. \A a \in Accounts, y \in Int : [a EXCEPT !.remW = y] \in Accounts
    BY DEF Accounts
  <2> QED
    BY <1>1, <1>2, <2>1, Zenon
<1>7. [Plain EXCEPT !.remW = 10, !.qW = 24] \in Accounts
  <2>1. \A a \in Accounts, y \in Int, m \in Nat : [a EXCEPT !.remW = y, !.qW = m] \in Accounts
    BY DEF Accounts
  <2> QED
    BY <1>1, <1>2, <2>1, Zenon
<1>8. [Plain EXCEPT !.free = TRUE, !.rem5 = -1, !.q5 = 0] \in Accounts
  <2>1. \A a \in Accounts, b \in BOOLEAN, x \in Int, m \in Nat : [a EXCEPT !.free = b, !.rem5 = x, !.q5 = m] \in Accounts
    BY DEF Accounts
  <2> QED
    BY <1>1, <1>2, <2>1, Zenon
<1>9. [Plain EXCEPT !.quota = "exhausted", !.rem5 = 0] \in Accounts
  <2>1. \A a \in Accounts, q \in {"exhausted", "unknown"}, x \in Int : [a EXCEPT !.quota = q, !.rem5 = x] \in Accounts
    BY DEF Accounts
  <2> QED
    BY <1>1, <1>2, <2>1, Zenon
<1>10. [Plain EXCEPT !.quota = "unknown", !.fails = 1] \in Accounts
  <2>1. \A a \in Accounts, q \in {"exhausted", "unknown"}, n \in Nat : [a EXCEPT !.quota = q, !.fails = n] \in Accounts
    BY DEF Accounts
  <2> QED
    BY <1>1, <1>2, <2>1, Zenon
<1>11. [Plain EXCEPT !.quota = "exhausted", !.remW = 0, !.qW = 0] \in Accounts
  <2>1. \A a \in Accounts, q \in {"exhausted", "unknown"}, y \in Int, m \in Nat : [a EXCEPT !.quota = q, !.remW = y, !.qW = m] \in Accounts
    BY DEF Accounts
  <2> QED
    BY <1>1, <1>2, <2>1, Zenon
<1>12. [Plain EXCEPT !.rem5 = 0, !.remW = 0] \in Accounts
  <2>1. \A a \in Accounts, x \in Int, y \in Int : [a EXCEPT !.rem5 = x, !.remW = y] \in Accounts
    BY DEF Accounts
  <2> QED
    BY <1>1, <1>2, <2>1, Zenon
<1>13. [Plain EXCEPT !.oauth = FALSE] \in Accounts
  <2>1. \A a \in Accounts, b \in BOOLEAN : [a EXCEPT !.oauth = b] \in Accounts
    BY DEF Accounts
  <2> QED
    BY <1>1, <1>2, <2>1, Zenon
<1>14. [Plain EXCEPT !.oauth = FALSE, !.quota = "exhausted", !.rem5 = 0, !.fails = 1] \in Accounts
  <2>1. \A a \in Accounts, b \in BOOLEAN, q \in {"exhausted", "unknown"}, x \in Int, n \in Nat : [a EXCEPT !.oauth = b, !.quota = q, !.rem5 = x, !.fails = n] \in Accounts
    BY DEF Accounts
  <2> QED
    BY <1>1, <1>2, <2>1, Zenon
<1>15. OAuthAccounts \subseteq Accounts
  BY <1>3, <1>4, <1>5, <1>6, <1>7, <1>8, <1>9, <1>10, <1>11, <1>12, <1>1, Zenon DEF OAuthAccounts
<1>16. KeyAccounts \subseteq Accounts
  BY <1>13, <1>14, Zenon DEF KeyAccounts
<1>17. GroupedAccounts \subseteq Accounts
  <2>1. \A a \in Accounts, t \in {1, 2} : [a EXCEPT !.tier = t] \in Accounts
    BY DEF Accounts
  <2> SUFFICES ASSUME NEW x \in GroupedAccounts PROVE x \in Accounts
    OBVIOUS
  <2>2. PICK a \in OAuthAccounts \cup KeyAccounts, t \in {1, 2} : x = [a EXCEPT !.tier = t]
    BY DEF GroupedAccounts
  <2> QED
    BY <1>15, <1>16, <2>1, <2>2
<1> QED
  BY <1>15, <1>16, <1>17

LEMMA PoolsAreAccountPools == ASSUME NEW s \in Pools PROVE AccountPool(s)
<1>1. CASE s \in RankedPools
  <2>1. s.accounts \in Seq(Accounts) /\ Len(s.accounts) = 3
    <3>1. s.accounts \in [1 .. 3 -> Accounts]
      BY <1>1, InstanceAccounts DEF RankedPools
    <3> QED
      BY <3>1, Sequences
  <2>2. s.preferred \in [1 .. 3 -> Nat] /\ s.retained \in [1 .. 3 -> Nat]
    BY <1>1 DEF RankedPools
  <2>3. s.search \in BOOLEAN
    <3>1. s.search \in {FALSE}
      BY <1>1 DEF RankedPools
    <3> QED
      BY <3>1, Zenon
  <2>4. s.pinned \in 0 .. 3
    BY <1>1 DEF RankedPools
  <2>5. s = [accounts |-> s.accounts, search |-> s.search, pinned |-> s.pinned,
             preferred |-> s.preferred, retained |-> s.retained]
    BY <1>1 DEF RankedPools
  <2> QED
    BY <2>1, <2>2, <2>3, <2>4, <2>5, Zenon DEF AccountPool
<1>2. CASE s \in GroupedPools
  <2>1. s.accounts \in Seq(Accounts) /\ Len(s.accounts) = 2
    <3>1. s.accounts \in [1 .. 2 -> Accounts]
      BY <1>2, InstanceAccounts DEF GroupedPools
    <3> QED
      BY <3>1, Sequences
  <2>2. s.preferred \in [1 .. 3 -> Nat] /\ s.retained \in [1 .. 3 -> Nat]
    BY <1>2 DEF GroupedPools
  <2>3. s.search \in BOOLEAN /\ s.pinned \in 0 .. 2
    BY <1>2 DEF GroupedPools
  <2>4. s = [accounts |-> s.accounts, search |-> s.search, pinned |-> s.pinned,
             preferred |-> s.preferred, retained |-> s.retained]
    BY <1>2 DEF GroupedPools
  <2> QED
    BY <2>1, <2>2, <2>3, <2>4, Zenon DEF AccountPool
<1> QED
  BY <1>1, <1>2 DEF Pools

InputInv ==
  \/ in = << >>
  \/ \E s \in Situations : in = <<"route", s>>
  \/ \E s \in Pools : in = <<"pool", s>>

\* The endpoints tried keep to the route, the accounts tried are usable ones of one
\* group, and who served last stays first: PrepareRouteCandidates and
\* prepareSchedulableAccounts, from RouteKept, ListsAreSound and SuccessStays.
THEOREM ChoicesAreRight == MCSpec => []ChoiceIsRight
<1>1. MCInit => InputInv
  BY DEF MCInit, InputInv
<1>2. InputInv /\ [MCNext]_allVars => InputInv'
  <2> SUFFICES ASSUME InputInv, [MCNext]_allVars PROVE InputInv'
    OBVIOUS
  <2>1. CASE UNCHANGED in
    BY <2>1 DEF InputInv
  <2>2. CASE Input
    BY <2>2 DEF Input, InputInv
  <2> QED
    BY <2>1, <2>2 DEF MCNext, AdmissionStep, DecisionStep, allVars
<1>3. InputInv => ChoiceIsRight
  <2>1. \A s \in Situations : Candidates!PlanRespectsRoute(s)
    BY SituationsAreSnapshots, RouteKept
  <2>2. \A s \in Pools : Ranking!ScheduleIsSound(s) /\ Ranking!ChosenStays(s)
    BY PoolsAreAccountPools, ListsAreSound, SuccessStays
  <2>3. ASSUME NEW s, in = <<"route", s>> PROVE in[1] = "route" /\ in[2] = s
    BY <2>3
  <2>4. ASSUME NEW s, in = <<"pool", s>> PROVE in[1] # "route" /\ in[2] = s
    BY <2>4
  <2> QED
    BY <2>1, <2>2, <2>3, <2>4, Zenon DEF InputInv, ChoiceIsRight
<1> QED
  BY <1>1, <1>2, <1>3, PTL DEF MCSpec
=============================================================================
