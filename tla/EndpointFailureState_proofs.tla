--------------------- MODULE EndpointFailureState_proofs ---------------------
(***************************************************************************)
(* Proofs about EndpointFailureState, for any number of attempts and any   *)
(* bounds; then about the accounts of MCEndpointFailureState, for any      *)
(* number of accounts, groups, attempts and calls of the desktop: what the *)
(* run-time state of an account keeps, and which account a request gets.   *)
(***************************************************************************)
EXTENDS MCEndpointFailureState, TLAPS

\* Moving an attempt to another control point keeps the type of att.
LEMMA GotoType ==
  ASSUME att \in [Attempts -> AttemptRecords], NEW a \in Attempts,
         NEW pc \in PCs, Goto(a, pc)
  PROVE  att' \in [Attempts -> AttemptRecords]
<1>1. [att[a] EXCEPT !.pc = pc] \in AttemptRecords
  BY DEF AttemptRecords
<1>2. att' = [att EXCEPT ![a] = [att[a] EXCEPT !.pc = pc]]
  BY DEF Goto
<1> QED
  BY <1>1, <1>2

\* Replacing the events of one category keeps the type of soft.
LEMMA SoftType ==
  ASSUME soft \in [Paths -> [Categories -> SUBSET Events]],
         NEW p \in Paths, NEW c \in Categories, NEW X \in SUBSET Events
  PROVE  [soft EXCEPT ![p][c] = X] \in [Paths -> [Categories -> SUBSET Events]]
<1>1. [soft[p] EXCEPT ![c] = X] \in [Categories -> SUBSET Events]
  OBVIOUS
<1> QED
  BY <1>1

\* Every variable keeps its domain.
LEMMA TypeStep == TypeOK /\ [Next]_vars => TypeOK'
<1> SUFFICES ASSUME TypeOK, [Next]_vars PROVE TypeOK'
  OBVIOUS
<1> USE DEF TypeOK
<1>1. ASSUME NEW a \in Attempts, NEW p \in Paths, Plan(a, p) PROVE TypeOK'
  BY <1>1 DEF Plan, AttemptRecords, PCs
<1>2. ASSUME NEW a \in Attempts, Acquire(a) \/ Abandon(a) PROVE TypeOK'
  <2>1. PICK pc \in PCs : Goto(a, pc)
    BY <1>2 DEF Acquire, Abandon, PCs
  <2> QED
    BY <1>2, <2>1, GotoType DEF Acquire, Abandon
<1>3. ASSUME NEW a \in Attempts, NEW kind \in {"record", "auth"}, EnterFailure(a, kind)
      PROVE TypeOK'
  <2>1. PICK pc \in PCs : Goto(a, pc)
    BY <1>3 DEF EnterFailure, PCs
  <2> QED
    BY <1>3, <2>1, GotoType DEF EnterFailure
<1>4. ASSUME NEW a \in Attempts, NEW c \in Categories, RecordSoftFailure(a, c)
      PROVE TypeOK'
  <2> DEFINE path  == att[a].path
             valid == InWindow(soft[path][c]) \cup {[at |-> now, by |-> a, tag |-> TagOf(a)]}
  <2>1. path \in Paths /\ valid \in SUBSET Events
    BY DEF AttemptRecords, InWindow, Events, TagOf, Tags
  <2>2. soft' \in [Paths -> [Categories -> SUBSET Events]]
    <3>1. soft' = soft \/ \E X \in {{}, valid} : soft' = [soft EXCEPT ![path][c] = X]
      BY <1>4 DEF RecordSoftFailure
    <3>2. ASSUME NEW X \in {{}, valid} PROVE [soft EXCEPT ![path][c] = X] \in [Paths -> [Categories -> SUBSET Events]]
      <4>1. X \in SUBSET Events
        BY <2>1
      <4> HIDE DEF path, valid
      <4> QED
        BY <4>1, <2>1, SoftType
    <3>3. CASE soft' = soft
      BY <3>3 DEF TypeOK
    <3> HIDE DEF path, valid
    <3>4. ASSUME NEW X \in {{}, valid}, soft' = [soft EXCEPT ![path][c] = X]
          PROVE soft' \in [Paths -> [Categories -> SUBSET Events]]
      BY <3>2, <3>4
    <3> QED
      BY <3>1, <3>3, <3>4
  <2>3. att' \in [Attempts -> AttemptRecords]
    <3>1. PICK pc \in PCs : Goto(a, pc)
      BY <1>4 DEF RecordSoftFailure, PCs
    <3> QED
      BY <3>1, GotoType
  <2> QED
    BY <1>4, <2>2, <2>3 DEF RecordSoftFailure
<1>5. ASSUME NEW a \in Attempts, NEW s \in Slots, NEW d \in Durations, SetCooldown(a, s, d)
      PROVE TypeOK'
  <2>1. now + d \in Nat /\ TagOf(a) \in Tags
    BY FailureAssumption DEF TagOf, Tags, AttemptRecords
  <2>2. slot' \in [Slots -> Cooldowns]
    BY <1>5, <2>1 DEF SetCooldown, Cooldowns
  <2>3. att' \in [Attempts -> AttemptRecords]
    <3>1. PICK pc \in PCs : Goto(a, pc)
      BY <1>5 DEF SetCooldown, PCs
    <3> QED
      BY <3>1, GotoType
  <2> QED
    BY <1>5, <2>2, <2>3 DEF SetCooldown
<1>6. ASSUME NEW a \in Attempts, NEW d \in Durations, TripCountTokens(a, d)
      PROVE TypeOK'
  <2>1. now + d \in Nat /\ TagOf(a) \in Tags
    BY FailureAssumption DEF TagOf, Tags, AttemptRecords
  <2> QED
    <3>1. scoped' \in Cooldowns
      BY <1>6, <2>1 DEF TripCountTokens, Cooldowns
    <3> QED
      BY <1>6, <3>1, GotoType DEF TripCountTokens, PCs
<1>7. ASSUME NEW a \in Attempts, ClearRetained(a) PROVE TypeOK'
  BY <1>7, GotoType DEF ClearRetained, PCs
<1>8. ASSUME NEW a \in Attempts, NEW full \in BOOLEAN, SucceedMessages(a, full)
      PROVE TypeOK'
  <2>1. soft' \in [Paths -> [Categories -> SUBSET Events]]
    BY <1>8 DEF SucceedMessages, Paths
  <2>2. att' \in [Attempts -> AttemptRecords]
    <3>1. PICK pc \in PCs : Goto(a, pc)
      BY <1>8 DEF SucceedMessages, PCs
    <3> QED
      BY <3>1, GotoType
  <2> QED
    BY <1>8, <2>1, <2>2 DEF SucceedMessages
<1>9. ASSUME NEW a \in Attempts, SucceedCountTokens(a) PROVE TypeOK'
  <2>1. NoCooldown \in Cooldowns
    BY DEF NoCooldown, NoTag, Cooldowns, Tags
  <2>2. soft' \in [Paths -> [Categories -> SUBSET Events]] /\ scoped' \in Cooldowns
    BY <1>9, <2>1 DEF SucceedCountTokens
  <2>3. att' \in [Attempts -> AttemptRecords]
    <3>1. PICK pc \in PCs : Goto(a, pc)
      BY <1>9 DEF SucceedCountTokens, PCs
    <3> QED
      BY <3>1, GotoType
  <2> QED
    BY <1>9, <2>2, <2>3 DEF SucceedCountTokens
<1>10. ASSUME NEW a \in Attempts, CheckRetention(a) \/ Retain(a) PROVE TypeOK'
  <2>1. PICK pc \in PCs : Goto(a, pc)
    BY <1>10 DEF CheckRetention, Retain, PCs
  <2> QED
    BY <1>10, <2>1, GotoType DEF CheckRetention, Retain
<1>11. CASE Operate
  <2>1. NoCooldown \in Cooldowns /\ NoEvents \in [Paths -> [Categories -> SUBSET Events]]
    BY DEF NoCooldown, NoTag, Cooldowns, Tags, NoEvents
  <2>2. CASE LookUpReset \/ CommitReset
    <3>1. ep' \in [inst : Nat, rev : Nat, epoch : Nat, hard : BOOLEAN]
      BY <2>2 DEF LookUpReset, CommitReset
    <3>2. slot' \in [Slots -> Cooldowns]
      BY <2>1, <2>2 DEF LookUpReset, CommitReset
    <3> QED
      BY <2>1, <2>2, <3>1, <3>2 DEF LookUpReset, CommitReset
  <2>3. CASE UpdateConfig
    BY <2>3 DEF UpdateConfig, NewRevision
  <2>4. ASSUME NEW e \in BOOLEAN, PublishAvailability(e) PROVE TypeOK'
    <3>1. ep' \in [inst : Nat, rev : Nat, epoch : Nat, hard : BOOLEAN]
      <4> DEFINE moved == [ep EXCEPT !.rev = NewRevision]
      <4>1. moved \in [inst : Nat, rev : Nat, epoch : Nat, hard : BOOLEAN]
        BY DEF NewRevision
      <4>2. ep' = [moved EXCEPT !.hard = e]
        BY <2>4 DEF PublishAvailability
      <4> HIDE DEF moved
      <4> QED
        BY <4>1, <4>2
    <3>2. made' \in [inst : Nat, rev : Nat]
      BY <2>4 DEF PublishAvailability, NewRevision
    <3>3. retained' \in BOOLEAN
      BY <2>4 DEF PublishAvailability
    <3> QED
      BY <2>4, <3>1, <3>2, <3>3 DEF PublishAvailability
  <2>5. CASE RemoveEndpoint
    BY <2>1, <2>5 DEF RemoveEndpoint
  <2>6. CASE AddEndpoint
    BY <2>6 DEF AddEndpoint, NewRevision
  <2> QED
    BY <1>11, <2>2, <2>3, <2>4, <2>5, <2>6 DEF Operate
<1>12. CASE Environment
  <2>1. CASE Cleanup
    <3>1. soft' \in [Paths -> [Categories -> SUBSET Events]]
      BY <2>1 DEF Cleanup, InWindow
    <3> QED
      BY <2>1, <3>1 DEF Cleanup
  <2>2. CASE ChangeRoute \/ Tick
    BY <2>2 DEF ChangeRoute, Tick
  <2>3. CASE LoseTier
    BY <2>3 DEF LoseTier
  <2> QED
    BY <1>12, <2>1, <2>2, <2>3 DEF Environment
<1>13. CASE UNCHANGED vars
  BY <1>13 DEF vars
<1> QED
  BY <1>1, <1>2, <1>3, <1>4, <1>5, <1>6, <1>7, <1>8, <1>9, <1>10, <1>11, <1>12, <1>13
  DEF Next, Attempt, Settle, AuthCooldown, TripMessages, Slots

LEMMA TypeInit == Init => TypeOK
<1> SUFFICES ASSUME Init PROVE TypeOK
  OBVIOUS
<1>1. slot \in [Slots -> Cooldowns] /\ scoped \in Cooldowns
  BY DEF Init, NoCooldown, NoTag, Cooldowns, Tags
<1>2. soft \in [Paths -> [Categories -> SUBSET Events]]
  BY DEF Init, NoEvents
<1>3. att \in [Attempts -> AttemptRecords]
  BY DEF Init, IdleAttempt, AttemptRecords, PCs, Paths
<1> QED
  BY <1>1, <1>2, <1>3 DEF Init, TypeOK

\* Type correctness of the failure state of an endpoint.
THEOREM TypeCorrect == Spec => []TypeOK
<1>1. Init => TypeOK
  BY TypeInit
<1>2. TypeOK /\ [Next]_vars => TypeOK'
  BY TypeStep
<1> QED
  BY <1>1, <1>2, PTL DEF Spec

-----------------------------------------------------------------------------
(***************************************************************************)
(* The inductive invariant.  A revision is given out once, so a settlement *)
(* that finds its own revision has found its own object (Identified); the  *)
(* configuration lock keeps both until the settlement ends (SettlesOnOwn-  *)
(* Config); and the fence then makes the recorder's tag the current one.   *)
(***************************************************************************)
Planned == {a \in Attempts : att[a].pc # "idle"}

Identified ==
  /\ ep.inst <= made.inst /\ ep.rev <= made.rev
  /\ \A a \in Planned :
       /\ att[a].inst <= made.inst /\ att[a].rev <= made.rev
       /\ ep.inst # 0 /\ ep.rev = att[a].rev => ep.inst = att[a].inst

NoEvidenceWithoutEndpoint ==
  ep.inst = 0 =>
    /\ \A s \in Slots : slot[s] = NoCooldown
    /\ scoped = NoCooldown
    /\ \A p \in Paths, c \in Categories : soft[p][c] = {}

SettlingHasEndpoint ==
  \A a \in Settling : ep.inst # 0 /\ (att[a].pc = "retain" => ep.hard)

IInv ==
  /\ TypeOK /\ Identified /\ NoEvidenceWithoutEndpoint /\ SettlingHasEndpoint
  /\ SettlesOnOwnConfig /\ ZeroResidue /\ RetainedIsAvailable

LEMMA InvInit == Init => IInv
<1> SUFFICES ASSUME Init PROVE IInv
  OBVIOUS
<1>1. TypeOK
  BY TypeInit
<1>2. Planned = {} /\ Settling = {}
  BY DEF Init, IdleAttempt, Planned, Settling
<1>3. Identified
  BY <1>2 DEF Init, Identified
<1>4. NoEvidenceWithoutEndpoint /\ ZeroResidue
  BY DEF Init, NoEvidenceWithoutEndpoint, ZeroResidue, NoEvents
<1> QED
  BY <1>1, <1>2, <1>3, <1>4 DEF Init, IInv, SettlingHasEndpoint, SettlesOnOwnConfig, RetainedIsAvailable

SettlingPCs == {"record", "trip", "auth", "clear", "retain"}

\* An attempt that runs on, endpoint and revisions untouched: it may enter a
\* settlement only on the configuration it was planned with.
LEMMA AttemptRunsOn ==
  ASSUME IInv, NEW a \in Attempts, NEW pc \in PCs \ {"idle"}, Goto(a, pc),
         att[a].pc # "idle", UNCHANGED <<ep, made>>,
         pc \in SettlingPCs => SameConfig(a) /\ (pc = "retain" => ep.hard)
  PROVE  Identified' /\ SettlingHasEndpoint' /\ SettlesOnOwnConfig'
<1>1. /\ \A b \in Attempts : b # a => att'[b] = att[b]
      /\ att'[a] = [att[a] EXCEPT !.pc = pc]
  BY DEF Goto, IInv, TypeOK
<1>2. /\ att'[a].pc = pc /\ att'[a].inst = att[a].inst /\ att'[a].rev = att[a].rev
  BY <1>1 DEF IInv, TypeOK, AttemptRecords
<1>3. Planned' = Planned /\ \A b \in Attempts : att'[b].inst = att[b].inst /\ att'[b].rev = att[b].rev
  BY <1>1, <1>2 DEF Planned
<1>4. Identified'
  <2> SUFFICES ASSUME NEW b \in Planned
               PROVE  /\ att'[b].inst <= made.inst /\ att'[b].rev <= made.rev
                      /\ ep.inst # 0 /\ ep.rev = att'[b].rev => ep.inst = att'[b].inst
    BY <1>3 DEF IInv, Identified
  <2> QED
    BY <1>3 DEF IInv, Identified, Planned
<1>5. \A b \in Settling' : b \in Settling \/ (b = a /\ pc \in SettlingPCs)
  BY <1>1, <1>2 DEF Settling, SettlingPCs
<1>6. pc \in SettlingPCs => ep.inst = att[a].inst /\ ep.rev = att[a].rev /\ ep.inst # 0
  BY DEF IInv, Identified, Planned, SameConfig
<1>7. SettlingHasEndpoint'
  <2> SUFFICES ASSUME NEW b \in Settling'
               PROVE  ep.inst # 0 /\ (att'[b].pc = "retain" => ep.hard)
    BY DEF SettlingHasEndpoint
  <2>1. CASE b = a
    BY <1>2, <1>6, <2>1 DEF Settling, SettlingPCs
  <2>2. CASE b # a
    BY <1>1, <1>5, <2>2 DEF IInv, SettlingHasEndpoint, Settling
  <2> QED
    BY <2>1, <2>2
<1>8. SettlesOnOwnConfig'
  <2> SUFFICES ASSUME NEW b \in Settling'
               PROVE  ep.inst = att'[b].inst /\ ep.rev = att'[b].rev
    BY DEF SettlesOnOwnConfig
  <2>1. CASE b = a
    BY <1>2, <1>6, <2>1 DEF Settling, SettlingPCs
  <2>2. CASE b # a
    BY <1>1, <1>5, <2>2 DEF IInv, SettlesOnOwnConfig, Settling
  <2> QED
    BY <2>1, <2>2
<1> QED
  BY <1>4, <1>7, <1>8

\* An attempt in a settlement is on the live object; if the fence lets it
\* write, its tag is the current one.
LEMMA SettlingTag ==
  ASSUME IInv, NEW a \in Settling
  PROVE  SameConfig(a) /\ (Fence(a) => TagOf(a) = CurrentTag)
  BY DEF IInv, SettlesOnOwnConfig, SettlingHasEndpoint, Settling, SameConfig, Fence,
         TagOf, CurrentTag

\* Nothing the evidence depends on changes.
LEMMA EvidenceKept ==
  ASSUME IInv, UNCHANGED <<ep, slot, soft, scoped, retained>>
  PROVE  NoEvidenceWithoutEndpoint' /\ ZeroResidue' /\ RetainedIsAvailable'
  BY DEF IInv, NoEvidenceWithoutEndpoint, ZeroResidue, RetainedIsAvailable, CurrentTag

\* All evidence is dropped.
LEMMA EvidenceDropped ==
  ASSUME slot' = [s \in Slots |-> NoCooldown], soft' = NoEvents, scoped' = NoCooldown
  PROVE  NoEvidenceWithoutEndpoint' /\ ZeroResidue'
  BY DEF NoEvidenceWithoutEndpoint, ZeroResidue, NoEvents

\* Every step of an attempt keeps the invariant.
LEMMA InvAttempt ==
  ASSUME IInv, NEW a \in Attempts, Attempt(a), TypeOK'
  PROVE  IInv'
<1> DEFINE Kept == NoEvidenceWithoutEndpoint' /\ ZeroResidue' /\ RetainedIsAvailable'
           Ran  == Identified' /\ SettlingHasEndpoint' /\ SettlesOnOwnConfig'
<1> SUFFICES Ran /\ Kept
  BY DEF IInv
<1>1. ASSUME NEW p \in Paths, Plan(a, p) PROVE Ran /\ Kept
  <2>1. /\ \A b \in Attempts : b # a => att'[b] = att[b]
        /\ att'[a].pc = "planned" /\ att'[a].inst = ep.inst /\ att'[a].rev = ep.rev
    BY <1>1 DEF Plan, IInv, TypeOK
  <2>2. Planned' = Planned \cup {a} /\ Settling' = Settling
    BY <1>1, <2>1 DEF Plan, Planned, Settling
  <2>3. UNCHANGED <<ep, slot, soft, scoped, retained, made>>
    BY <1>1 DEF Plan
  <2>4. Identified'
    BY <2>1, <2>2, <2>3 DEF IInv, Identified, Planned
  <2>5. \A b \in Settling : b # a
    BY <1>1 DEF Plan, Settling
  <2>6. SettlingHasEndpoint' /\ SettlesOnOwnConfig'
    BY <2>1, <2>2, <2>3, <2>5 DEF IInv, SettlingHasEndpoint, SettlesOnOwnConfig, Settling
  <2> QED
    BY <2>3, <2>4, <2>6, EvidenceKept
<1>2. CASE Acquire(a) \/ Abandon(a)
  <2>1. PICK pc \in {"sent", "done"} : Goto(a, pc)
    BY <1>2 DEF Acquire, Abandon
  <2>2. UNCHANGED <<ep, slot, soft, scoped, retained, made>> /\ att[a].pc # "idle"
    BY <1>2 DEF Acquire, Abandon
  <2> QED
    BY <2>1, <2>2, AttemptRunsOn, EvidenceKept DEF PCs, SettlingPCs
<1>3. ASSUME NEW kind \in {"record", "auth"}, EnterFailure(a, kind) PROVE Ran /\ Kept
  <2>1. PICK pc \in {kind, "done"} : Goto(a, pc) /\ (pc = kind => SameConfig(a))
    BY <1>3 DEF EnterFailure
  <2>2. UNCHANGED <<ep, slot, soft, scoped, retained, made>> /\ att[a].pc = "sent"
    BY <1>3 DEF EnterFailure
  <2> QED
    BY <2>1, <2>2, AttemptRunsOn, EvidenceKept DEF PCs, SettlingPCs
<1>4. ASSUME NEW c \in Categories, RecordSoftFailure(a, c) PROVE Ran /\ Kept
  <2>1. a \in Settling /\ att[a].pc = "record" /\ att[a].path \in Paths
    BY <1>4 DEF RecordSoftFailure, Settling, IInv, TypeOK, AttemptRecords
  <2>2. PICK pc \in {"trip", "done"} : Goto(a, pc)
    BY <1>4 DEF RecordSoftFailure
  <2>3. UNCHANGED <<ep, slot, scoped, retained, made>>
    BY <1>4 DEF RecordSoftFailure
  <2>4. Ran
    BY <2>1, <2>2, <2>3, AttemptRunsOn, SettlingTag DEF PCs, SettlingPCs
  <2>5. \A p \in Paths, x \in Categories : \A e \in soft'[p][x] :
          e \in soft[p][x] \/ (e.tag = TagOf(a) /\ Fence(a))
    <3> DEFINE new == [at |-> now, by |-> a, tag |-> TagOf(a)]
    <3>1. CASE Fence(a)
      <4>1. PICK X \in SUBSET (soft[att[a].path][c] \cup {new}) :
              soft' = [soft EXCEPT ![att[a].path][c] = X]
        BY <1>4, <3>1 DEF RecordSoftFailure, InWindow
      <4>2. \A p \in Paths, x \in Categories :
              soft'[p][x] = IF p = att[a].path /\ x = c THEN X ELSE soft[p][x]
        BY <4>1, <2>1 DEF IInv, TypeOK
      <4> QED
        BY <3>1, <4>1, <4>2
    <3>2. CASE ~Fence(a)
      BY <1>4, <3>2 DEF RecordSoftFailure
    <3> QED
      BY <3>1, <3>2
  <2>6. ZeroResidue'
    BY <2>1, <2>3, <2>5, SettlingTag DEF IInv, ZeroResidue, CurrentTag
  <2>7. NoEvidenceWithoutEndpoint' /\ RetainedIsAvailable'
    BY <2>1, <2>3, SettlingTag DEF IInv, NoEvidenceWithoutEndpoint, RetainedIsAvailable, SameConfig
  <2> QED
    BY <2>4, <2>6, <2>7
<1>5. ASSUME NEW s \in Slots, NEW d \in Durations, SetCooldown(a, s, d),
             att[a].pc \in {"auth", "trip"}
      PROVE  Ran /\ Kept
  <2>1. a \in Settling
    BY <1>5 DEF Settling
  <2>2. PICK pc \in {"clear", "done"} : Goto(a, pc)
    BY <1>5 DEF SetCooldown
  <2>3. UNCHANGED <<ep, soft, scoped, retained, made>>
    BY <1>5 DEF SetCooldown
  <2>4. Ran
    BY <1>5, <2>1, <2>2, <2>3, AttemptRunsOn, SettlingTag DEF PCs, SettlingPCs
  <2>5. \A x \in Slots : slot'[x] = slot[x] \/ (slot'[x].tag = TagOf(a) /\ Fence(a))
    BY <1>5 DEF SetCooldown, IInv, TypeOK
  <2>6. ZeroResidue'
    BY <2>1, <2>3, <2>5, SettlingTag DEF IInv, ZeroResidue, CurrentTag
  <2>7. NoEvidenceWithoutEndpoint' /\ RetainedIsAvailable'
    BY <2>1, <2>3, SettlingTag DEF IInv, NoEvidenceWithoutEndpoint, RetainedIsAvailable, SameConfig
  <2> QED
    BY <2>4, <2>6, <2>7
<1>6. ASSUME NEW d \in Durations, TripCountTokens(a, d) PROVE Ran /\ Kept
  <2>1. a \in Settling /\ Goto(a, "done") /\ UNCHANGED <<ep, slot, soft, retained, made>>
    BY <1>6 DEF TripCountTokens, Settling
  <2>2. Ran
    BY <1>6, <2>1, AttemptRunsOn DEF TripCountTokens, PCs, SettlingPCs
  <2>3. scoped' = scoped \/ (scoped'.tag = TagOf(a) /\ Fence(a))
    BY <1>6 DEF TripCountTokens
  <2>4. ZeroResidue'
    BY <2>1, <2>3, SettlingTag DEF IInv, ZeroResidue, CurrentTag
  <2>5. NoEvidenceWithoutEndpoint' /\ RetainedIsAvailable'
    BY <2>1, SettlingTag DEF IInv, NoEvidenceWithoutEndpoint, RetainedIsAvailable, SameConfig
  <2> QED
    BY <2>2, <2>4, <2>5
<1>7. CASE ClearRetained(a)
  <2>1. Goto(a, "done") /\ att[a].pc = "clear" /\ UNCHANGED <<ep, slot, soft, scoped, made>>
    BY <1>7 DEF ClearRetained
  <2>2. Ran
    BY <2>1, AttemptRunsOn DEF PCs, SettlingPCs
  <2>3. Kept
    BY <1>7, <2>1 DEF ClearRetained, IInv, NoEvidenceWithoutEndpoint, ZeroResidue,
       RetainedIsAvailable, CurrentTag
  <2> QED
    BY <2>2, <2>3
<1>8. ASSUME NEW full \in BOOLEAN, SucceedMessages(a, full) PROVE Ran /\ Kept
  <2>1. PICK pc \in {"succeeded", "done"} : Goto(a, pc)
    BY <1>8 DEF SucceedMessages
  <2>2. att[a].pc = "sent" /\ UNCHANGED <<ep, slot, scoped, retained, made>>
    BY <1>8 DEF SucceedMessages
  <2>3. Ran
    BY <2>1, <2>2, AttemptRunsOn DEF PCs, SettlingPCs
  <2>4. \A p \in Paths, c \in Categories : soft'[p][c] \subseteq soft[p][c]
    BY <1>8 DEF SucceedMessages, IInv, TypeOK, Paths
  <2>5. Kept
    BY <2>2, <2>4 DEF IInv, NoEvidenceWithoutEndpoint, ZeroResidue, RetainedIsAvailable, CurrentTag
  <2> QED
    BY <2>3, <2>5
<1>9. CASE SucceedCountTokens(a)
  <2>1. Goto(a, "done") /\ att[a].pc = "sent" /\ UNCHANGED <<ep, slot, retained, made>>
    BY <1>9 DEF SucceedCountTokens
  <2>2. Ran
    BY <2>1, AttemptRunsOn DEF PCs, SettlingPCs
  <2>3. \A p \in Paths, c \in Categories : soft'[p][c] \subseteq soft[p][c]
    BY <1>9 DEF SucceedCountTokens, IInv, TypeOK, Paths
  <2>4. scoped' = scoped \/ scoped' = NoCooldown
    BY <1>9 DEF SucceedCountTokens
  <2>5. Kept
    BY <2>1, <2>3, <2>4 DEF IInv, NoEvidenceWithoutEndpoint, ZeroResidue, RetainedIsAvailable, CurrentTag
  <2> QED
    BY <2>2, <2>5
<1>10. CASE CheckRetention(a)
  <2>1. PICK pc \in {"retain", "done"} :
          Goto(a, pc) /\ (pc = "retain" => SameConfig(a) /\ ep.hard)
    BY <1>10 DEF CheckRetention
  <2>2. UNCHANGED <<ep, slot, soft, scoped, retained, made>> /\ att[a].pc = "succeeded"
    BY <1>10 DEF CheckRetention
  <2> QED
    BY <2>1, <2>2, AttemptRunsOn, EvidenceKept DEF PCs, SettlingPCs
<1>11. CASE Retain(a)
  <2>1. Goto(a, "done") /\ att[a].pc = "retain" /\ UNCHANGED <<ep, slot, soft, scoped, made>>
    BY <1>11 DEF Retain
  <2>2. Ran
    BY <2>1, AttemptRunsOn DEF PCs, SettlingPCs
  <2>3. ep.inst # 0 /\ ep.hard
    BY <2>1 DEF IInv, SettlingHasEndpoint, Settling
  <2>4. Kept
    BY <2>1, <2>3 DEF IInv, NoEvidenceWithoutEndpoint, ZeroResidue, RetainedIsAvailable, CurrentTag
  <2> QED
    BY <2>2, <2>4
<1> QED
  BY <1>1, <1>2, <1>3, <1>4, <1>5, <1>6, <1>7, <1>8, <1>9, <1>10, <1>11
  DEF Attempt, Settle, AuthCooldown, TripMessages, Slots

\* A configuration operation finds no settlement and leaves none; a planned
\* attempt keeps an older revision than the new one.
LEMMA ConfigChanges ==
  ASSUME IInv, ConfigLockFree, UNCHANGED att, TypeOK',
         made'.inst >= made.inst, made'.rev >= made.rev,
         ep'.inst <= made'.inst, ep'.rev <= made'.rev,
         ep'.inst = 0 \/ ep'.rev > made.rev
  PROVE  Identified' /\ SettlingHasEndpoint' /\ SettlesOnOwnConfig'
<1>1. Settling' = {} /\ Planned' = Planned
  BY DEF ConfigLockFree, Settling, Planned
<1>2. SettlingHasEndpoint' /\ SettlesOnOwnConfig'
  BY <1>1 DEF SettlingHasEndpoint, SettlesOnOwnConfig
<1>3. ASSUME NEW a \in Planned
      PROVE  /\ att[a].inst <= made'.inst /\ att[a].rev <= made'.rev
             /\ ep'.inst # 0 => ep'.rev # att[a].rev
  <2>1. /\ made.inst \in Nat /\ made.rev \in Nat /\ made'.inst \in Nat /\ made'.rev \in Nat
        /\ att[a].inst \in Nat /\ att[a].rev \in Nat /\ ep'.rev \in Nat
    BY DEF IInv, TypeOK, AttemptRecords, Planned
  <2>2. att[a].inst <= made.inst /\ att[a].rev <= made.rev
    BY DEF IInv, Identified
  <2> QED
    BY <2>1, <2>2
<1>4. Identified'
  BY <1>1, <1>3 DEF Identified
<1> QED
  BY <1>2, <1>4

\* The manual reset and the configuration operations keep the invariant.
LEMMA InvOperate ==
  ASSUME IInv, Operate, TypeOK'
  PROVE  IInv'
<1>1. CASE LookUpReset
  <2>1. UNCHANGED <<ep, slot, soft, scoped, retained, att, made>>
    BY <1>1 DEF LookUpReset
  <2> QED
    BY <2>1, EvidenceKept DEF IInv, Identified, SettlingHasEndpoint, SettlesOnOwnConfig,
       Settling, Planned
<1>2. CASE CommitReset
  <2>1. /\ UNCHANGED <<retained, att, made>> /\ soft' = NoEvents /\ scoped' = NoCooldown
        /\ ep'.inst = ep.inst /\ ep'.rev = ep.rev /\ ep'.hard = ep.hard
    BY <1>2 DEF CommitReset, IInv, TypeOK
  <2>2. slot' = [s \in Slots |-> NoCooldown] \/ UNCHANGED <<ep, slot>>
    BY <1>2 DEF CommitReset
  <2>3. Identified' /\ SettlingHasEndpoint' /\ SettlesOnOwnConfig'
    BY <2>1 DEF IInv, Identified, SettlingHasEndpoint, SettlesOnOwnConfig, Settling, Planned
  <2>4. RetainedIsAvailable'
    BY <2>1 DEF IInv, RetainedIsAvailable
  <2>5. NoEvidenceWithoutEndpoint' /\ ZeroResidue'
    <3>1. CASE slot' = [s \in Slots |-> NoCooldown]
      BY <2>1, <3>1, EvidenceDropped
    <3>2. CASE UNCHANGED <<ep, slot>>
      BY <2>1, <3>2 DEF IInv, NoEvidenceWithoutEndpoint, ZeroResidue, NoEvents, CurrentTag
    <3> QED
      BY <2>2, <3>1, <3>2
  <2> QED
    BY <2>3, <2>4, <2>5 DEF IInv
<1>3. CASE UpdateConfig \/ \E e \in BOOLEAN : PublishAvailability(e)
  <2>1. /\ ConfigLockFree /\ UNCHANGED <<att, slot, soft, scoped>>
        /\ ep.inst # 0 /\ ep'.inst = ep.inst /\ ep'.epoch = ep.epoch
        /\ ep'.rev = made.rev + 1 /\ made'.rev = made.rev + 1 /\ made'.inst = made.inst
    BY <1>3 DEF UpdateConfig, PublishAvailability, NewRevision, IInv, TypeOK
  <2>2. /\ made.inst \in Nat /\ made.rev \in Nat /\ ep.inst \in Nat /\ ep.inst <= made.inst
    BY DEF IInv, TypeOK, Identified
  <2>3. Identified' /\ SettlingHasEndpoint' /\ SettlesOnOwnConfig'
    BY <2>1, <2>2, ConfigChanges
  <2>4. NoEvidenceWithoutEndpoint' /\ ZeroResidue'
    BY <2>1 DEF IInv, NoEvidenceWithoutEndpoint, ZeroResidue, CurrentTag
  <2>5. RetainedIsAvailable'
    <3>1. CASE UpdateConfig
      BY <3>1 DEF UpdateConfig, IInv, RetainedIsAvailable, TypeOK
    <3>2. ASSUME NEW e \in BOOLEAN, PublishAvailability(e) PROVE RetainedIsAvailable'
      <4>1. ep'.hard = e /\ ep'.inst # 0
        BY <2>1, <3>2 DEF PublishAvailability, IInv, TypeOK
      <4>2. e \/ retained' = FALSE
        BY <3>2 DEF PublishAvailability
      <4> QED
        BY <4>1, <4>2 DEF RetainedIsAvailable
    <3> QED
      BY <1>3, <3>1, <3>2
  <2> QED
    BY <2>3, <2>4, <2>5 DEF IInv
<1>4. CASE RemoveEndpoint
  <2>1. /\ ConfigLockFree /\ UNCHANGED <<att, made>>
        /\ ep'.inst = 0 /\ ep'.rev = 0
        /\ slot' = [s \in Slots |-> NoCooldown] /\ soft' = NoEvents /\ scoped' = NoCooldown
        /\ retained' = FALSE
    BY <1>4 DEF RemoveEndpoint
  <2>2. made.inst \in Nat /\ made.rev \in Nat
    BY DEF IInv, TypeOK
  <2>3. Identified' /\ SettlingHasEndpoint' /\ SettlesOnOwnConfig'
    BY <2>1, <2>2, ConfigChanges
  <2> QED
    BY <2>1, <2>3, EvidenceDropped DEF IInv, RetainedIsAvailable
<1>5. CASE AddEndpoint
  <2>1. /\ ConfigLockFree /\ UNCHANGED <<att, slot, soft, scoped, retained>> /\ ep.inst = 0
        /\ ep'.inst = made.inst + 1 /\ made'.inst = made.inst + 1
        /\ ep'.rev = made.rev + 1 /\ made'.rev = made.rev + 1
    BY <1>5 DEF AddEndpoint, NewRevision
  <2>2. made.inst \in Nat /\ made.rev \in Nat
    BY DEF IInv, TypeOK
  <2>3. Identified' /\ SettlingHasEndpoint' /\ SettlesOnOwnConfig'
    BY <2>1, <2>2, ConfigChanges
  <2>4. NoEvidenceWithoutEndpoint' /\ ZeroResidue'
    BY <2>1 DEF IInv, NoEvidenceWithoutEndpoint, ZeroResidue
  <2>5. RetainedIsAvailable'
    BY <2>1 DEF IInv, RetainedIsAvailable
  <2> QED
    BY <2>3, <2>4, <2>5 DEF IInv
<1> QED
  BY <1>1, <1>2, <1>3, <1>4, <1>5 DEF Operate

\* The rest of the program keeps the invariant.
LEMMA InvEnvironment ==
  ASSUME IInv, Environment \/ UNCHANGED vars, TypeOK'
  PROVE  IInv'
<1>1. /\ UNCHANGED <<ep, slot, scoped, att, made>>
      /\ retained' = retained \/ retained' = FALSE
  BY DEF Environment, Cleanup, ChangeRoute, LoseTier, Tick, vars
<1>2. \A p \in Paths, c \in Categories : soft'[p][c] \subseteq soft[p][c]
  BY DEF Environment, Cleanup, ChangeRoute, LoseTier, Tick, vars, InWindow
<1>3. Identified' /\ SettlingHasEndpoint' /\ SettlesOnOwnConfig'
  BY <1>1 DEF IInv, Identified, SettlingHasEndpoint, SettlesOnOwnConfig, Settling, Planned
<1>4. NoEvidenceWithoutEndpoint' /\ ZeroResidue' /\ RetainedIsAvailable'
  BY <1>1, <1>2 DEF IInv, NoEvidenceWithoutEndpoint, ZeroResidue, RetainedIsAvailable, CurrentTag
<1> QED
  BY <1>3, <1>4 DEF IInv

LEMMA InvStep == IInv /\ [Next]_vars => IInv'
<1> SUFFICES ASSUME IInv, [Next]_vars PROVE IInv'
  OBVIOUS
<1>1. TypeOK'
  BY TypeStep DEF IInv
<1> QED
  BY <1>1, InvAttempt, InvOperate, InvEnvironment DEF Next

LEMMA InvHolds == Spec => []IInv
  BY InvInit, InvStep, PTL DEF Spec

\* Failure evidence is always that of the live object since its last manual
\* reset, however many attempts are in flight across resets and deletions.
THEOREM NoResidue == Spec => []ZeroResidue
<1>1. IInv => ZeroResidue
  BY DEF IInv
<1> QED
  BY <1>1, InvHolds, PTL

\* A settlement ends on the configuration revision it was entered with.
THEOREM SettlementKeepsConfig == Spec => []SettlesOnOwnConfig
<1>1. IInv => SettlesOnOwnConfig
  BY DEF IInv
<1> QED
  BY <1>1, InvHolds, PTL

\* The retained endpoint of a tier exists and is available.
THEOREM RetainedAvailable == Spec => []RetainedIsAvailable
<1>1. IInv => RetainedIsAvailable
  BY DEF IInv
<1> QED
  BY <1>1, InvHolds, PTL

\* A cooldown slot is shortened only by a reset or a removal.
THEOREM CooldownExtends == Spec => CooldownOnlyExtends
<1> DEFINE P == \A s \in Slots : slot'[s].until < slot[s].until =>
                   ep'.inst # ep.inst \/ ep'.epoch > ep.epoch
<1>1. ASSUME IInv, [Next]_vars PROVE [P]_vars
  <2>1. ASSUME NEW a \in Attempts, NEW s \in Slots, NEW d \in Durations, SetCooldown(a, s, d)
        PROVE  P
    <3>1. \A x \in Slots : slot'[x] = slot[x] \/ slot'[x].until > slot[x].until
      BY <2>1, <1>1 DEF SetCooldown, Extends, IInv, TypeOK, Cooldowns
    <3>2. \A x \in Slots : slot[x].until \in Nat /\ slot'[x].until \in Nat
      BY <1>1, TypeStep DEF IInv, TypeOK, Cooldowns
    <3> QED
      BY <3>1, <3>2
  <2>2. CASE CommitReset
    <3>1. slot' = slot \/ ep'.epoch = ep.epoch + 1
      BY <2>2, <1>1 DEF CommitReset, IInv, TypeOK
    <3>2. ep.epoch \in Nat /\ \A x \in Slots : slot[x].until \in Nat
      BY <1>1 DEF IInv, TypeOK, Cooldowns
    <3> QED
      BY <3>1, <3>2
  <2>3. CASE RemoveEndpoint
    BY <2>3 DEF RemoveEndpoint
  <2>4. CASE UNCHANGED slot
    <3>1. \A x \in Slots : slot[x].until \in Nat
      BY <1>1 DEF IInv, TypeOK, Cooldowns
    <3> QED
      BY <2>4, <3>1
  <2>5. CASE Next
    <3> HIDE DEF P
    <3>1. ASSUME NEW a \in Attempts, Attempt(a)
          PROVE  UNCHANGED slot \/ \E s \in Slots, d \in Durations : SetCooldown(a, s, d)
      BY <3>1 DEF Attempt, Plan, Acquire, Abandon, Settle, EnterFailure, RecordSoftFailure,
         AuthCooldown, TripMessages, TripCountTokens, ClearRetained, SucceedMessages,
         SucceedCountTokens, CheckRetention, Retain, Slots
    <3>2. CASE Operate
      BY <2>2, <2>3, <2>4, <3>2 DEF Operate, LookUpReset, UpdateConfig, PublishAvailability,
         AddEndpoint
    <3>3. CASE Environment
      BY <2>4, <3>3 DEF Environment, Cleanup, ChangeRoute, LoseTier, Tick
    <3> QED
      BY <2>1, <2>4, <2>5, <3>1, <3>2, <3>3 DEF Next
  <2> QED
    BY <1>1, <2>5
<1> QED
  BY <1>1, InvHolds, PTL DEF Spec, CooldownOnlyExtends

\* The end of an attempt on /v1/messages drops no failure recorded while it
\* ran (ClearScopeBefore), whatever the other attempts record meanwhile.
THEOREM SuccessKeepsNewerFailures == Spec => NewerFailuresSurviveSuccess
<1> DEFINE Newer(a) == \A c \in Categories : \A e \in soft["messages"][c] :
                         e.at > att[a].start => e \in soft'["messages"][c]
           P == \A a \in Attempts :
                  att[a].pc = "sent" /\ att'[a].pc \in {"succeeded", "done"} => Newer(a)
<1>1. ASSUME IInv, [Next]_vars PROVE [P]_vars
  <2> SUFFICES ASSUME NEW a \in Attempts, att[a].pc = "sent", att'[a].pc # "sent", Next
               PROVE  Newer(a)
    <3> HIDE DEF Newer
    <3>1. UNCHANGED vars => \A a \in Attempts : att'[a].pc = att[a].pc
      BY DEF vars
    <3> QED
      BY <1>1, <3>1
  <2>1. Attempt(a)
    <3>1. ASSUME NEW b \in Attempts, b # a, Attempt(b) PROVE att'[a] = att[a]
      <4>1. (\E pc \in PCs : Goto(b, pc)) \/ \E p \in Paths : Plan(b, p)
        BY <3>1 DEF Attempt, Acquire, Abandon, Settle, EnterFailure, RecordSoftFailure,
           AuthCooldown, TripMessages, TripCountTokens, SetCooldown, ClearRetained, PCs,
           SucceedMessages, SucceedCountTokens, CheckRetention, Retain
      <4> QED
        BY <3>1, <4>1, <1>1 DEF Goto, Plan, IInv, TypeOK
    <3>2. Operate \/ Environment => att' = att
      <4>1. Operate => att' = att
        BY Zenon DEF Operate, LookUpReset, CommitReset, UpdateConfig, PublishAvailability,
           RemoveEndpoint, AddEndpoint
      <4>2. Environment => att' = att
        BY Zenon DEF Environment, Cleanup, ChangeRoute, LoseTier, Tick
      <4> QED
        BY <4>1, <4>2
    <3> QED
      BY <3>1, <3>2 DEF Next
  <2>2. \/ soft' = soft
        \/ \E full \in BOOLEAN : SucceedMessages(a, full)
        \/ SucceedCountTokens(a)
    BY <2>1 DEF Attempt, Plan, Acquire, Abandon, Settle, EnterFailure, RecordSoftFailure,
       AuthCooldown, TripMessages, TripCountTokens, ClearRetained, CheckRetention, Retain
  <2>3. CASE SucceedCountTokens(a)
    BY <2>3, <1>1 DEF SucceedCountTokens, IInv, TypeOK, Paths
  <2>4. ASSUME NEW full \in BOOLEAN, SucceedMessages(a, full) PROVE Newer(a)
    <3>1. /\ att[a].start \in Nat
          /\ \A c \in Categories : \A e \in soft["messages"][c] : e.at \in Nat
      BY <1>1 DEF IInv, TypeOK, AttemptRecords, Events, Paths
    <3>2. \/ soft' = soft
          \/ \A c \in Categories :
               soft'["messages"][c] = {e \in soft["messages"][c] : ~(e.at <= att[a].start)}
      BY <2>4, <1>1 DEF SucceedMessages, OlderThan, IInv, TypeOK, Paths
    <3> QED
      BY <3>1, <3>2
  <2> QED
    BY <2>2, <2>3, <2>4
<1> QED
  BY <1>1, InvHolds, PTL DEF Spec, NewerFailuresSurviveSuccess

-----------------------------------------------------------------------------
(* The accounts, as they run in MCEndpointFailureState.                     *)

InFlight(c) == Runtime!InFlight(c)

-----------------------------------------------------------------------------
(* The run-time state of an account.  Its inductive invariant, in parts.    *)

\* The writer applies only what it has detached.
Detached == current => batch.kind # "none"

\* A call that has had the account to itself is the only one under way.
AloneIsAlone ==
  \A c, d \in DesktopCalls : InFlight(c) /\ rtCall[c].alone /\ d # c => ~InFlight(d)

\* The call has changed the cache and holds what it may have to restore.
Holding(c) ==
  /\ InFlight(c) /\ rtCall[c].pc = "cached"
  /\ rtCall[c].op = "edit" => rtCall[c].flips
  /\ rtCall[c].op \in {"toggle", "edit"}

\* Until the version moves on, what a call with the account to itself holds is
\* at least as bad as the cache, and as new as the last recorded failure.
HeldIsOld ==
  \A c \in DesktopCalls : Holding(c) /\ rtCall[c].alone =>
    /\ version >= rtCall[c].version
    /\ version = rtCall[c].version =>
         /\ Runtime!Blocked(entry) => Runtime!Blocked(rtCall[c].saved)
         /\ rtCall[c].saved.enabled /\ Runtime!Blocked(rtCall[c].saved) =>
              lastFail <= rtCall[c].saved.updated

\* A blocked account that is enabled shows when it failed last.
FailureIsDated == entry.enabled /\ Runtime!Blocked(entry) => lastFail <= entry.updated

\* Nothing that is under way can enable a disabled account.
NothingEnables ==
  /\ off =>
       /\ ~entry.enabled /\ ~rtRow.enabled
       /\ \A c \in DesktopCalls : InFlight(c) =>
            /\ rtCall[c].pc \in {"seen", "read", "cached"} => ~rtCall[c].on
            /\ Holding(c) => ~rtCall[c].saved.enabled
            /\ rtCall[c].pc \in {"read", "cached", "loaded"} => ~rtCall[c].read.enabled
  /\ \A c \in DesktopCalls :
       Holding(c) /\ rtCall[c].alone /\ ~rtCall[c].on => ~entry.enabled

\* No call is under way on a deleted account, and a deletion under way has
\* removed the rtRow.
NothingRevives ==
  /\ deleted => ~entry.here /\ ~rtRow.here /\ \A c \in DesktopCalls : ~InFlight(c)
  /\ \A c \in DesktopCalls : InFlight(c) /\ rtCall[c].op = "delete" => ~rtRow.here

RuntimeInv ==
  /\ Runtime!TypeOK
  /\ Detached /\ AloneIsAlone /\ HeldIsOld /\ FailureIsDated /\ NothingEnables /\ NothingRevives

\* A new call, as Begin records it, and what it does to the others.
LEMMA BegunTypes ==
  ASSUME rtCall \in [DesktopCalls -> Runtime!CallRecords], NEW c \in DesktopCalls,
         NEW new \in Runtime!CallRecords, Runtime!Begin(c, new)
  PROVE  rtCall' \in [DesktopCalls -> Runtime!CallRecords]
<1>1. \A d \in DesktopCalls : InFlight(d) \in BOOLEAN
  BY DEF InFlight, Runtime!InFlight
<1>2. ASSUME NEW r \in Runtime!CallRecords, NEW b \in BOOLEAN
      PROVE  [r EXCEPT !.alone = b] \in Runtime!CallRecords
  BY <1>2 DEF Runtime!CallRecords
<1>3. ASSUME NEW d \in DesktopCalls
      PROVE  [rtCall[d] EXCEPT !.alone = @ /\ ~Runtime!InFlight(d)] \in Runtime!CallRecords
  <2>1. rtCall[d] \in Runtime!CallRecords
    OBVIOUS
  <2>2. (rtCall[d].alone /\ ~Runtime!InFlight(d)) \in BOOLEAN
    OBVIOUS
  <2> QED BY <1>2, <2>1, <2>2
<1>4. [new EXCEPT !.alone = \A e \in DesktopCalls \ {c} : ~Runtime!InFlight(e)] \in Runtime!CallRecords
  <2>1. (\A e \in DesktopCalls \ {c} : ~Runtime!InFlight(e)) \in BOOLEAN
    OBVIOUS
  <2> QED BY <1>2, <2>1
<1> QED BY <1>3, <1>4 DEF Runtime!Begin

LEMMA NoCallTypes ==
  /\ Runtime!NoEntry \in Runtime!Entries /\ Runtime!Healthy \in Runtime!Entries
  /\ Runtime!NoMutation \in Runtime!Mutations
  /\ Runtime!NoCall \in Runtime!CallRecords /\ Runtime!Finished \in Runtime!CallRecords
<1>1. Runtime!NoEntry \in Runtime!Entries /\ Runtime!Healthy \in Runtime!Entries
  BY DEF Runtime!NoEntry, Runtime!Healthy, Runtime!Entries, Runtime!States
<1>2. Runtime!NoMutation \in Runtime!Mutations
  BY DEF Runtime!NoMutation, Runtime!Mutations, Runtime!Kinds
<1>3. Runtime!NoCall \in Runtime!CallRecords
  BY <1>1 DEF Runtime!NoCall, Runtime!CallRecords, Runtime!Ops, Runtime!PCs
<1>4. Runtime!Finished \in Runtime!CallRecords
  BY <1>3 DEF Runtime!Finished, Runtime!CallRecords, Runtime!PCs
<1> QED BY <1>1, <1>2, <1>3, <1>4

LEMMA MergeTypes ==
  ASSUME NEW q \in Runtime!Mutations, NEW m \in Runtime!Mutations
  PROVE  Runtime!Merge(q, m) \in Runtime!Mutations
<1>1. [m EXCEPT !.delta = m.delta + q.delta] \in Runtime!Mutations
  BY DEF Runtime!Mutations
<1> QED BY <1>1 DEF Runtime!Merge

AttRecords == [pc : {"idle", "sent", "marked", "done"}, start : Nat, m : Runtime!Mutations]

LEMMA Numbers ==
  ASSUME Runtime!TypeOK
  PROVE  rtNow \in Nat /\ faults \in Nat /\ restarts \in Nat /\ rtNow + 1 \in Nat /\ rtNow + 2 \in Nat
BY AccountAssumption DEF Runtime!TypeOK

\* What the reports and the calls make of an entry is an entry.
LEMMA EntryTypes ==
  ASSUME NEW e \in Runtime!Entries, NEW t \in Nat, NEW u \in Nat, NEW b \in BOOLEAN
  PROVE  /\ [e EXCEPT !.state = "active", !.until = 0, !.updated = t] \in Runtime!Entries
         /\ [e EXCEPT !.state = "cooldown", !.until = u, !.updated = t] \in Runtime!Entries
         /\ [e EXCEPT !.enabled = FALSE, !.state = "disabled_auth", !.until = 0, !.updated = t]
              \in Runtime!Entries
         /\ [e EXCEPT !.enabled = b, !.updated = t] \in Runtime!Entries
         /\ [e EXCEPT !.enabled = TRUE, !.state = "active", !.until = 0, !.updated = t]
              \in Runtime!Entries
BY DEF Runtime!Entries, Runtime!States

LEMMA AttemptTypes ==
  ASSUME Runtime!TypeOK, NEW a \in AccountAttempts,
         \/ Runtime!Start(a) \/ Runtime!Succeed(a) \/ Runtime!FailTransient(a)
         \/ Runtime!FailUsageLimit(a) \/ Runtime!FailSoft(a) \/ Runtime!FailAuth(a)
         \/ Runtime!Report(a)
  PROVE  Runtime!TypeOK'
<1> USE Numbers DEF Runtime!TypeOK
<1>a. Runtime!Gone \in AttRecords
  BY NoCallTypes DEF Runtime!Gone, AttRecords
<1>b. rtAtt \in [AccountAttempts -> AttRecords]
  BY DEF AttRecords
<1>c. SUFFICES ASSUME TRUE
               PROVE  /\ rtAtt' \in [AccountAttempts -> AttRecords]
                      /\ entry' \in Runtime!Entries /\ version' \in Nat /\ lastFail' \in Nat
                      /\ rtSoft' \in Nat /\ pending' \in Runtime!Mutations
                      /\ UNCHANGED <<rtNow, rtRow, batch, current, rtCall, refresh,
                                     faults, restarts, off, deleted>>
  BY DEF AttRecords
<1>d. ASSUME NEW m \in Runtime!Mutations, Runtime!Marked(a, m)
      PROVE  rtAtt' \in [AccountAttempts -> AttRecords] /\ version' \in Nat
  BY <1>b, <1>d DEF Runtime!Marked, AttRecords
<1>e. ASSUME Runtime!Dismissed(a)
      PROVE  /\ rtAtt' \in [AccountAttempts -> AttRecords]
             /\ entry' \in Runtime!Entries /\ version' \in Nat /\ lastFail' \in Nat
  BY <1>a, <1>b, <1>e DEF Runtime!Dismissed
<1>1. CASE Runtime!Start(a)
  <2>1. [rtAtt[a] EXCEPT !.pc = "sent", !.start = rtNow] \in AttRecords
    BY <1>b DEF AttRecords
  <2> QED BY <1>1, <1>b, <2>1 DEF Runtime!Start
<1>2. CASE Runtime!Succeed(a)
  <2>1. [kind |-> "success", version |-> version + 1, at |-> rtNow, start |-> rtAtt[a].start,
         until |-> 0, delta |-> 0] \in Runtime!Mutations
    BY <1>b DEF AttRecords, Runtime!Mutations, Runtime!Kinds
  <2>2. Runtime!Activated \in Runtime!Entries
    BY EntryTypes DEF Runtime!Activated
  <2> QED BY <1>2, <1>d, <1>e, <2>1, <2>2 DEF Runtime!Succeed, Runtime!ReportUnchanged
<1>3. ASSUME NEW u \in Nat, Runtime!MarkTransient(a, u)
      PROVE  /\ rtAtt' \in [AccountAttempts -> AttRecords]
             /\ entry' \in Runtime!Entries /\ version' \in Nat /\ lastFail' \in Nat
  <2>1. [kind |-> "transient", version |-> version + 1, at |-> rtNow, start |-> 0,
         until |-> u, delta |-> 1] \in Runtime!Mutations
    BY DEF Runtime!Mutations, Runtime!Kinds
  <2>2. [entry EXCEPT !.state = "cooldown", !.until = u, !.updated = rtNow] \in Runtime!Entries
    BY EntryTypes
  <2> QED BY <1>3, <1>d, <1>e, <2>1, <2>2 DEF Runtime!MarkTransient
<1>4. CASE Runtime!FailTransient(a)
  BY <1>4, <1>3 DEF Runtime!FailTransient, Runtime!ReportUnchanged
<1>5. CASE Runtime!FailUsageLimit(a)
  BY <1>5, <1>3 DEF Runtime!FailUsageLimit, Runtime!ReportUnchanged
<1>6. CASE Runtime!FailSoft(a)
  BY <1>6, <1>e, <1>3 DEF Runtime!FailSoft, Runtime!ReportUnchanged
<1>7. CASE Runtime!FailAuth(a)
  <2>1. [kind |-> "auth", version |-> version + 1, at |-> rtNow, start |-> 0,
         until |-> 0, delta |-> 0] \in Runtime!Mutations
    BY DEF Runtime!Mutations, Runtime!Kinds
  <2>2. Runtime!AuthFailed(rtNow) \in Runtime!Entries
    BY EntryTypes DEF Runtime!AuthFailed
  <2> QED BY <1>7, <1>d, <1>e, <2>1, <2>2 DEF Runtime!FailAuth, Runtime!ReportUnchanged
<1>8. CASE Runtime!Report(a)
  <2>1. rtAtt[a].m \in Runtime!Mutations
    BY <1>b DEF AttRecords
  <2> QED BY <1>8, <1>a, <1>b, <2>1, MergeTypes DEF Runtime!Report, Runtime!Enqueue
<1> QED BY <1>1, <1>2, <1>4, <1>5, <1>6, <1>7, <1>8

LEMMA WriterTypes ==
  ASSUME Runtime!TypeOK, Detached,
         \/ Runtime!Tick \/ Runtime!SoftExpires
         \/ Runtime!Detach \/ Runtime!CheckVersion \/ Runtime!Write \/ Runtime!WriteFails
         \/ Runtime!StartRefresh \/ Runtime!RefreshWrites \/ Runtime!RefreshMarks
         \/ Runtime!Restart
  PROVE  Runtime!TypeOK'
<1> USE AccountAssumption, Numbers DEF Runtime!TypeOK
<1>1. CASE Runtime!Tick
  BY <1>1 DEF Runtime!Tick
<1>2. CASE Runtime!SoftExpires
  BY <1>2 DEF Runtime!SoftExpires, Runtime!ReportUnchanged
<1>3. CASE Runtime!Detach
  BY <1>3, NoCallTypes DEF Runtime!Detach
<1>4. CASE Runtime!CheckVersion
  BY <1>4, NoCallTypes DEF Runtime!CheckVersion
<1>5. CASE Runtime!Write
  <2>1. batch.kind \in {"success", "auth", "transient"} /\ batch.until \in Nat
    BY <1>5 DEF Runtime!Write, Detached, Runtime!Mutations, Runtime!Kinds
  <2>2. rtRow' \in Runtime!Entries
    BY <1>5, <2>1, EntryTypes DEF Runtime!Write, Runtime!Written
  <2>3. batch' \in Runtime!Mutations /\ current' \in BOOLEAN
    <3>1. batch.delta > 1 => [batch EXCEPT !.delta = batch.delta - 1] \in Runtime!Mutations
      BY DEF Runtime!Mutations
    <3> QED BY <1>5, <3>1, NoCallTypes DEF Runtime!Write
  <2> QED BY <1>5, <2>2, <2>3 DEF Runtime!Write
<1>6. CASE Runtime!WriteFails
  <2>1. pending' \in Runtime!Mutations
    BY <1>6, MergeTypes DEF Runtime!WriteFails, Runtime!Enqueue
  <2>2. faults' \in 0 .. MaxFaults
    BY <1>6 DEF Runtime!WriteFails
  <2>3. current' \in BOOLEAN /\ batch' \in Runtime!Mutations
    BY <1>6, NoCallTypes DEF Runtime!WriteFails
  <2> QED BY <1>6, <2>1, <2>2, <2>3 DEF Runtime!WriteFails
<1>7. CASE Runtime!StartRefresh
  BY <1>7 DEF Runtime!StartRefresh
<1>8. CASE Runtime!RefreshWrites
  <2>1. rtRow' \in Runtime!Entries
    <3>1. [rtRow EXCEPT !.enabled = FALSE, !.state = "disabled_auth", !.until = 0,
                        !.updated = rtNow] \in Runtime!Entries
      BY EntryTypes
    <3> QED BY <1>8, <3>1 DEF Runtime!RefreshWrites
  <2>2. refresh' \in [pc : {"idle", "asked", "written", "done"}, at : Nat]
    BY <1>8 DEF Runtime!RefreshWrites
  <2> QED BY <1>8, <2>1, <2>2 DEF Runtime!RefreshWrites
<1>9. CASE Runtime!RefreshMarks
  <2>1. entry' \in Runtime!Entries
    <3>1. refresh.at \in Nat
      OBVIOUS
    <3>2. Runtime!AuthFailed(refresh.at) \in Runtime!Entries
      BY <3>1, EntryTypes DEF Runtime!AuthFailed
    <3> QED BY <1>9, <3>2 DEF Runtime!RefreshMarks
  <2> QED BY <1>9, <2>1 DEF Runtime!RefreshMarks
<1>10. CASE Runtime!Restart
  <2>1. rtAtt' \in [AccountAttempts -> [pc : {"idle", "sent", "marked", "done"},
                                        start : Nat, m : Runtime!Mutations]]
    BY <1>10, NoCallTypes DEF Runtime!Restart, Runtime!Gone
  <2>2. rtCall' \in [DesktopCalls -> Runtime!CallRecords]
    BY <1>10, NoCallTypes DEF Runtime!Restart
  <2>3. version' \in Nat /\ restarts' \in 0 .. MaxRestarts
    BY <1>10 DEF Runtime!Restart
  <2>4. refresh' \in [pc : {"idle", "asked", "written", "done"}, at : Nat]
    BY <1>10 DEF Runtime!Restart
  <2> QED BY <1>10, <2>1, <2>2, <2>3, <2>4, NoCallTypes DEF Runtime!Restart
<1> QED BY <1>1, <1>2, <1>3, <1>4, <1>5, <1>6, <1>7, <1>8, <1>9, <1>10

\* The steps of a call after its first.
Continues(c) ==
  \/ Runtime!CommitToggle(c) \/ Runtime!AbortToggle(c) \/ Runtime!ReadRow(c) \/ Runtime!Reload(c)
  \/ Runtime!ReadForEdit(c) \/ Runtime!FlipForEdit(c) \/ Runtime!CommitEdit(c)
  \/ Runtime!AbortEdit(c) \/ Runtime!CommitTest(c) \/ Runtime!AbortTest(c)
  \/ Runtime!DropPending(c) \/ Runtime!Forget(c)

\* The steps that begin one.
Begins(c) ==
  \/ \E on \in BOOLEAN : Runtime!Toggle(c, on) \/ Runtime!StartEdit(c, on)
  \/ Runtime!Test(c) \/ Runtime!DeleteRow(c)

\* The parts of a call's record.
LEMMA CallFields ==
  ASSUME Runtime!TypeOK, NEW c \in DesktopCalls
  PROVE  /\ rtCall[c] \in Runtime!CallRecords
         /\ rtCall[c].saved \in Runtime!Entries /\ rtCall[c].read \in Runtime!Entries
         /\ rtCall[c].version \in Nat /\ rtCall[c].savedVersion \in Nat
         /\ rtCall[c].alone \in BOOLEAN /\ rtCall[c].on \in BOOLEAN /\ rtCall[c].flips \in BOOLEAN
         /\ rtCall[c].op \in Runtime!Ops
BY DEF Runtime!TypeOK, Runtime!CallRecords

LEMMA ToggleTypes ==
  ASSUME NEW on \in BOOLEAN, NEW v \in Nat, NEW w \in Nat, NEW e \in Runtime!Entries
  PROVE  [Runtime!NoCall EXCEPT !.op = "toggle", !.pc = "cached", !.on = on, !.version = v,
          !.saved = e, !.savedVersion = w] \in Runtime!CallRecords
BY NoCallTypes DEF Runtime!CallRecords, Runtime!Ops, Runtime!PCs

LEMMA BeginTypes ==
  ASSUME Runtime!TypeOK, NEW c \in DesktopCalls, Begins(c)
  PROVE  Runtime!TypeOK'
<1> USE Numbers, NoCallTypes DEF Runtime!TypeOK
<1>1. ASSUME NEW on \in BOOLEAN, Runtime!Toggle(c, on)
      PROVE  Runtime!TypeOK'
  <2>1. [Runtime!NoCall EXCEPT !.op = "toggle", !.pc = "cached", !.on = on, !.version = version + 1,
         !.saved = entry, !.savedVersion = version] \in Runtime!CallRecords
    <3>1. version \in Nat /\ version + 1 \in Nat /\ entry \in Runtime!Entries
      OBVIOUS
    <3>2. on \in BOOLEAN
      BY <1>1
    <3> HIDE DEF Runtime!TypeOK
    <3> QED BY <3>1, <3>2, ToggleTypes
  <2>2. rtCall' \in [DesktopCalls -> Runtime!CallRecords]
    BY <1>1, <2>1, BegunTypes DEF Runtime!Toggle
  <2>3. entry' \in Runtime!Entries
    <3>1. [Runtime!Activated EXCEPT !.enabled = TRUE] \in Runtime!Entries
      BY DEF Runtime!Activated, Runtime!Entries, Runtime!States
    <3>2. [entry EXCEPT !.enabled = FALSE, !.updated = rtNow] \in Runtime!Entries
      BY EntryTypes
    <3> QED BY <1>1, <3>1, <3>2 DEF Runtime!Toggle, Runtime!Flip
  <2>4. version' \in Nat /\ off' \in BOOLEAN
    BY <1>1 DEF Runtime!Toggle, Runtime!Flip
  <2> QED BY <1>1, <2>2, <2>3, <2>4 DEF Runtime!Toggle, Runtime!BackgroundUnchanged
<1>2. ASSUME NEW on \in BOOLEAN, Runtime!StartEdit(c, on)
      PROVE  Runtime!TypeOK'
  <2>1. [Runtime!NoCall EXCEPT !.op = "edit", !.pc = "seen", !.on = on,
               !.flips = (on # entry.enabled)] \in Runtime!CallRecords
    BY DEF Runtime!CallRecords, Runtime!Ops, Runtime!PCs
  <2>2. rtCall' \in [DesktopCalls -> Runtime!CallRecords]
    BY <1>2, <2>1, BegunTypes DEF Runtime!StartEdit
  <2>3. off' \in BOOLEAN
    BY <1>2 DEF Runtime!StartEdit
  <2> QED BY <1>2, <2>2, <2>3 DEF Runtime!StartEdit, Runtime!BackgroundUnchanged
<1>3. CASE Runtime!Test(c)
  <2>1. [Runtime!NoCall EXCEPT !.op = "test", !.pc = "cached"] \in Runtime!CallRecords
    BY DEF Runtime!CallRecords, Runtime!Ops, Runtime!PCs
  <2>2. rtCall' \in [DesktopCalls -> Runtime!CallRecords]
    BY <1>3, <2>1, BegunTypes DEF Runtime!Test
  <2>3. Runtime!Activated \in Runtime!Entries
    BY EntryTypes DEF Runtime!Activated
  <2> QED BY <1>3, <2>2, <2>3 DEF Runtime!Test, Runtime!BackgroundUnchanged
<1>4. CASE Runtime!DeleteRow(c)
  <2>1. [Runtime!NoCall EXCEPT !.op = "delete", !.pc = "cached"] \in Runtime!CallRecords
    BY DEF Runtime!CallRecords, Runtime!Ops, Runtime!PCs
  <2>2. rtCall' \in [DesktopCalls -> Runtime!CallRecords]
    BY <1>4, <2>1, BegunTypes DEF Runtime!DeleteRow
  <2> QED BY <1>4, <2>2 DEF Runtime!DeleteRow, Runtime!BackgroundUnchanged
<1> QED BY <1>1, <1>2, <1>3, <1>4 DEF Begins

LEMMA ContinueTypes ==
  ASSUME Runtime!TypeOK, NEW c \in DesktopCalls, Continues(c)
  PROVE  Runtime!TypeOK'
<1> USE NoCallTypes, CallFields DEF Runtime!TypeOK
<1>n. rtNow \in Nat /\ version + 1 \in Nat
  BY Numbers
<1>f. faults < MaxFaults => faults + 1 \in 0 .. MaxFaults
  BY AccountAssumption
<1>c. ASSUME NEW r \in Runtime!CallRecords, rtCall' = [rtCall EXCEPT ![c] = r]
      PROVE  rtCall' \in [DesktopCalls -> Runtime!CallRecords]
  BY <1>c
<1>p. ASSUME NEW p \in Runtime!PCs
      PROVE  [rtCall[c] EXCEPT !.pc = p] \in Runtime!CallRecords
  BY DEF Runtime!CallRecords
<1>1. CASE Runtime!CommitToggle(c)
  <2>1. rtRow' \in Runtime!Entries
    BY <1>1, <1>n, EntryTypes DEF Runtime!CommitToggle, Runtime!Toggled
  <2>2. off' \in BOOLEAN
    BY <1>1 DEF Runtime!CommitToggle
  <2> QED BY <1>1, <1>c, <2>1, <2>2 DEF Runtime!CommitToggle, Runtime!BackgroundUnchanged
<1>2. CASE Runtime!AbortToggle(c)
  <2>1. [Runtime!NoCall EXCEPT !.op = "toggle", !.alone = rtCall[c].alone, !.pc = "reload"]
          \in Runtime!CallRecords
    BY DEF Runtime!CallRecords, Runtime!Ops, Runtime!PCs
  <2>2. rtCall' \in [DesktopCalls -> Runtime!CallRecords]
    BY <1>2, <1>c, <2>1 DEF Runtime!AbortToggle
  <2>3. faults' \in 0 .. MaxFaults
    BY <1>2, <1>f DEF Runtime!AbortToggle
  <2>4. entry' \in Runtime!Entries /\ version' \in Nat /\ lastFail' \in Nat
    BY <1>2 DEF Runtime!AbortToggle, Runtime!Restore
  <2> QED BY <1>2, <2>2, <2>3, <2>4 DEF Runtime!AbortToggle, Runtime!BackgroundUnchanged
<1>3. CASE Runtime!ReadRow(c)
  <2>1. [Runtime!NoCall EXCEPT !.op = rtCall[c].op, !.alone = rtCall[c].alone, !.pc = "loaded",
                               !.read = rtRow] \in Runtime!CallRecords
    BY DEF Runtime!CallRecords, Runtime!PCs
  <2> QED BY <1>3, <1>c, <2>1 DEF Runtime!ReadRow, Runtime!BackgroundUnchanged
<1>4. CASE Runtime!Reload(c)
  <2>1. version' \in Nat /\ entry' \in Runtime!Entries /\ lastFail' \in Nat
    BY <1>4 DEF Runtime!Reload
  <2> QED BY <1>4, <1>c, <2>1 DEF Runtime!Reload, Runtime!BackgroundUnchanged
<1>5. CASE Runtime!ReadForEdit(c)
  <2>1. [rtCall[c] EXCEPT !.pc = "read", !.read = rtRow] \in Runtime!CallRecords
    BY DEF Runtime!CallRecords, Runtime!PCs
  <2>2. rtCall' \in [DesktopCalls -> Runtime!CallRecords]
    BY <1>5, <1>c, <2>1 DEF Runtime!ReadForEdit
  <2> QED BY <1>5, <2>2 DEF Runtime!ReadForEdit, Runtime!BackgroundUnchanged
<1>6. CASE Runtime!FlipForEdit(c)
  <2>1. CASE ~rtCall[c].flips
    <3>1. rtCall' \in [DesktopCalls -> Runtime!CallRecords]
      BY <1>6, <2>1, <1>p DEF Runtime!FlipForEdit, Runtime!PCs
    <3> QED BY <1>6, <2>1, <3>1 DEF Runtime!FlipForEdit, Runtime!BackgroundUnchanged
  <2>2. CASE rtCall[c].flips /\ ~entry.here
    <3>1. rtCall' \in [DesktopCalls -> Runtime!CallRecords]
      BY <1>6, <2>2 DEF Runtime!FlipForEdit
    <3> QED BY <1>6, <2>2, <3>1 DEF Runtime!FlipForEdit, Runtime!BackgroundUnchanged
  <2>3. CASE rtCall[c].flips /\ entry.here
    <3>1. [rtCall[c] EXCEPT !.pc = "cached", !.version = version + 1, !.saved = entry,
                            !.savedVersion = version] \in Runtime!CallRecords
      BY <1>n DEF Runtime!CallRecords, Runtime!PCs
    <3>2. rtCall' = [rtCall EXCEPT ![c] = [rtCall[c] EXCEPT !.pc = "cached", !.version = version + 1,
                            !.saved = entry, !.savedVersion = version]]
      BY <1>6, <2>3 DEF Runtime!FlipForEdit, Runtime!CallRecords
    <3>3. entry' \in Runtime!Entries
      <4>1. [Runtime!Activated EXCEPT !.enabled = TRUE] \in Runtime!Entries
        BY <1>n DEF Runtime!Activated, Runtime!Entries, Runtime!States
      <4>2. [entry EXCEPT !.enabled = FALSE, !.updated = rtNow] \in Runtime!Entries
        BY <1>n, EntryTypes
      <4> QED BY <1>6, <2>3, <4>1, <4>2 DEF Runtime!FlipForEdit, Runtime!Flip
    <3>4. version' \in Nat
      BY <1>6, <1>n, <2>3 DEF Runtime!FlipForEdit, Runtime!Flip
    <3> QED BY <1>6, <2>3, <1>c, <3>1, <3>2, <3>3, <3>4 DEF Runtime!FlipForEdit, Runtime!BackgroundUnchanged
  <2> QED BY <2>1, <2>2, <2>3
<1>7. CASE Runtime!CommitEdit(c)
  <2>1. rtRow' \in Runtime!Entries
    <3>1. [rtCall[c].read EXCEPT !.updated = rtNow] \in Runtime!Entries
      BY <1>n DEF Runtime!Entries
    <3> QED BY <1>7, <3>1 DEF Runtime!CommitEdit, Runtime!Edited, Runtime!Entries, Runtime!States
  <2>2. rtCall' \in [DesktopCalls -> Runtime!CallRecords]
    BY <1>7, <1>p DEF Runtime!CommitEdit, Runtime!PCs
  <2>3. off' \in BOOLEAN
    BY <1>7 DEF Runtime!CommitEdit
  <2> QED BY <1>7, <2>1, <2>2, <2>3 DEF Runtime!CommitEdit, Runtime!BackgroundUnchanged
<1>8. CASE Runtime!AbortEdit(c)
  <2>1. faults' \in 0 .. MaxFaults
    BY <1>8, <1>f DEF Runtime!AbortEdit
  <2>2. entry' \in Runtime!Entries /\ version' \in Nat /\ lastFail' \in Nat
    BY <1>8 DEF Runtime!AbortEdit, Runtime!Restore
  <2> QED BY <1>8, <1>c, <2>1, <2>2 DEF Runtime!AbortEdit, Runtime!BackgroundUnchanged
<1>9. CASE Runtime!CommitTest(c)
  <2>1. rtRow' \in Runtime!Entries
    BY <1>9, <1>n, EntryTypes DEF Runtime!CommitTest
  <2> QED BY <1>9, <1>c, <2>1 DEF Runtime!CommitTest, Runtime!BackgroundUnchanged
<1>10. CASE Runtime!AbortTest(c)
  <2>1. rtCall' \in [DesktopCalls -> Runtime!CallRecords]
    BY <1>10, <1>p DEF Runtime!AbortTest, Runtime!PCs
  <2>2. faults' \in 0 .. MaxFaults
    BY <1>10, <1>f DEF Runtime!AbortTest
  <2> QED BY <1>10, <2>1, <2>2 DEF Runtime!AbortTest, Runtime!BackgroundUnchanged
<1>11. CASE Runtime!DropPending(c)
  <2>1. rtCall' \in [DesktopCalls -> Runtime!CallRecords]
    BY <1>11, <1>p DEF Runtime!DropPending, Runtime!PCs
  <2> QED BY <1>11, <2>1 DEF Runtime!DropPending
<1>12. CASE Runtime!Forget(c)
  <2>1. deleted' \in BOOLEAN
    BY <1>12 DEF Runtime!Forget
  <2> QED BY <1>12, <1>c, <2>1 DEF Runtime!Forget, Runtime!BackgroundUnchanged
<1> QED BY <1>1, <1>2, <1>3, <1>4, <1>5, <1>6, <1>7, <1>8, <1>9, <1>10, <1>11, <1>12 DEF Continues

\* The steps of attempts, writer and refresh: they touch no call, they move the
\* version on with the cache, and they enable and create nothing.
SideStep ==
  \/ Runtime!Tick
  \/ \E a \in AccountAttempts :
       \/ Runtime!Start(a) \/ Runtime!Succeed(a) \/ Runtime!FailTransient(a)
       \/ Runtime!FailUsageLimit(a) \/ Runtime!FailSoft(a) \/ Runtime!FailAuth(a)
       \/ Runtime!Report(a)
  \/ Runtime!SoftExpires
  \/ Runtime!Detach \/ Runtime!CheckVersion \/ Runtime!Write \/ Runtime!WriteFails
  \/ Runtime!StartRefresh \/ Runtime!RefreshWrites \/ Runtime!RefreshMarks

\* What such a step may do to the cache.
Worsens ==
  \/ UNCHANGED <<entry, version, lastFail>>
  \/ /\ version' = version + 1
     /\ entry'.here = entry.here /\ (entry'.enabled => entry.enabled)
     /\ entry'.enabled /\ Runtime!Blocked(entry)' => lastFail' <= entry'.updated

\* What a step of the writer or of a refresh may do to the row.
Rewrites == rtRow'.here = rtRow.here /\ (rtRow'.enabled => rtRow.enabled)

LEMMA AttemptEffect ==
  ASSUME Runtime!TypeOK, NEW a \in AccountAttempts,
         \/ Runtime!Start(a) \/ Runtime!Succeed(a) \/ Runtime!FailTransient(a)
         \/ Runtime!FailUsageLimit(a) \/ Runtime!FailSoft(a) \/ Runtime!FailAuth(a)
         \/ Runtime!Report(a)
  PROVE  Worsens /\ UNCHANGED <<rtCall, off, deleted, rtRow, batch, current>>
<1>1. entry \in Runtime!Entries /\ rtNow \in Nat
  BY Numbers DEF Runtime!TypeOK
<1>2. ASSUME NEW u, Runtime!MarkTransient(a, u)
      PROVE  Worsens
  <2>1. CASE entry.here
    <3>1. /\ entry' = [entry EXCEPT !.state = "cooldown", !.until = u, !.updated = rtNow]
          /\ version' = version + 1 /\ lastFail' = rtNow
      BY <1>2, <2>1 DEF Runtime!MarkTransient, Runtime!Marked
    <3>2. /\ entry'.here = entry.here /\ entry'.enabled = entry.enabled
          /\ entry'.updated = rtNow
      BY <1>1, <3>1 DEF Runtime!Entries
    <3> QED BY <1>1, <3>1, <3>2 DEF Worsens
  <2>2. CASE ~entry.here
    BY <1>2, <2>2 DEF Runtime!MarkTransient, Runtime!Dismissed, Worsens
  <2> QED BY <2>1, <2>2
<1>3. CASE Runtime!Start(a) \/ Runtime!Report(a)
  BY <1>3 DEF Runtime!Start, Runtime!Report, Worsens
<1>4. CASE Runtime!Succeed(a)
  <2>1. Runtime!Activated.enabled = entry.enabled /\ Runtime!Activated.here = entry.here
        /\ Runtime!Activated.state = "active"
    BY <1>1 DEF Runtime!Activated, Runtime!Entries
  <2>2. Worsens
    BY <1>4, <2>1 DEF Runtime!Succeed, Runtime!Marked, Runtime!Dismissed, Worsens, Runtime!Blocked
  <2> QED BY <1>4, <2>2 DEF Runtime!Succeed, Runtime!ReportUnchanged
<1>5. CASE Runtime!FailTransient(a)
  BY <1>5, <1>2 DEF Runtime!FailTransient, Runtime!ReportUnchanged
<1>6. CASE Runtime!FailUsageLimit(a)
  BY <1>6, <1>2 DEF Runtime!FailUsageLimit, Runtime!ReportUnchanged
<1>7. CASE Runtime!FailSoft(a)
  <2>1. Worsens
    BY <1>7, <1>2 DEF Runtime!FailSoft, Runtime!Dismissed, Worsens
  <2> QED BY <1>7, <2>1 DEF Runtime!FailSoft, Runtime!ReportUnchanged
<1>8. CASE Runtime!FailAuth(a)
  <2>1. Runtime!AuthFailed(rtNow).enabled = FALSE /\ Runtime!AuthFailed(rtNow).here = entry.here
    BY <1>1 DEF Runtime!AuthFailed, Runtime!Entries
  <2>2. Worsens
    BY <1>8, <2>1 DEF Runtime!FailAuth, Runtime!Marked, Runtime!Dismissed, Worsens
  <2> QED BY <1>8, <2>2 DEF Runtime!FailAuth, Runtime!ReportUnchanged
<1> QED BY <1>3, <1>4, <1>5, <1>6, <1>7, <1>8

LEMMA SideEffect ==
  ASSUME Runtime!TypeOK, Detached, SideStep
  PROVE  /\ UNCHANGED <<rtCall, off, deleted>>
         /\ Worsens /\ Rewrites /\ Detached'
<1>1. entry \in Runtime!Entries /\ rtRow \in Runtime!Entries /\ current \in BOOLEAN
  BY DEF Runtime!TypeOK
<1>2. CASE Runtime!Tick \/ Runtime!SoftExpires \/ Runtime!StartRefresh
  BY <1>2 DEF Runtime!Tick, Runtime!SoftExpires, Runtime!StartRefresh, Runtime!ReportUnchanged,
     Worsens, Rewrites, Detached
<1>3. ASSUME NEW a \in AccountAttempts,
             \/ Runtime!Start(a) \/ Runtime!Succeed(a) \/ Runtime!FailTransient(a)
             \/ Runtime!FailUsageLimit(a) \/ Runtime!FailSoft(a) \/ Runtime!FailAuth(a)
             \/ Runtime!Report(a)
      PROVE  /\ UNCHANGED <<rtCall, off, deleted>>
             /\ Worsens /\ Rewrites /\ Detached'
  BY <1>3, AttemptEffect DEF Rewrites, Detached
<1>4. CASE Runtime!Detach
  BY <1>4 DEF Runtime!Detach, Worsens, Rewrites, Detached
<1>5. CASE Runtime!CheckVersion
  BY <1>5 DEF Runtime!CheckVersion, Worsens, Rewrites, Detached
<1>6. CASE Runtime!Write
  <2>1. batch.kind \in {"success", "auth", "transient"}
    BY <1>6 DEF Runtime!Write, Detached, Runtime!TypeOK, Runtime!Mutations, Runtime!Kinds
  <2>2. Rewrites
    BY <1>1, <1>6, <2>1 DEF Runtime!Write, Runtime!Written, Rewrites, Runtime!Entries
  <2>3. Detached'
    <3>1. batch \in Runtime!Mutations
      BY DEF Runtime!TypeOK
    <3> QED BY <1>6, <2>1, <3>1 DEF Runtime!Write, Detached, Runtime!Mutations
  <2> QED BY <1>6, <2>2, <2>3 DEF Runtime!Write, Worsens
<1>7. CASE Runtime!WriteFails
  BY <1>7 DEF Runtime!WriteFails, Worsens, Rewrites, Detached
<1>8. CASE Runtime!RefreshWrites
  <2>1. Rewrites
    BY <1>1, <1>8 DEF Runtime!RefreshWrites, Rewrites, Runtime!Entries
  <2> QED BY <1>8, <2>1 DEF Runtime!RefreshWrites, Worsens, Detached
<1>9. CASE Runtime!RefreshMarks
  <2>1. Runtime!AuthFailed(refresh.at).enabled = FALSE
        /\ Runtime!AuthFailed(refresh.at).here = entry.here
    BY <1>1 DEF Runtime!AuthFailed, Runtime!Entries
  <2>2. Worsens
    BY <1>9, <2>1 DEF Runtime!RefreshMarks, Worsens
  <2> QED BY <1>9, <2>2 DEF Runtime!RefreshMarks, Rewrites, Detached
<1> QED BY <1>2, <1>3, <1>4, <1>5, <1>6, <1>7, <1>8, <1>9 DEF SideStep

\* How a call begins: others lose their solitude, and it has its own only when
\* there are none.
LEMMA BeginEffect ==
  ASSUME Runtime!TypeOK, NEW c \in DesktopCalls, Begins(c)
  PROVE  /\ ~InFlight(c) /\ InFlight(c)'
         /\ rtCall'[c].alone <=> \A e \in DesktopCalls \ {c} : ~InFlight(e)
         /\ \A d \in DesktopCalls \ {c} :
              /\ InFlight(d)' <=> InFlight(d)
              /\ InFlight(d) => ~rtCall'[d].alone
              /\ rtCall'[d] = [rtCall[d] EXCEPT !.alone = @ /\ ~InFlight(d)]
         /\ UNCHANGED <<batch, current, deleted>>
<1> USE DEF InFlight
<1>1. ASSUME NEW new \in Runtime!CallRecords, Runtime!Begin(c, new), new.pc \notin {"idle", "done"}
      PROVE  /\ InFlight(c)'
             /\ rtCall'[c].alone <=> \A e \in DesktopCalls \ {c} : ~InFlight(e)
             /\ \A d \in DesktopCalls \ {c} :
                  /\ InFlight(d)' <=> InFlight(d)
                  /\ InFlight(d) => ~rtCall'[d].alone
                  /\ rtCall'[d] = [rtCall[d] EXCEPT !.alone = @ /\ ~InFlight(d)]
  <2>1. rtCall'[c] = [new EXCEPT !.alone = \A e \in DesktopCalls \ {c} : ~Runtime!InFlight(e)]
    BY <1>1 DEF Runtime!Begin
  <2>2. /\ rtCall'[c].pc = new.pc
        /\ rtCall'[c].alone = \A e \in DesktopCalls \ {c} : ~Runtime!InFlight(e)
    BY <2>1 DEF Runtime!CallRecords
  <2>3. ASSUME NEW d \in DesktopCalls \ {c}
        PROVE  /\ rtCall'[d] = [rtCall[d] EXCEPT !.alone = @ /\ ~InFlight(d)]
               /\ rtCall'[d].pc = rtCall[d].pc
               /\ InFlight(d) => ~rtCall'[d].alone
    BY <1>1, CallFields DEF Runtime!Begin, Runtime!CallRecords
  <2> QED BY <1>1, <2>2, <2>3 DEF Runtime!InFlight
<1> USE NoCallTypes DEF Runtime!BackgroundUnchanged
<1>2. ASSUME NEW on \in BOOLEAN, Runtime!Toggle(c, on)
      PROVE  \E new \in Runtime!CallRecords : Runtime!Begin(c, new) /\ new.pc \notin {"idle", "done"}
  <2> DEFINE new == [Runtime!NoCall EXCEPT !.op = "toggle", !.pc = "cached", !.on = on,
                       !.version = version + 1, !.saved = entry, !.savedVersion = version]
  <2>1. new \in Runtime!CallRecords
    <3>1. version \in Nat /\ version + 1 \in Nat /\ entry \in Runtime!Entries
      BY DEF Runtime!TypeOK
    <3> QED BY <3>1, ToggleTypes
  <2>2. new.pc = "cached"
    BY DEF Runtime!NoCall
  <2>3. Runtime!Begin(c, new)
    BY <1>2 DEF Runtime!Toggle
  <2> HIDE DEF new
  <2> QED BY <2>1, <2>2, <2>3
<1>3. ASSUME NEW on \in BOOLEAN, Runtime!StartEdit(c, on)
      PROVE  \E new \in Runtime!CallRecords : Runtime!Begin(c, new) /\ new.pc \notin {"idle", "done"}
  <2> DEFINE new == [Runtime!NoCall EXCEPT !.op = "edit", !.pc = "seen", !.on = on,
               !.flips = (on # entry.enabled)]
  <2>1. new \in Runtime!CallRecords
    BY DEF Runtime!CallRecords, Runtime!Ops, Runtime!PCs
  <2>2. new.pc = "seen"
    BY DEF Runtime!NoCall
  <2>3. Runtime!Begin(c, new)
    BY <1>3 DEF Runtime!StartEdit
  <2> HIDE DEF new
  <2> QED BY <2>1, <2>2, <2>3
<1>4. ASSUME Runtime!Test(c)
      PROVE  \E new \in Runtime!CallRecords : Runtime!Begin(c, new) /\ new.pc \notin {"idle", "done"}
  <2> DEFINE new == [Runtime!NoCall EXCEPT !.op = "test", !.pc = "cached"]
  <2>1. new \in Runtime!CallRecords
    BY DEF Runtime!CallRecords, Runtime!Ops, Runtime!PCs
  <2>2. new.pc = "cached"
    BY DEF Runtime!NoCall
  <2>3. Runtime!Begin(c, new)
    BY <1>4 DEF Runtime!Test
  <2> HIDE DEF new
  <2> QED BY <2>1, <2>2, <2>3
<1>5. ASSUME Runtime!DeleteRow(c)
      PROVE  \E new \in Runtime!CallRecords : Runtime!Begin(c, new) /\ new.pc \notin {"idle", "done"}
  <2> DEFINE new == [Runtime!NoCall EXCEPT !.op = "delete", !.pc = "cached"]
  <2>1. new \in Runtime!CallRecords
    BY DEF Runtime!CallRecords, Runtime!Ops, Runtime!PCs
  <2>2. new.pc = "cached"
    BY DEF Runtime!NoCall
  <2>3. Runtime!Begin(c, new)
    BY <1>5 DEF Runtime!DeleteRow
  <2> HIDE DEF new
  <2> QED BY <2>1, <2>2, <2>3
<1>6. \E new \in Runtime!CallRecords : Runtime!Begin(c, new) /\ new.pc \notin {"idle", "done"}
  BY <1>2, <1>3, <1>4, <1>5 DEF Begins
<1>7. rtCall[c].pc = "idle"
  BY DEF Begins, Runtime!Toggle, Runtime!StartEdit, Runtime!Test, Runtime!DeleteRow
<1>8. UNCHANGED <<batch, current, deleted>>
  BY DEF Begins, Runtime!Toggle, Runtime!StartEdit, Runtime!Test, Runtime!DeleteRow
<1> QED BY <1>1, <1>6, <1>7, <1>8 DEF Runtime!InFlight

\* How one goes on: it changes its own record only, and stays alone or not.
LEMMA ContinueEffect ==
  ASSUME Runtime!TypeOK, NEW c \in DesktopCalls, Continues(c)
  PROVE  /\ InFlight(c)
         /\ InFlight(c)' => rtCall'[c].alone = rtCall[c].alone /\ rtCall'[c].op = rtCall[c].op
         /\ \A d \in DesktopCalls \ {c} : rtCall'[d] = rtCall[d]
         /\ Holding(c)' => Runtime!FlipForEdit(c)
         /\ UNCHANGED <<batch, current>>
<1> DEFINE Goal == /\ InFlight(c)
                   /\ InFlight(c)' => rtCall'[c].alone = rtCall[c].alone /\ rtCall'[c].op = rtCall[c].op
                   /\ \A d \in DesktopCalls \ {c} : rtCall'[d] = rtCall[d]
                   /\ Holding(c)' => Runtime!FlipForEdit(c)
                   /\ UNCHANGED <<batch, current>>
<1> USE DEF InFlight, Runtime!InFlight, Runtime!BackgroundUnchanged
<1>c. rtCall \in [DesktopCalls -> Runtime!CallRecords] /\ rtCall[c] \in Runtime!CallRecords
  BY CallFields DEF Runtime!TypeOK
<1>f. Runtime!Finished.pc = "done"
  BY DEF Runtime!Finished, Runtime!NoCall
<1>d. ASSUME NEW r, rtCall' = [rtCall EXCEPT ![c] = r], UNCHANGED <<batch, current>>,
             rtCall[c].pc \notin {"idle", "done"},
             r.pc # "cached",
             r.pc # "done" => r.alone = rtCall[c].alone /\ r.op = rtCall[c].op
      PROVE  Goal
  <2>1. rtCall'[c] = r /\ \A d \in DesktopCalls \ {c} : rtCall'[d] = rtCall[d]
    BY <1>c, <1>d
  <2> QED BY <1>d, <2>1 DEF Holding
<1>p. ASSUME NEW p
      PROVE  LET r == [rtCall[c] EXCEPT !.pc = p]
             IN  r.pc = p /\ r.alone = rtCall[c].alone /\ r.op = rtCall[c].op
  BY <1>c DEF Runtime!CallRecords
<1>0. ASSUME Runtime!FlipForEdit(c)
      PROVE  Goal
  <2>1. rtCall[c].pc = "read" /\ UNCHANGED <<batch, current>>
    BY <1>0 DEF Runtime!FlipForEdit
  <2>2. \A d \in DesktopCalls \ {c} : rtCall'[d] = rtCall[d]
    BY <1>c, <1>0 DEF Runtime!FlipForEdit
  <2>3. rtCall'[c].pc # "done" => rtCall'[c].alone = rtCall[c].alone /\ rtCall'[c].op = rtCall[c].op
    BY <1>c, <1>f, <1>0 DEF Runtime!FlipForEdit, Runtime!CallRecords
  <2> QED BY <1>0, <2>1, <2>2, <2>3
<1> HIDE DEF Goal
<1>1. ASSUME Runtime!CommitToggle(c)
      PROVE  Goal
  BY <1>1, <1>d, <1>f DEF Runtime!CommitToggle
<1>2. ASSUME Runtime!AbortToggle(c)
      PROVE  Goal
  <2> DEFINE r == [Runtime!NoCall EXCEPT !.op = "toggle", !.alone = rtCall[c].alone, !.pc = "reload"]
  <2>1. r.pc = "reload" /\ r.alone = rtCall[c].alone /\ r.op = "toggle"
    BY DEF Runtime!NoCall
  <2>2. \/ rtCall' = [rtCall EXCEPT ![c] = Runtime!Finished]
        \/ rtCall' = [rtCall EXCEPT ![c] = r]
    BY <1>2 DEF Runtime!AbortToggle
  <2> HIDE DEF r
  <2>3. rtCall[c].op = "toggle" /\ rtCall[c].pc = "cached" /\ UNCHANGED <<batch, current>>
    BY <1>2 DEF Runtime!AbortToggle
  <2> QED BY <1>d, <1>f, <2>1, <2>2, <2>3
<1>3. ASSUME Runtime!ReadRow(c)
      PROVE  Goal
  <2> DEFINE r == [Runtime!NoCall EXCEPT !.op = rtCall[c].op, !.alone = rtCall[c].alone, !.pc = "loaded",
                               !.read = rtRow]
  <2>1. r.pc = "loaded" /\ r.alone = rtCall[c].alone /\ r.op = rtCall[c].op
    BY DEF Runtime!NoCall
  <2>2. rtCall' = [rtCall EXCEPT ![c] = r] /\ rtCall[c].pc = "reload" /\ UNCHANGED <<batch, current>>
    BY <1>3 DEF Runtime!ReadRow
  <2> HIDE DEF r
  <2> QED BY <1>d, <2>1, <2>2
<1>4. ASSUME Runtime!Reload(c)
      PROVE  Goal
  BY <1>4, <1>d, <1>f DEF Runtime!Reload
<1>5. ASSUME Runtime!ReadForEdit(c)
      PROVE  Goal
  <2> DEFINE r == [rtCall[c] EXCEPT !.pc = "read", !.read = rtRow]
  <2>1. r.pc = "read" /\ r.alone = rtCall[c].alone /\ r.op = rtCall[c].op
    BY <1>c DEF Runtime!CallRecords
  <2>2. \/ rtCall' = [rtCall EXCEPT ![c] = Runtime!Finished]
        \/ rtCall' = [rtCall EXCEPT ![c] = r]
    BY <1>5 DEF Runtime!ReadForEdit
  <2> HIDE DEF r
  <2>3. rtCall[c].pc = "seen" /\ UNCHANGED <<batch, current>>
    BY <1>5 DEF Runtime!ReadForEdit
  <2> QED BY <1>d, <1>f, <2>1, <2>2, <2>3
<1>7. ASSUME Runtime!CommitEdit(c)
      PROVE  Goal
  BY <1>7, <1>d, <1>f, <1>p DEF Runtime!CommitEdit
<1>8. ASSUME Runtime!AbortEdit(c)
      PROVE  Goal
  BY <1>8, <1>d, <1>f DEF Runtime!AbortEdit
<1>9. ASSUME Runtime!CommitTest(c)
      PROVE  Goal
  BY <1>9, <1>d, <1>f DEF Runtime!CommitTest
<1>10. ASSUME Runtime!AbortTest(c)
      PROVE  Goal
  <2> DEFINE r == [rtCall[c] EXCEPT !.pc = "reload"]
  <2>1. r.pc = "reload" /\ r.alone = rtCall[c].alone /\ r.op = rtCall[c].op
    BY <1>p
  <2>2. rtCall' = [rtCall EXCEPT ![c] = r] /\ rtCall[c].pc \notin {"idle", "done"}
        /\ UNCHANGED <<batch, current>>
    BY <1>10, <1>c DEF Runtime!AbortTest
  <2> HIDE DEF r
  <2> QED BY <1>d, <2>1, <2>2
<1>11. ASSUME Runtime!DropPending(c)
      PROVE  Goal
  <2> DEFINE r == [rtCall[c] EXCEPT !.pc = "forget"]
  <2>1. r.pc = "forget" /\ r.alone = rtCall[c].alone /\ r.op = rtCall[c].op
    BY <1>p
  <2>2. rtCall' = [rtCall EXCEPT ![c] = r] /\ rtCall[c].pc \notin {"idle", "done"}
        /\ UNCHANGED <<batch, current>>
    BY <1>11, <1>c DEF Runtime!DropPending
  <2> HIDE DEF r
  <2> QED BY <1>d, <2>1, <2>2
<1>12. ASSUME Runtime!Forget(c)
      PROVE  Goal
  BY <1>12, <1>d, <1>f DEF Runtime!Forget
<1>13. Goal
  BY <1>1, <1>2, <1>3, <1>4, <1>5, <1>0, <1>7, <1>8, <1>9, <1>10, <1>11, <1>12 DEF Continues
<1> QED BY <1>13 DEF Goal

LEMMA RuntimeSteps ==
  ASSUME Runtime!Next
  PROVE  SideStep \/ (\E c \in DesktopCalls : Begins(c) \/ Continues(c)) \/ Runtime!Restart
BY DEF Runtime!Next, Runtime!UserStep, SideStep, Begins, Continues

LEMMA RestartEffect ==
  ASSUME Runtime!TypeOK, Runtime!Restart
  PROVE  /\ \A c \in DesktopCalls : ~InFlight(c)'
         /\ entry' = rtRow /\ rtRow' = rtRow /\ lastFail' = 0 /\ current' = FALSE
         /\ off' = off /\ deleted' = deleted
<1>1. ASSUME NEW c \in DesktopCalls
      PROVE  ~InFlight(c)'
  <2>1. rtCall'[c] = IF rtCall[c].pc \notin {"idle", "done"} THEN Runtime!Finished ELSE rtCall[c]
    BY DEF Runtime!Restart, Runtime!InFlight
  <2>2. Runtime!Finished.pc = "done"
    BY DEF Runtime!Finished, Runtime!NoCall
  <2> QED BY <2>1, <2>2 DEF InFlight, Runtime!InFlight
<1> QED BY <1>1 DEF Runtime!Restart

LEMMA FlipEffect ==
  ASSUME Runtime!TypeOK, NEW c \in DesktopCalls, NEW on \in BOOLEAN, Runtime!Flip(c, on)
  PROVE  /\ version' = version + 1 /\ entry'.here = entry.here
         /\ on => entry'.enabled /\ ~Runtime!Blocked(entry')
         /\ ~on => ~entry'.enabled /\ entry'.state = entry.state
<1>1. entry \in Runtime!Entries
  BY DEF Runtime!TypeOK
<1> QED BY <1>1 DEF Runtime!Flip, Runtime!Activated, Runtime!Entries, Runtime!Blocked

\* The calls after a Toggle and a FlipForEdit that changes the cache.
LEMMA ToggleEffect ==
  ASSUME Runtime!TypeOK, NEW c \in DesktopCalls, NEW on \in BOOLEAN, Runtime!Toggle(c, on)
  PROVE  /\ rtCall'[c].on = on /\ rtCall'[c].saved = entry /\ rtCall'[c].version = version + 1
         /\ rtCall'[c].read = Runtime!NoEntry /\ rtCall'[c].pc = "cached"
         /\ rtCall'[c].op = "toggle"
<1>1. rtCall'[c] = [[Runtime!NoCall EXCEPT !.op = "toggle", !.pc = "cached", !.on = on,
         !.version = version + 1, !.saved = entry, !.savedVersion = version]
           EXCEPT !.alone = \A e \in DesktopCalls \ {c} : ~Runtime!InFlight(e)]
  BY DEF Runtime!Toggle, Runtime!Begin
<1> QED BY <1>1 DEF Runtime!NoCall

LEMMA FlipForEditEffect ==
  ASSUME Runtime!TypeOK, NEW c \in DesktopCalls, Runtime!FlipForEdit(c), Holding(c)'
  PROVE  /\ rtCall[c].flips /\ entry.here /\ Runtime!Flip(c, rtCall[c].on)
         /\ rtCall'[c].on = rtCall[c].on /\ rtCall'[c].saved = entry
         /\ rtCall'[c].version = version + 1 /\ rtCall'[c].read = rtCall[c].read
<1>1. rtCall[c] \in Runtime!CallRecords /\ rtCall \in [DesktopCalls -> Runtime!CallRecords]
  BY CallFields DEF Runtime!TypeOK
<1>2. rtCall[c].op = "edit" /\ rtCall[c].pc = "read"
  BY DEF Runtime!FlipForEdit
<1>3. rtCall[c].flips
  <2>1. CASE ~rtCall[c].flips
    <3>1. rtCall'[c] = [rtCall[c] EXCEPT !.pc = "cached"]
      BY <1>1, <2>1 DEF Runtime!FlipForEdit
    <3>2. rtCall'[c].op = "edit" /\ rtCall'[c].flips = rtCall[c].flips
      BY <1>1, <1>2, <3>1 DEF Runtime!CallRecords
    <3> QED BY <2>1, <3>2 DEF Holding
  <2> QED BY <2>1
<1>4. entry.here
  <2>1. CASE ~entry.here
    <3>1. rtCall'[c].pc = "done"
      BY <1>1, <1>3, <2>1 DEF Runtime!FlipForEdit, Runtime!Finished, Runtime!NoCall
    <3> QED BY <3>1 DEF Holding
  <2> QED BY <2>1
<1>5. rtCall'[c] = [rtCall[c] EXCEPT !.pc = "cached", !.version = version + 1,
                                      !.saved = entry, !.savedVersion = version]
  BY <1>1, <1>3, <1>4 DEF Runtime!FlipForEdit, Runtime!CallRecords
<1> QED BY <1>1, <1>3, <1>4, <1>5 DEF Runtime!FlipForEdit, Runtime!CallRecords

LEMMA AloneStep ==
  ASSUME Runtime!TypeOK, Detached, AloneIsAlone, Runtime!Next
  PROVE  AloneIsAlone' /\ Detached'
<1>1. CASE SideStep
  BY <1>1, SideEffect DEF AloneIsAlone, InFlight, Runtime!InFlight
<1>2. ASSUME NEW c \in DesktopCalls, Begins(c)
      PROVE  AloneIsAlone' /\ Detached'
  <2>1. ASSUME NEW x \in DesktopCalls, NEW y \in DesktopCalls, InFlight(x)', rtCall'[x].alone, y # x
        PROVE  ~InFlight(y)'
    <3>1. CASE x = c
      BY <1>2, <2>1, <3>1, BeginEffect
    <3>2. CASE x # c
      BY <1>2, <2>1, <3>2, BeginEffect
    <3> QED BY <3>1, <3>2
  <2> QED BY <1>2, <2>1, BeginEffect DEF AloneIsAlone, Detached
<1>3. ASSUME NEW c \in DesktopCalls, Continues(c)
      PROVE  AloneIsAlone' /\ Detached'
  <2>1. ASSUME NEW x \in DesktopCalls, NEW y \in DesktopCalls, InFlight(x)', rtCall'[x].alone, y # x
        PROVE  ~InFlight(y)'
    <3>1. \A d \in DesktopCalls \ {c} : InFlight(d)' = InFlight(d) /\ rtCall'[d].alone = rtCall[d].alone
      BY <1>3, ContinueEffect DEF InFlight, Runtime!InFlight
    <3>2. InFlight(c) /\ (InFlight(c)' => rtCall'[c].alone = rtCall[c].alone)
      BY <1>3, ContinueEffect
    <3>3. InFlight(x) /\ rtCall[x].alone
      BY <2>1, <3>1, <3>2
    <3>4. ~InFlight(y)
      BY <2>1, <3>3 DEF AloneIsAlone
    <3> QED BY <3>1, <3>2, <3>4
  <2> QED BY <1>3, <2>1, ContinueEffect DEF AloneIsAlone, Detached
<1>4. CASE Runtime!Restart
  BY <1>4, RestartEffect DEF AloneIsAlone, Detached
<1> QED BY <1>1, <1>2, <1>3, <1>4, RuntimeSteps

LEMMA DatedStep ==
  ASSUME Runtime!TypeOK, Detached, HeldIsOld, FailureIsDated, AloneIsAlone, Runtime!Next
  PROVE  FailureIsDated'
<1>t. entry \in Runtime!Entries /\ rtNow \in Nat /\ rtRow \in Runtime!Entries
  BY Numbers DEF Runtime!TypeOK
<1>f. ASSUME NEW c \in DesktopCalls, NEW on \in BOOLEAN, Runtime!Flip(c, on)
      PROVE  FailureIsDated'
  BY <1>f, FlipEffect DEF FailureIsDated, Runtime!Blocked
<1>1. CASE SideStep
  BY <1>1, SideEffect DEF Worsens, FailureIsDated, Runtime!Blocked
<1>2. ASSUME NEW c \in DesktopCalls, Begins(c)
      PROVE  FailureIsDated'
  <2>1. ASSUME NEW on \in BOOLEAN, Runtime!Toggle(c, on)
        PROVE  FailureIsDated'
    BY <1>f, <2>1 DEF Runtime!Toggle
  <2>2. CASE Runtime!Test(c)
    BY <1>t, <2>2 DEF Runtime!Test, Runtime!Activated, Runtime!Entries, FailureIsDated, Runtime!Blocked
  <2>3. CASE Runtime!DeleteRow(c)
    BY <2>3 DEF Runtime!DeleteRow, FailureIsDated, Runtime!Blocked
  <2>4. ASSUME NEW on \in BOOLEAN, Runtime!StartEdit(c, on)
        PROVE  FailureIsDated'
    BY <2>4 DEF Runtime!StartEdit, FailureIsDated, Runtime!Blocked
  <2> QED BY <1>2, <2>1, <2>2, <2>3, <2>4 DEF Begins
<1>z. entry' \in Runtime!Entries /\ lastFail' = 0 => FailureIsDated'
  BY DEF FailureIsDated, Runtime!Entries
<1>s. UNCHANGED <<entry, lastFail>> => FailureIsDated'
  BY DEF FailureIsDated, Runtime!Blocked
<1>3. ASSUME NEW c \in DesktopCalls, Continues(c)
      PROVE  FailureIsDated'
  <2>1. rtCall[c].saved \in Runtime!Entries /\ rtCall[c].read \in Runtime!Entries /\ rtCall[c].on \in BOOLEAN
    BY CallFields
  <2>2. ASSUME Holding(c), version = rtCall[c].version, Runtime!Restore(c)
        PROVE  FailureIsDated'
    <3>1. CASE rtCall[c].alone
      BY <2>1, <2>2, <3>1 DEF Runtime!Restore, HeldIsOld, FailureIsDated, Runtime!Blocked
    <3>2. CASE ~rtCall[c].alone
      BY <1>z, <2>1, <2>2, <3>2 DEF Runtime!Restore
    <3> QED BY <3>1, <3>2
  <2>3. CASE Runtime!AbortToggle(c)
    <3>1. Holding(c)
      BY <2>3 DEF Runtime!AbortToggle, Holding, InFlight, Runtime!InFlight
    <3> QED BY <2>2, <2>3, <3>1, <1>s DEF Runtime!AbortToggle, Runtime!Untouched
  <2>4. CASE Runtime!AbortEdit(c)
    <3>1. rtCall[c].flips => Holding(c)
      BY <2>4 DEF Runtime!AbortEdit, Holding, InFlight, Runtime!InFlight
    <3> QED BY <2>2, <2>4, <3>1, <1>s DEF Runtime!AbortEdit, Runtime!Untouched
  <2>5. CASE Runtime!Reload(c)
    BY <1>z, <2>1, <2>5 DEF Runtime!Reload
  <2>6. CASE Runtime!Forget(c)
    BY <2>6, NoCallTypes DEF Runtime!Forget, Runtime!NoEntry, FailureIsDated
  <2>7. CASE Runtime!FlipForEdit(c)
    BY <1>f, <1>s, <2>1, <2>7 DEF Runtime!FlipForEdit
  <2>8. CASE Runtime!CommitToggle(c) \/ Runtime!ReadRow(c) \/ Runtime!ReadForEdit(c)
    BY <1>s, <2>8 DEF Runtime!CommitToggle, Runtime!ReadRow, Runtime!ReadForEdit
  <2>9. CASE Runtime!CommitEdit(c) \/ Runtime!CommitTest(c) \/ Runtime!AbortTest(c) \/ Runtime!DropPending(c)
    BY <1>s, <2>9 DEF Runtime!CommitEdit, Runtime!CommitTest, Runtime!AbortTest, Runtime!DropPending
  <2> QED BY <1>3, <2>3, <2>4, <2>5, <2>6, <2>7, <2>8, <2>9 DEF Continues
<1>4. CASE Runtime!Restart
  BY <1>t, <1>z, <1>4, RestartEffect
<1> QED BY <1>1, <1>2, <1>3, <1>4, RuntimeSteps

LEMMA HeldStep ==
  ASSUME Runtime!TypeOK, Detached, HeldIsOld, FailureIsDated, AloneIsAlone, Runtime!Next
  PROVE  HeldIsOld'
<1>t. entry \in Runtime!Entries /\ version \in Nat
  BY DEF Runtime!TypeOK
<1> DEFINE Old(c) ==
      /\ version >= rtCall[c].version
      /\ version = rtCall[c].version =>
           /\ Runtime!Blocked(entry) => Runtime!Blocked(rtCall[c].saved)
           /\ rtCall[c].saved.enabled /\ Runtime!Blocked(rtCall[c].saved) =>
                lastFail <= rtCall[c].saved.updated
<1>f. ASSUME NEW c \in DesktopCalls, NEW on \in BOOLEAN, Runtime!Flip(c, on), lastFail' = lastFail,
             rtCall'[c].version = version + 1, rtCall'[c].saved = entry
      PROVE  Old(c)'
  <2>1. version' = version + 1 /\ (Runtime!Blocked(entry)' => Runtime!Blocked(entry))
    BY <1>f, FlipEffect DEF Runtime!Blocked
  <2> QED BY <1>f, <1>t, <2>1 DEF FailureIsDated, Runtime!Blocked
<1>1. CASE SideStep
  <2>1. rtCall' = rtCall /\ Worsens
    BY <1>1, SideEffect
  <2>2. ASSUME NEW c \in DesktopCalls, Old(c)
        PROVE  Old(c)'
    <3>1. rtCall[c].version \in Nat
      BY CallFields
    <3>2. CASE UNCHANGED <<entry, version, lastFail>>
      BY <2>1, <2>2, <3>2 DEF Runtime!Blocked
    <3>3. CASE version' = version + 1
      BY <1>t, <2>1, <2>2, <3>1, <3>3
    <3> QED BY <2>1, <3>2, <3>3 DEF Worsens
  <2> QED BY <2>1, <2>2 DEF HeldIsOld, Holding, InFlight, Runtime!InFlight
<1>2. ASSUME NEW c \in DesktopCalls, Begins(c)
      PROVE  HeldIsOld'
  <2>1. ASSUME NEW d \in DesktopCalls, Holding(d)', rtCall'[d].alone
        PROVE  d = c
    BY <1>2, <2>1, BeginEffect DEF Holding
  <2>2. ASSUME Holding(c)'
        PROVE  \E on \in BOOLEAN : Runtime!Toggle(c, on)
    <3>1. ASSUME NEW on \in BOOLEAN, Runtime!StartEdit(c, on)
          PROVE  rtCall'[c].pc = "seen"
      BY <3>1 DEF Runtime!StartEdit, Runtime!Begin, Runtime!NoCall
    <3>2. ASSUME Runtime!Test(c)
          PROVE  rtCall'[c].op = "test"
      BY <3>2 DEF Runtime!Test, Runtime!Begin, Runtime!NoCall
    <3>3. ASSUME Runtime!DeleteRow(c)
          PROVE  rtCall'[c].op = "delete"
      BY <3>3 DEF Runtime!DeleteRow, Runtime!Begin, Runtime!NoCall
    <3> QED BY <1>2, <2>2, <3>1, <3>2, <3>3 DEF Begins, Holding
  <2>3. ASSUME NEW on \in BOOLEAN, Runtime!Toggle(c, on)
        PROVE  Old(c)'
    <3>1. Runtime!Flip(c, on) /\ lastFail' = lastFail
      BY <2>3 DEF Runtime!Toggle
    <3> QED BY <1>f, <2>3, <3>1, ToggleEffect
  <2> QED BY <2>1, <2>2, <2>3 DEF HeldIsOld
<1>3. ASSUME NEW c \in DesktopCalls, Continues(c)
      PROVE  HeldIsOld'
  <2>1. ASSUME NEW d \in DesktopCalls, Holding(d)', rtCall'[d].alone
        PROVE  d = c
    BY <1>3, <2>1, ContinueEffect DEF Holding, AloneIsAlone, InFlight, Runtime!InFlight
  <2>2. ASSUME Holding(c)'
        PROVE  Old(c)'
    <3>1. Runtime!FlipForEdit(c)
      BY <1>3, <2>2, ContinueEffect
    <3>2. lastFail' = lastFail
      BY <3>1 DEF Runtime!FlipForEdit
    <3> QED BY <1>f, <2>2, <3>1, <3>2, FlipForEditEffect, CallFields
  <2> QED BY <2>1, <2>2 DEF HeldIsOld
<1>4. CASE Runtime!Restart
  BY <1>4, RestartEffect DEF HeldIsOld, Holding
<1> QED BY <1>1, <1>2, <1>3, <1>4, RuntimeSteps

LEMMA EnablesStep ==
  ASSUME Runtime!TypeOK, Detached, AloneIsAlone, NothingEnables, Runtime!Next
  PROVE  NothingEnables'
<1>t. entry \in Runtime!Entries /\ rtRow \in Runtime!Entries
  BY DEF Runtime!TypeOK
<1> DEFINE Quiet(c) ==
      InFlight(c) =>
        /\ rtCall[c].pc \in {"seen", "read", "cached"} => ~rtCall[c].on
        /\ Holding(c) => ~rtCall[c].saved.enabled
        /\ rtCall[c].pc \in {"read", "cached", "loaded"} => ~rtCall[c].read.enabled
<1> DEFINE Switched(c) == Holding(c) /\ rtCall[c].alone /\ ~rtCall[c].on => ~entry.enabled
<1>g. NothingEnables <=> /\ off => /\ ~entry.enabled /\ ~rtRow.enabled
                                   /\ \A c \in DesktopCalls : Quiet(c)
                         /\ \A c \in DesktopCalls : Switched(c)
  BY DEF NothingEnables
<1>h. NothingEnables' <=> /\ off' => /\ ~entry'.enabled /\ ~rtRow'.enabled
                                     /\ \A c \in DesktopCalls : Quiet(c)'
                          /\ \A c \in DesktopCalls : Switched(c)'
  BY DEF NothingEnables
<1>1. CASE SideStep
  <2>1. rtCall' = rtCall /\ off' = off /\ (entry'.enabled => entry.enabled)
        /\ (rtRow'.enabled => rtRow.enabled)
    BY <1>1, SideEffect DEF Worsens, Rewrites
  <2> QED BY <1>g, <1>h, <2>1 DEF Holding, InFlight, Runtime!InFlight
<1>2. ASSUME NEW c \in DesktopCalls, Begins(c)
      PROVE  NothingEnables'
  <2>1. ASSUME NEW d \in DesktopCalls \ {c}
        PROVE  Quiet(d) => Quiet(d)'
    <3>1. /\ rtCall'[d].pc = rtCall[d].pc /\ rtCall'[d].on = rtCall[d].on
          /\ rtCall'[d].saved = rtCall[d].saved /\ rtCall'[d].read = rtCall[d].read
          /\ rtCall'[d].op = rtCall[d].op /\ rtCall'[d].flips = rtCall[d].flips
      <4>1. rtCall[d] \in Runtime!CallRecords
        BY CallFields
      <4>2. rtCall'[d] = [rtCall[d] EXCEPT !.alone = @ /\ ~InFlight(d)]
        BY <1>2, BeginEffect
      <4> QED BY <4>1, <4>2 DEF Runtime!CallRecords
    <3> QED BY <3>1 DEF Holding, InFlight, Runtime!InFlight
  <2>2. ASSUME NEW d \in DesktopCalls \ {c}
        PROVE  Switched(d)'
    BY <1>2, BeginEffect DEF Holding
  <2>3. ASSUME NEW on \in BOOLEAN, Runtime!Toggle(c, on)
        PROVE  NothingEnables'
    <3>1. Runtime!Flip(c, on) /\ off' = (off /\ ~on) /\ rtRow' = rtRow
      BY <2>3 DEF Runtime!Toggle
    <3>2. ~on => ~entry'.enabled
      BY <3>1, FlipEffect
    <3>3. Runtime!NoEntry.enabled = FALSE
      BY DEF Runtime!NoEntry
    <3>4. off' => Quiet(c)'
      BY <1>g, <2>3, <3>1, <3>3, ToggleEffect
    <3>5. Switched(c)'
      BY <2>3, <3>2, ToggleEffect
    <3>6. off' => off /\ ~on
      BY <3>1
    <3> QED BY <1>g, <1>h, <2>1, <2>2, <3>1, <3>2, <3>4, <3>5, <3>6
  <2>4. ASSUME NEW on \in BOOLEAN, Runtime!StartEdit(c, on)
        PROVE  NothingEnables'
    <3>1. UNCHANGED <<entry, rtRow>> /\ off' = (off /\ ~on)
      BY <2>4 DEF Runtime!StartEdit
    <3>2. rtCall'[c].pc = "seen" /\ rtCall'[c].on = on
      BY <2>4 DEF Runtime!StartEdit, Runtime!Begin, Runtime!NoCall
    <3>3. (off' => Quiet(c)') /\ Switched(c)'
      BY <3>1, <3>2 DEF Holding
    <3>4. off' => off /\ ~on
      BY <3>1
    <3> QED BY <1>g, <1>h, <2>1, <2>2, <3>1, <3>3, <3>4
  <2>5. ASSUME Runtime!Test(c)
        PROVE  NothingEnables'
    <3>1. entry'.enabled = entry.enabled /\ rtRow' = rtRow /\ off' = off
      BY <1>t, <2>5 DEF Runtime!Test, Runtime!Activated, Runtime!Entries
    <3>2. rtCall'[c].op = "test" /\ rtCall'[c].on = FALSE /\ rtCall'[c].read.enabled = FALSE
      BY <2>5 DEF Runtime!Test, Runtime!Begin, Runtime!NoCall, Runtime!NoEntry
    <3>3. Quiet(c)' /\ Switched(c)'
      BY <3>2 DEF Holding
    <3> QED BY <1>g, <1>h, <2>1, <2>2, <3>1, <3>3
  <2>6. ASSUME Runtime!DeleteRow(c)
        PROVE  NothingEnables'
    <3>1. entry' = entry /\ rtRow'.enabled = FALSE /\ off' = off
      BY <2>6 DEF Runtime!DeleteRow, Runtime!NoEntry
    <3>2. rtCall'[c].op = "delete" /\ rtCall'[c].on = FALSE /\ rtCall'[c].read.enabled = FALSE
      BY <2>6 DEF Runtime!DeleteRow, Runtime!Begin, Runtime!NoCall, Runtime!NoEntry
    <3>3. Quiet(c)' /\ Switched(c)'
      BY <3>2 DEF Holding
    <3> QED BY <1>g, <1>h, <2>1, <2>2, <3>1, <3>3
  <2> QED BY <1>2, <2>3, <2>4, <2>5, <2>6 DEF Begins
<1>3. ASSUME NEW c \in DesktopCalls, Continues(c)
      PROVE  NothingEnables'
  <2>c. rtCall[c] \in Runtime!CallRecords /\ rtCall \in [DesktopCalls -> Runtime!CallRecords]
    BY CallFields DEF Runtime!TypeOK
  <2>1. InFlight(c) /\ \A d \in DesktopCalls \ {c} : rtCall'[d] = rtCall[d]
    BY <1>3, ContinueEffect
  <2>2. \A d \in DesktopCalls \ {c} : Quiet(d) => Quiet(d)'
    BY <2>1 DEF Holding, InFlight, Runtime!InFlight
  <2>3. \A d \in DesktopCalls \ {c} : ~(Holding(d)' /\ rtCall'[d].alone)
    BY <2>1 DEF AloneIsAlone, Holding, InFlight, Runtime!InFlight
  <2>4. \A d \in DesktopCalls \ {c} : Switched(d)'
    BY <2>3
  <2>5. rtCall[c].alone => \A d \in DesktopCalls \ {c} : ~InFlight(d)'
    BY <2>1 DEF AloneIsAlone, InFlight, Runtime!InFlight
  \* A call that ends or reads again leaves nothing behind.
  <2>6. ASSUME rtCall'[c].pc \in {"done", "reload", "forget"}, off' => off,
               off => ~entry'.enabled /\ ~rtRow'.enabled
        PROVE  NothingEnables'
    <3>1. Quiet(c)' /\ Switched(c)'
      BY <2>6 DEF Holding
    <3> QED BY <1>g, <1>h, <2>2, <2>4, <2>6, <3>1
  <2>f. Runtime!Finished.pc = "done"
    BY DEF Runtime!Finished, Runtime!NoCall
  <2>7. CASE Runtime!CommitToggle(c)
    <3>1. /\ rtCall'[c].pc = "done" /\ entry' = entry /\ off' = (off \/ (~rtCall[c].on /\ rtCall[c].alone))
          /\ Holding(c) /\ rtRow' = Runtime!Toggled(rtCall[c].on)
      BY <2>1, <2>7, <2>c, <2>f DEF Runtime!CommitToggle, Holding
    <3>2. ~rtCall[c].on => ~rtRow'.enabled
      BY <1>t, <3>1 DEF Runtime!Toggled, Runtime!Entries
    <3>3. CASE off
      <4>1. ~rtCall[c].on
        BY <1>g, <3>1, <3>3, <2>1 DEF Holding
      <4> QED BY <1>g, <2>6, <3>1, <3>2, <3>3, <4>1
    <3>4. CASE ~off /\ off'
      <4>1. ~rtCall[c].on /\ rtCall[c].alone
        BY <3>1, <3>4
      <4>2. ~entry'.enabled /\ ~rtRow'.enabled
        BY <1>g, <3>1, <3>2, <4>1
      <4>3. \A d \in DesktopCalls : Quiet(d)' /\ Switched(d)'
        BY <2>4, <2>5, <3>1, <4>1, <4>2 DEF Holding, InFlight, Runtime!InFlight
      <4> QED BY <1>h, <4>2, <4>3
    <3>5. CASE ~off /\ ~off'
      BY <2>6, <3>1, <3>5
    <3> QED BY <3>3, <3>4, <3>5
  <2>8. CASE Runtime!AbortToggle(c)
    <3>1. rtCall'[c].pc \in {"done", "reload"} /\ off' = off /\ rtRow' = rtRow /\ Holding(c)
      BY <2>1, <2>8, <2>c, <2>f DEF Runtime!AbortToggle, Runtime!NoCall, Holding
    <3>2. entry' \in {entry, rtCall[c].saved}
      BY <2>8 DEF Runtime!AbortToggle, Runtime!Restore
    <3> QED BY <1>g, <2>1, <2>6, <3>1, <3>2
  <2>9. CASE Runtime!AbortEdit(c)
    <3>1. rtCall'[c].pc = "done" /\ off' = off /\ rtRow' = rtRow
      BY <2>9, <2>c, <2>f DEF Runtime!AbortEdit
    <3>2. \/ entry' = entry
          \/ Holding(c) /\ entry' = rtCall[c].saved
      <4>1. CASE rtCall[c].flips /\ Runtime!Untouched(c)
        BY <2>1, <2>9, <4>1 DEF Runtime!AbortEdit, Runtime!Restore, Holding
      <4>2. CASE ~(rtCall[c].flips /\ Runtime!Untouched(c))
        BY <2>9, <4>2 DEF Runtime!AbortEdit
      <4> QED BY <4>1, <4>2
    <3> QED BY <1>g, <2>1, <2>6, <3>1, <3>2
  <2>10. CASE Runtime!Reload(c)
    <3>1. rtCall[c].pc = "loaded" /\ rtCall'[c].pc = "done" /\ off' = off /\ rtRow' = rtRow
          /\ entry' = rtCall[c].read
      BY <2>10, <2>c, <2>f DEF Runtime!Reload
    <3> QED BY <1>g, <2>1, <2>6, <3>1
  <2>11. CASE Runtime!Forget(c)
    <3>1. rtCall'[c].pc = "done" /\ off' = off /\ rtRow' = rtRow /\ ~entry'.enabled
      BY <2>11, <2>c, <2>f DEF Runtime!Forget, Runtime!NoEntry
    <3> QED BY <1>g, <2>6, <3>1
  <2>12. CASE Runtime!CommitTest(c)
    <3>1. rtCall'[c].pc = "done" /\ off' = off /\ entry' = entry /\ (rtRow'.enabled => rtRow.enabled)
      BY <1>t, <2>12, <2>c, <2>f DEF Runtime!CommitTest, Runtime!Entries
    <3> QED BY <1>g, <2>6, <3>1
  <2>13. CASE Runtime!AbortTest(c) \/ Runtime!DropPending(c)
    <3>1. rtCall'[c].pc \in {"reload", "forget"} /\ off' = off /\ entry' = entry /\ rtRow' = rtRow
      BY <2>13, <2>c DEF Runtime!AbortTest, Runtime!DropPending, Runtime!CallRecords
    <3> QED BY <1>g, <2>6, <3>1
  <2>14. CASE Runtime!ReadRow(c)
    <3>1. /\ rtCall'[c].pc = "loaded" /\ rtCall'[c].read = rtRow
          /\ off' = off /\ entry' = entry /\ rtRow' = rtRow
      BY <2>14, <2>c DEF Runtime!ReadRow, Runtime!NoCall
    <3>2. (off' => Quiet(c)') /\ Switched(c)'
      BY <1>g, <3>1 DEF Holding
    <3> QED BY <1>g, <1>h, <2>2, <2>4, <3>1, <3>2
  <2>15. CASE Runtime!ReadForEdit(c)
    <3>1. off' = off /\ entry' = entry /\ rtRow' = rtRow /\ rtCall[c].pc = "seen"
      BY <2>15 DEF Runtime!ReadForEdit
    <3>2. \/ rtCall'[c].pc = "done"
          \/ rtCall'[c].pc = "read" /\ rtCall'[c].read = rtRow /\ rtCall'[c].on = rtCall[c].on
      BY <2>15, <2>c, <2>f DEF Runtime!ReadForEdit, Runtime!CallRecords
    <3>3. (off' => Quiet(c)') /\ Switched(c)'
      BY <1>g, <2>1, <3>1, <3>2 DEF Holding, InFlight, Runtime!InFlight
    <3> QED BY <1>g, <1>h, <2>2, <2>4, <3>1, <3>3
  <2>16. CASE Runtime!FlipForEdit(c)
    <3>1. off' = off /\ rtRow' = rtRow /\ rtCall[c].pc = "read"
      BY <2>16 DEF Runtime!FlipForEdit
    <3>2. CASE Holding(c)'
      <4>1. /\ Runtime!Flip(c, rtCall[c].on) /\ rtCall'[c].on = rtCall[c].on
            /\ rtCall'[c].saved = entry /\ rtCall'[c].read = rtCall[c].read
        BY <2>16, <3>2, FlipForEditEffect
      <4>2. ~rtCall[c].on => ~entry'.enabled
        BY <4>1, FlipEffect, CallFields
      <4>3. off => ~rtCall[c].on /\ ~rtCall[c].read.enabled
        BY <1>g, <2>1, <3>1
      <4>4. (off' => Quiet(c)') /\ Switched(c)'
        BY <1>g, <3>1, <4>1, <4>2, <4>3
      <4> QED BY <1>g, <1>h, <2>2, <2>4, <3>1, <4>2, <4>3, <4>4
    <3>3. CASE ~Holding(c)'
      <4>1. /\ entry' = entry
            /\ \/ rtCall'[c].pc = "done"
               \/ rtCall'[c].on = rtCall[c].on /\ rtCall'[c].read = rtCall[c].read
        <5>1. CASE ~rtCall[c].flips
          BY <2>16, <2>c, <5>1 DEF Runtime!FlipForEdit, Runtime!CallRecords
        <5>2. CASE ~entry.here
          BY <2>16, <2>c, <2>f, <5>2 DEF Runtime!FlipForEdit, Runtime!CallRecords
        <5>3. CASE rtCall[c].flips /\ entry.here
          <6>1. rtCall'[c] = [rtCall[c] EXCEPT !.pc = "cached", !.version = version + 1,
                                      !.saved = entry, !.savedVersion = version]
            BY <2>16, <2>c, <5>3 DEF Runtime!FlipForEdit, Runtime!CallRecords
          <6>2. rtCall'[c].pc = "cached" /\ rtCall'[c].op = "edit" /\ rtCall'[c].flips
            BY <2>16, <2>c, <5>3, <6>1 DEF Runtime!FlipForEdit, Runtime!CallRecords
          <6> QED BY <3>3, <6>2 DEF Holding, InFlight, Runtime!InFlight
        <5> QED BY <5>1, <5>2, <5>3
      <4>2. off => ~rtCall[c].on /\ ~rtCall[c].read.enabled
        BY <1>g, <2>1, <3>1
      <4>3. (off' => Quiet(c)') /\ Switched(c)'
        BY <3>1, <3>3, <4>1, <4>2 DEF InFlight, Runtime!InFlight
      <4> QED BY <1>g, <1>h, <2>2, <2>4, <3>1, <4>1, <4>3
    <3> QED BY <3>2, <3>3
  <2>17. CASE Runtime!CommitEdit(c)
    <3>1. /\ rtCall'[c].pc \in {"done", "reload"} /\ entry' = entry /\ rtRow' = Runtime!Edited(c)
          /\ off' = (off \/ (rtCall[c].flips /\ ~rtCall[c].on /\ rtCall[c].alone))
          /\ rtCall[c].pc = "cached" /\ rtCall[c].op = "edit"
      BY <2>17, <2>c, <2>f DEF Runtime!CommitEdit, Runtime!CallRecords
    <3>2. /\ ~rtCall[c].flips => rtRow'.enabled = rtCall[c].read.enabled
          /\ rtCall[c].flips /\ ~rtCall[c].on => ~rtRow'.enabled
      <4>1. rtCall[c].read \in Runtime!Entries /\ rtCall[c].flips \in BOOLEAN /\ rtCall[c].on \in BOOLEAN
        BY CallFields
      <4>2. ~rtCall[c].flips => rtRow' = [rtCall[c].read EXCEPT !.updated = rtNow]
        BY <3>1 DEF Runtime!Edited
      <4>3. rtCall[c].flips /\ ~rtCall[c].on =>
              rtRow' = [[rtCall[c].read EXCEPT !.updated = rtNow] EXCEPT !.enabled = FALSE]
        BY <3>1 DEF Runtime!Edited
      <4> QED BY <4>1, <4>2, <4>3 DEF Runtime!Entries
    <3>3. CASE off
      <4>1. ~rtCall[c].on /\ ~rtCall[c].read.enabled
        BY <1>g, <2>1, <3>1, <3>3
      <4> QED BY <1>g, <2>6, <3>1, <3>2, <3>3, <4>1
    <3>4. CASE ~off /\ off'
      <4>1. rtCall[c].flips /\ ~rtCall[c].on /\ rtCall[c].alone
        BY <3>1, <3>4
      <4>2. Holding(c)
        BY <2>1, <3>1, <4>1 DEF Holding
      <4>3. ~entry'.enabled /\ ~rtRow'.enabled
        BY <1>g, <3>1, <3>2, <4>1, <4>2
      <4>4. \A d \in DesktopCalls : Quiet(d)' /\ Switched(d)'
        BY <2>4, <2>5, <3>1, <4>1, <4>3 DEF Holding
      <4> QED BY <1>h, <4>3, <4>4
    <3>5. CASE ~off /\ ~off'
      BY <2>6, <3>1, <3>5
    <3> QED BY <3>3, <3>4, <3>5
  <2> QED BY <1>3, <2>7, <2>8, <2>9, <2>10, <2>11, <2>12, <2>13, <2>14, <2>15, <2>16, <2>17 DEF Continues
<1>4. CASE Runtime!Restart
  BY <1>g, <1>h, <1>4, RestartEffect DEF Holding
<1> QED BY <1>1, <1>2, <1>3, <1>4, RuntimeSteps

LEMMA RevivesStep ==
  ASSUME Runtime!TypeOK, Detached, AloneIsAlone, NothingRevives, Runtime!Next
  PROVE  NothingRevives'
<1>t. entry \in Runtime!Entries /\ rtRow \in Runtime!Entries
  BY DEF Runtime!TypeOK
<1>n. ~Runtime!NoEntry.here
  BY DEF Runtime!NoEntry
<1> DEFINE Erased(c) == InFlight(c) /\ rtCall[c].op = "delete" => ~rtRow.here
<1>1. CASE SideStep
  <2>1. rtCall' = rtCall /\ deleted' = deleted /\ entry'.here = entry.here /\ rtRow'.here = rtRow.here
    BY <1>1, SideEffect DEF Worsens, Rewrites
  <2> QED BY <2>1 DEF NothingRevives, InFlight, Runtime!InFlight
\* Nothing starts on an account that is nowhere, and a call that starts while a
\* deletion is under way leaves the missing row missing.
<1>2. ASSUME NEW c \in DesktopCalls, Begins(c)
      PROVE  NothingRevives'
  <2>1. ~deleted
    BY <1>2 DEF Begins, NothingRevives, Runtime!Toggle, Runtime!StartEdit, Runtime!Test, Runtime!DeleteRow
  <2>2. deleted' = deleted
    BY <1>2, BeginEffect
  <2>3. rtRow' = rtRow \/ ~rtRow'.here
    BY <1>2, <1>n DEF Begins, Runtime!Toggle, Runtime!StartEdit, Runtime!Test, Runtime!DeleteRow
  <2>4. ASSUME NEW d \in DesktopCalls \ {c}
        PROVE  Erased(d)'
    <3>1. rtCall'[d].op = rtCall[d].op
      <4>1. rtCall[d] \in Runtime!CallRecords
        BY CallFields
      <4>2. rtCall'[d] = [rtCall[d] EXCEPT !.alone = @ /\ ~InFlight(d)]
        BY <1>2, BeginEffect
      <4> QED BY <4>1, <4>2 DEF Runtime!CallRecords
    <3> QED BY <1>2, <2>3, <3>1, BeginEffect DEF NothingRevives
  <2>5. Erased(c)'
    <3>1. ASSUME NEW on \in BOOLEAN, Runtime!Toggle(c, on)
          PROVE  Erased(c)'
      BY <3>1, ToggleEffect
    <3>2. ASSUME NEW on \in BOOLEAN, Runtime!StartEdit(c, on)
          PROVE  rtCall'[c].op = "edit"
      BY <3>2 DEF Runtime!StartEdit, Runtime!Begin, Runtime!NoCall
    <3>3. ASSUME Runtime!Test(c)
          PROVE  rtCall'[c].op = "test"
      BY <3>3 DEF Runtime!Test, Runtime!Begin, Runtime!NoCall
    <3>4. ASSUME Runtime!DeleteRow(c)
          PROVE  ~rtRow'.here
      BY <3>4, <1>n DEF Runtime!DeleteRow
    <3> QED BY <1>2, <3>1, <3>2, <3>3, <3>4 DEF Begins
  <2> QED BY <2>1, <2>2, <2>4, <2>5 DEF NothingRevives
<1>3. ASSUME NEW c \in DesktopCalls, Continues(c)
      PROVE  NothingRevives'
  <2>1. /\ InFlight(c) /\ \A d \in DesktopCalls \ {c} : rtCall'[d] = rtCall[d]
        /\ InFlight(c)' => rtCall'[c].op = rtCall[c].op
    BY <1>3, ContinueEffect
  <2>2. ~deleted
    BY <2>1 DEF NothingRevives
  <2>3. rtRow'.here => rtRow.here
    <3>1. CASE Runtime!CommitToggle(c)
      BY <1>t, <3>1 DEF Runtime!CommitToggle
    <3>2. CASE Runtime!CommitEdit(c)
      BY <3>2 DEF Runtime!CommitEdit
    <3>3. CASE Runtime!CommitTest(c)
      BY <1>t, <3>3 DEF Runtime!CommitTest, Runtime!Entries
    <3>4. CASE Runtime!AbortToggle(c) \/ Runtime!ReadRow(c) \/ Runtime!Reload(c) \/ Runtime!ReadForEdit(c)
      BY <3>4 DEF Runtime!AbortToggle, Runtime!ReadRow, Runtime!Reload, Runtime!ReadForEdit
    <3>5. CASE Runtime!FlipForEdit(c) \/ Runtime!AbortEdit(c) \/ Runtime!AbortTest(c)
               \/ Runtime!DropPending(c) \/ Runtime!Forget(c)
      BY <3>5 DEF Runtime!FlipForEdit, Runtime!AbortEdit, Runtime!AbortTest, Runtime!DropPending,
         Runtime!Forget
    <3> QED BY <1>3, <3>1, <3>2, <3>3, <3>4, <3>5 DEF Continues
  <2>4. \A d \in DesktopCalls : Erased(d)'
    BY <2>1, <2>3 DEF NothingRevives, InFlight, Runtime!InFlight
  <2>5. CASE ~Runtime!Forget(c)
    <3>1. deleted' = deleted
      BY <1>3, <2>5 DEF Continues, Runtime!CommitToggle, Runtime!AbortToggle, Runtime!ReadRow,
         Runtime!Reload, Runtime!ReadForEdit, Runtime!FlipForEdit, Runtime!CommitEdit,
         Runtime!AbortEdit, Runtime!CommitTest, Runtime!AbortTest, Runtime!DropPending
    <3> QED BY <2>2, <2>4, <3>1 DEF NothingRevives
  <2>6. CASE Runtime!Forget(c)
    <3>1. /\ entry' = Runtime!NoEntry /\ rtRow' = rtRow /\ deleted' = rtCall[c].alone
          /\ rtCall[c].op = "delete" /\ rtCall'[c].pc = "done"
      BY <2>6 DEF Runtime!Forget, Runtime!Finished, Runtime!NoCall, Runtime!TypeOK
    <3>2. ~rtRow'.here
      BY <2>1, <3>1 DEF NothingRevives
    <3>3. ASSUME deleted', NEW d \in DesktopCalls
          PROVE  ~InFlight(d)'
      <4>1. rtCall[c].alone
        BY <3>1, <3>3
      <4>2. d # c => ~InFlight(d)
        BY <2>1, <4>1 DEF AloneIsAlone
      <4> QED BY <2>1, <3>1, <4>2 DEF InFlight, Runtime!InFlight
    <3> QED BY <1>n, <2>4, <3>1, <3>2, <3>3 DEF NothingRevives
  <2> QED BY <2>5, <2>6
<1>4. CASE Runtime!Restart
  BY <1>4, RestartEffect DEF NothingRevives
<1> QED BY <1>1, <1>2, <1>3, <1>4, RuntimeSteps

-----------------------------------------------------------------------------
(* What the run-time state of an account keeps.                             *)

LEMMA RuntimeInitial ==
  ASSUME Runtime!Init
  PROVE  RuntimeInv
<1>1. \A c \in DesktopCalls : rtCall[c] = Runtime!NoCall /\ ~InFlight(c)
  BY DEF Runtime!Init, Runtime!NoCall, InFlight, Runtime!InFlight
<1>2. Runtime!TypeOK
  <2>1. rtNow \in 0 .. AccountTime /\ faults \in 0 .. MaxFaults /\ restarts \in 0 .. MaxRestarts
    BY AccountAssumption DEF Runtime!Init
  <2>2. /\ entry \in Runtime!Entries /\ rtRow \in Runtime!Entries /\ version \in Nat
        /\ pending \in Runtime!Mutations /\ batch \in Runtime!Mutations /\ current \in BOOLEAN
        /\ rtSoft \in Nat /\ lastFail \in Nat /\ off \in BOOLEAN /\ deleted \in BOOLEAN
    BY NoCallTypes DEF Runtime!Init
  <2>3. rtAtt \in [AccountAttempts -> [pc : {"idle", "sent", "marked", "done"}, start : Nat,
                                       m : Runtime!Mutations]]
    BY NoCallTypes DEF Runtime!Init
  <2>4. rtCall \in [DesktopCalls -> Runtime!CallRecords]
    BY NoCallTypes DEF Runtime!Init
  <2>5. refresh \in [pc : {"idle", "asked", "written", "done"}, at : Nat]
    BY DEF Runtime!Init
  <2> QED BY <2>1, <2>2, <2>3, <2>4, <2>5 DEF Runtime!TypeOK
<1>3. entry.state = "active" /\ ~current /\ ~off /\ ~deleted
  BY DEF Runtime!Init, Runtime!Healthy, Runtime!NoEntry
<1> QED BY <1>1, <1>2, <1>3 DEF RuntimeInv, Detached, AloneIsAlone, HeldIsOld, FailureIsDated,
        NothingEnables, NothingRevives, Holding, Runtime!Blocked

LEMMA RuntimeStep ==
  ASSUME RuntimeInv, [Runtime!Next]_runtimeVars
  PROVE  RuntimeInv'
<1>1. CASE Runtime!Next
  <2>1. Runtime!TypeOK'
    <3>1. CASE SideStep
      BY <3>1, AttemptTypes, WriterTypes DEF SideStep, RuntimeInv
    <3>2. CASE Runtime!Restart
      BY <3>2, WriterTypes DEF RuntimeInv
    <3> QED BY <1>1, <3>1, <3>2, RuntimeSteps, BeginTypes, ContinueTypes DEF RuntimeInv
  <2> QED BY <1>1, <2>1, AloneStep, DatedStep, HeldStep, EnablesStep, RevivesStep DEF RuntimeInv
<1>2. CASE UNCHANGED runtimeVars
  <2> USE <1>2 DEF runtimeVars, RuntimeInv
  <2>1. Runtime!TypeOK'
    BY DEF Runtime!TypeOK
  <2>2. \A c \in DesktopCalls : (InFlight(c)' <=> InFlight(c)) /\ (Holding(c)' <=> Holding(c))
    BY DEF InFlight, Runtime!InFlight, Holding
  <2>3. Detached' /\ AloneIsAlone' /\ NothingEnables' /\ NothingRevives'
    BY <2>2 DEF Detached, AloneIsAlone, NothingEnables, NothingRevives
  <2>4. HeldIsOld' /\ FailureIsDated'
    BY <2>2 DEF HeldIsOld, FailureIsDated, Runtime!Blocked
  <2> QED BY <2>1, <2>3, <2>4
<1> QED BY <1>1, <1>2

LEMMA RuntimeParts ==
  /\ MCInit => Runtime!Init
  /\ [MCNext]_allVars => [Runtime!Next]_runtimeVars
BY DEF MCInit, MCNext, allVars, runtimeVars

LEMMA RuntimeAlways == MCSpec => []RuntimeInv
BY RuntimeParts, RuntimeInitial, RuntimeStep, PTL DEF MCSpec

\* What the user has disabled or deleted stays so, for any attempts, calls, faults
\* and restarts: no report, coalesced or retried write, refresh or restart enables
\* the account or brings it back (ToggleAccount, UpdateAccount, DeleteAccount,
\* flushPending).
THEOREM DecisionsStand == MCSpec => []AdministrationStands
<1>1. RuntimeInv => AdministrationStands
  BY DEF RuntimeInv, NothingEnables, NothingRevives, AdministrationStands,
     Runtime!DisabledStays, Runtime!DeletedIsGone
<1> QED BY <1>1, RuntimeAlways, PTL

\* The condition NewerFailureStands puts on a step.
Unblocks == Runtime!Blocked(entry) /\ ~Runtime!Blocked(entry') /\ entry'.enabled
Entitled ==
  \/ \E a \in AccountAttempts : Runtime!Succeed(a) /\ rtAtt[a].start >= lastFail
  \/ \E c \in DesktopCalls : Runtime!RevivedByUser(c) \/ Runtime!Overlapped(c)
  \/ Runtime!Restart

LEMMA StandsStep ==
  ASSUME RuntimeInv, Runtime!Next, Unblocks
  PROVE  Entitled
<1>t. Runtime!TypeOK /\ entry \in Runtime!Entries /\ Detached
  BY DEF RuntimeInv, Runtime!TypeOK
<1>s. entry' # entry
  BY DEF Unblocks
<1>1. CASE SideStep
  <2>1. ASSUME NEW a \in AccountAttempts, Runtime!Succeed(a)
        PROVE  Entitled
    <3>1. entry.here /\ Runtime!NoNewerFailure(rtAtt[a].start) /\ entry' = Runtime!Activated
      BY <1>s, <2>1 DEF Runtime!Succeed, Runtime!Dismissed
    <3>2. entry.enabled
      BY <1>t, <3>1 DEF Runtime!Activated, Runtime!Entries, Unblocks
    <3>3. lastFail <= entry.updated
      BY <3>2 DEF RuntimeInv, FailureIsDated, Unblocks
    <3>4. ~(entry.updated > rtAtt[a].start)
      BY <3>1 DEF Runtime!NoNewerFailure, Unblocks
    <3>5. lastFail \in Nat /\ entry.updated \in Nat /\ rtAtt[a].start \in Nat
      BY <1>t DEF Runtime!TypeOK, Runtime!Entries
    <3>6. rtAtt[a].start >= lastFail
      BY <3>3, <3>4, <3>5
    <3> QED BY <2>1, <3>6 DEF Entitled
  <2>2. ASSUME NEW a \in AccountAttempts, NEW u, Runtime!MarkTransient(a, u)
        PROVE  FALSE
    BY <1>t, <1>s, <2>2 DEF Runtime!MarkTransient, Runtime!Dismissed, Unblocks, Runtime!Blocked,
       Runtime!Entries
  <2>3. ASSUME NEW a \in AccountAttempts,
               Runtime!FailTransient(a) \/ Runtime!FailUsageLimit(a) \/ Runtime!FailSoft(a)
        PROVE  FALSE
    BY <1>s, <2>2, <2>3 DEF Runtime!FailTransient, Runtime!FailUsageLimit, Runtime!FailSoft,
       Runtime!Dismissed
  <2>4. ASSUME NEW a \in AccountAttempts, Runtime!FailAuth(a)
        PROVE  FALSE
    BY <1>t, <1>s, <2>4 DEF Runtime!FailAuth, Runtime!AuthFailed, Runtime!Dismissed, Unblocks,
       Runtime!Blocked, Runtime!Entries
  <2>5. CASE Runtime!RefreshMarks
    BY <1>t, <1>s, <2>5 DEF Runtime!RefreshMarks, Runtime!AuthFailed, Unblocks, Runtime!Blocked,
       Runtime!Entries
  <2>6. ASSUME NEW a \in AccountAttempts, Runtime!Start(a) \/ Runtime!Report(a)
        PROVE  FALSE
    BY <1>s, <2>6 DEF Runtime!Start, Runtime!Report
  <2>7. CASE Runtime!Tick \/ Runtime!SoftExpires \/ Runtime!Detach \/ Runtime!CheckVersion
    BY <1>s, <2>7 DEF Runtime!Tick, Runtime!SoftExpires, Runtime!ReportUnchanged, Runtime!Detach,
       Runtime!CheckVersion
  <2>8. CASE Runtime!Write \/ Runtime!WriteFails \/ Runtime!StartRefresh \/ Runtime!RefreshWrites
    BY <1>s, <2>8 DEF Runtime!Write, Runtime!WriteFails, Runtime!StartRefresh, Runtime!RefreshWrites
  <2> QED BY <1>1, <2>1, <2>3, <2>4, <2>5, <2>6, <2>7, <2>8 DEF SideStep
<1>2. ASSUME NEW c \in DesktopCalls, Begins(c)
      PROVE  Entitled
  <2>1. ASSUME NEW on \in BOOLEAN, Runtime!Toggle(c, on)
        PROVE  Entitled
    <3>1. CASE on
      BY <2>1, <3>1 DEF Entitled, Runtime!RevivedByUser
    <3>2. CASE ~on
      BY <1>t, <2>1, <3>2, FlipEffect DEF Runtime!Toggle, Unblocks, Runtime!Blocked
    <3> QED BY <3>1, <3>2
  <2>2. CASE Runtime!Test(c)
    BY <2>2 DEF Entitled, Runtime!RevivedByUser
  <2>3. ASSUME NEW on \in BOOLEAN, Runtime!StartEdit(c, on)
        PROVE  FALSE
    BY <1>s, <2>3 DEF Runtime!StartEdit
  <2>4. CASE Runtime!DeleteRow(c)
    BY <1>s, <2>4 DEF Runtime!DeleteRow
  <2> QED BY <1>2, <2>1, <2>2, <2>3, <2>4 DEF Begins
<1>3. ASSUME NEW c \in DesktopCalls, Continues(c)
      PROVE  Entitled
  <2>1. ASSUME Holding(c), version = rtCall[c].version, entry' = rtCall[c].saved
        PROVE  ~rtCall[c].alone
    BY <2>1 DEF RuntimeInv, HeldIsOld, Unblocks, Runtime!Blocked
  <2>2. CASE Runtime!AbortToggle(c)
    <3>1. Holding(c)
      BY <2>2 DEF Runtime!AbortToggle, Holding, InFlight, Runtime!InFlight
    <3>2. version = rtCall[c].version /\ entry' = rtCall[c].saved
      BY <1>s, <2>2 DEF Runtime!AbortToggle, Runtime!Untouched, Runtime!Restore
    <3> QED BY <2>1, <2>2, <3>1, <3>2 DEF Entitled, Runtime!Overlapped
  <2>3. CASE Runtime!AbortEdit(c)
    <3>1. rtCall[c].flips /\ version = rtCall[c].version /\ entry' = rtCall[c].saved
      BY <1>s, <2>3 DEF Runtime!AbortEdit, Runtime!Untouched, Runtime!Restore
    <3>2. Holding(c)
      BY <2>3, <3>1 DEF Runtime!AbortEdit, Holding, InFlight, Runtime!InFlight
    <3> QED BY <2>1, <2>3, <3>1, <3>2 DEF Entitled, Runtime!Overlapped
  <2>4. CASE Runtime!Reload(c) \/ Runtime!Forget(c) \/ Runtime!FlipForEdit(c)
    BY <2>4 DEF Entitled, Runtime!RevivedByUser
  <2>5. CASE Runtime!CommitToggle(c) \/ Runtime!ReadRow(c) \/ Runtime!ReadForEdit(c)
    BY <1>s, <2>5 DEF Runtime!CommitToggle, Runtime!ReadRow, Runtime!ReadForEdit
  <2>6. CASE Runtime!CommitEdit(c) \/ Runtime!CommitTest(c) \/ Runtime!AbortTest(c) \/ Runtime!DropPending(c)
    BY <1>s, <2>6 DEF Runtime!CommitEdit, Runtime!CommitTest, Runtime!AbortTest, Runtime!DropPending
  <2> QED BY <1>3, <2>2, <2>3, <2>4, <2>5, <2>6 DEF Continues
<1>4. CASE Runtime!Restart
  BY <1>4 DEF Entitled
<1> QED BY <1>1, <1>2, <1>3, <1>4, RuntimeSteps

\* A recorded failure of an account in use is not taken back by the late success of
\* an older attempt, nor by the rollback of a failed call that had the account to
\* itself, for any attempts, calls, faults and restarts
\* (markSuccessIfNoNewerFailure, restoreRuntimeStateIfVersion).
THEOREM FailuresStand == MCSpec => NewerFailureStands
<1>1. RuntimeInv /\ [Runtime!Next]_runtimeVars =>
        [Runtime!Blocked(entry) /\ ~Runtime!Blocked(entry') /\ entry'.enabled =>
           \/ \E a \in AccountAttempts : Runtime!Succeed(a) /\ rtAtt[a].start >= lastFail
           \/ \E c \in DesktopCalls : Runtime!RevivedByUser(c) \/ Runtime!Overlapped(c)
           \/ Runtime!Restart]_(Runtime!vars)
  BY StandsStep DEF Unblocks, Entitled, runtimeVars, Runtime!vars
<1>2. [MCNext]_allVars => [Runtime!Next]_runtimeVars
  BY RuntimeParts
<1> QED BY <1>1, <1>2, RuntimeAlways, PTL DEF MCSpec, NewerFailureStands, Runtime!NewerFailureStands

-----------------------------------------------------------------------------
(* Which account a request gets.  The inductive invariant, in parts.        *)

Known(a) == Selection!Known(a)

\* The call of the desktop under way.
Admins == [op : Selection!Ops, pc : 0 .. 3, account : Selection!Ids, tier : 0 .. LastTier,
           was : Selection!Ids, saved : Selection!Selections,
           prefs : [Selection!Tiers -> Selection!Ids], old : Selection!Statuses, touched : BOOLEAN]
AdminTypes == admin \in Admins

\* What a call remembers stays good until it ends: the tiers it works on, the
\* pin it will set again, the selection it may have to restore.
CallRemembers ==
  /\ admin.op \in {"pin", "toggle", "move"} => admin.account \in Accounts /\ Known(admin.account)
  /\ admin.op = "pin" => sel.pinned
  /\ admin.op \in {"move", "swap"} => admin.tier \in Selection!Tiers
  /\ admin.op = "swap" => admin.tier + 1 \in Selection!Tiers
  /\ admin.was # 0 => Known(admin.was)
  /\ admin.op = "toggle" => admin.old # "gone"
  /\ admin.op # "toggle" => ~admin.saved.pinned
  /\ admin.saved.pinned /\ admin.saved.account # 0 =>
       admin.saved.tier = group[admin.saved.account] /\ Known(admin.saved.account)

\* The user's pin is selected, or a call that has cleared it will set it again.
PinIsSomewhere ==
  userPin # 0 =>
    /\ Known(userPin) /\ admin.op \notin {"pin", "auto"}
    /\ admin.op \in {"none", "toggle"} \/ admin.pc = 1 => sel.pinned /\ sel.account = userPin
    /\ admin.op \in {"move", "swap"} => admin.was = userPin
    /\ admin.op = "toggle" => admin.saved.pinned /\ admin.saved.account = userPin

SelectionInv ==
  /\ Selection!TypeOK /\ AdminTypes
  /\ Selection!SelectionFollowsGroups /\ CallRemembers /\ PinIsSomewhere

\* The values of the cache's helpers.
LEMMA SelectionConstants ==
  /\ 0 \notin Accounts /\ Accounts \subseteq Selection!Ids /\ 0 \in Selection!Ids
  /\ Selection!Tiers \subseteq 0 .. LastTier /\ 0 \in 0 .. LastTier /\ 0 \notin Selection!Tiers
  /\ \A t \in Selection!Tiers : t \in Nat
  /\ Selection!NoSelection \in Selection!Selections
BY AccountAssumption DEF Selection!Ids, Selection!Tiers, Selection!NoSelection, Selection!Selections

LEMMA IdleTypes ==
  /\ Selection!Idle \in Admins
  /\ Selection!Idle.op = "none" /\ Selection!Idle.pc = 0 /\ Selection!Idle.account = 0
  /\ Selection!Idle.was = 0 /\ Selection!Idle.saved = Selection!NoSelection
BY SelectionConstants DEF Admins, Selection!Idle, Selection!Ops, Selection!Statuses

LEMMA HelperTypes ==
  ASSUME NEW g \in [Accounts -> Selection!Tiers], NEW s \in Selection!Selections
  PROVE  /\ \A a \in Accounts : Selection!Select(a, g) \in Selection!Selections
         /\ \A st : Selection!Settle(s, st) \in Selection!Selections
         /\ \A a \in Accounts : Selection!Released(s, a) \in Selection!Selections
         /\ \A p \in [Selection!Tiers -> Selection!Ids] :
              /\ \A st : Selection!SyncPreferred(p, g, st) \in [Selection!Tiers -> Selection!Ids]
              /\ \A st : Selection!SyncRetained(p, g, st) \in [Selection!Tiers -> Selection!Ids]
              /\ \A a \in Accounts : Selection!Without(p, a) \in [Selection!Tiers -> Selection!Ids]
<1> USE SelectionConstants
<1>1. \A a \in Accounts : Selection!Select(a, g) \in Selection!Selections
  BY DEF Selection!Select, Selection!Selections
<1>2. \A st : Selection!Settle(s, st) \in Selection!Selections
  BY DEF Selection!Settle
<1>3. \A a \in Accounts : Selection!Released(s, a) \in Selection!Selections
  BY DEF Selection!Released, Selection!Selections
<1>4. ASSUME NEW p \in [Selection!Tiers -> Selection!Ids]
      PROVE  /\ \A st : Selection!SyncPreferred(p, g, st) \in [Selection!Tiers -> Selection!Ids]
             /\ \A st : Selection!SyncRetained(p, g, st) \in [Selection!Tiers -> Selection!Ids]
             /\ \A a \in Accounts : Selection!Without(p, a) \in [Selection!Tiers -> Selection!Ids]
  BY <1>4 DEF Selection!SyncPreferred, Selection!SyncRetained, Selection!Without
<1> QED BY <1>1, <1>2, <1>3, <1>4

LEMMA SyncPinnedTypes ==
  ASSUME sel \in Selection!Selections, NEW g \in [Accounts -> Selection!Tiers]
  PROVE  Selection!SyncPinned(g) \in Selection!Selections
<1>1. sel.account # 0 => g[sel.account] \in 0 .. LastTier
  BY SelectionConstants DEF Selection!Selections, Selection!Ids
<1> QED BY <1>1 DEF Selection!SyncPinned, Selection!Selections

\* What a per-group map, a selection and an account must be.
MapFollows(p, g, st) ==
  \A t \in Selection!Tiers : \A a \in Accounts : a = p[t] => st[a] # "gone" /\ g[a] = t
PinFollows(s, g, st) ==
  s.pinned /\ s.account # 0 => s.tier = g[s.account] /\ st[s.account] # "gone"

LEMMA FollowsParts ==
  Selection!SelectionFollowsGroups <=>
    /\ MapFollows(preferred, group, status) /\ MapFollows(selRetained, group, status)
    /\ PinFollows(sel, group, status)
BY DEF Selection!SelectionFollowsGroups, MapFollows, PinFollows, Selection!Known

LEMMA HelpersFollow ==
  ASSUME NEW g \in [Accounts -> Selection!Tiers], NEW st
  PROVE  /\ \A p : MapFollows(Selection!SyncPreferred(p, g, st), g, st)
         /\ \A p : MapFollows(Selection!SyncRetained(p, g, st), g, st)
         /\ \A p \in [Selection!Tiers -> Selection!Ids], a \in Accounts :
              MapFollows(p, g, st) => MapFollows(Selection!Without(p, a), g, st)
         /\ MapFollows([t \in Selection!Tiers |-> 0], g, st)
         /\ PinFollows(Selection!NoSelection, g, st)
         /\ \A a \in Accounts : st[a] # "gone" => PinFollows(Selection!Select(a, g), g, st)
<1> USE SelectionConstants
<1>1. \A p : MapFollows(Selection!SyncPreferred(p, g, st), g, st)
  BY DEF MapFollows, Selection!SyncPreferred
<1>2. \A p : MapFollows(Selection!SyncRetained(p, g, st), g, st)
  BY DEF MapFollows, Selection!SyncRetained
<1>3. ASSUME NEW p \in [Selection!Tiers -> Selection!Ids], NEW a \in Accounts, MapFollows(p, g, st)
      PROVE  MapFollows(Selection!Without(p, a), g, st)
  BY <1>3 DEF MapFollows, Selection!Without
<1>4. MapFollows([t \in Selection!Tiers |-> 0], g, st)
  BY DEF MapFollows
<1>5. PinFollows(Selection!NoSelection, g, st)
  BY DEF PinFollows, Selection!NoSelection
<1>6. ASSUME NEW a \in Accounts, st[a] # "gone"
      PROVE  PinFollows(Selection!Select(a, g), g, st)
  BY <1>6 DEF PinFollows, Selection!Select
<1> QED BY <1>1, <1>2, <1>3, <1>4, <1>5, <1>6

\* A change of statuses that deletes nothing leaves maps and selections right.
LEMMA FollowsKept ==
  ASSUME NEW g, NEW st, NEW st2, \A a \in Accounts : st[a] # "gone" => st2[a] # "gone"
  PROVE  /\ \A p : MapFollows(p, g, st) => MapFollows(p, g, st2)
         /\ \A s \in Selection!Selections : PinFollows(s, g, st) => PinFollows(s, g, st2)
<1>1. \A p : MapFollows(p, g, st) => MapFollows(p, g, st2)
  BY DEF MapFollows
<1>2. \A s \in Selection!Selections : PinFollows(s, g, st) => PinFollows(s, g, st2)
  BY DEF PinFollows, Selection!Selections, Selection!Ids
<1> QED BY <1>1, <1>2

LEMMA ReleasedFollows ==
  ASSUME NEW s \in Selection!Selections, NEW a \in Accounts, NEW g, NEW st, PinFollows(s, g, st)
  PROVE  /\ PinFollows(Selection!Released(s, a), g, st)
         /\ Selection!Released(s, a).account # a
         /\ Selection!Released(s, a).pinned = s.pinned
         /\ s.account # a => Selection!Released(s, a) = s
BY SelectionConstants DEF PinFollows, Selection!Released, Selection!Selections

LEMMA SettleFollows ==
  ASSUME NEW s \in Selection!Selections, NEW g \in [Accounts -> Selection!Tiers],
         NEW st, PinFollows(s, g, st)
  PROVE  PinFollows(Selection!Settle(s, st), g, st)
BY HelpersFollow DEF Selection!Settle

LEMMA SyncPinnedFollows ==
  ASSUME sel \in Selection!Selections, PinFollows(sel, group, status),
         NEW g \in [Accounts -> Selection!Tiers], NEW st,
         \A a \in Accounts : status[a] # "gone" => st[a] # "gone"
  PROVE  /\ PinFollows(Selection!SyncPinned(g), g, st)
         /\ Selection!SyncPinned(g).pinned = sel.pinned
         /\ Selection!SyncPinned(g).account = sel.account
BY SelectionConstants DEF PinFollows, Selection!SyncPinned, Selection!Selections, Selection!Ids

\* The invariant, part by part.
MapTypes ==
  /\ group \in [Accounts -> Selection!Tiers] /\ status \in [Accounts -> Selection!Statuses]
  /\ preferred \in [Selection!Tiers -> Selection!Ids]
  /\ selRetained \in [Selection!Tiers -> Selection!Ids]
  /\ sel \in Selection!Selections /\ savedPin \in Selection!Ids /\ userPin \in Selection!Ids
MapsFollow ==
  /\ MapFollows(preferred, group, status) /\ MapFollows(selRetained, group, status)
  /\ PinFollows(sel, group, status)

LEMMA InvParts ==
  SelectionInv <=> MapTypes /\ AdminTypes /\ MapsFollow /\ CallRemembers /\ PinIsSomewhere
BY FollowsParts DEF SelectionInv, MapTypes, AdminTypes, Admins, MapsFollow, Selection!TypeOK

LEMMA InvPartsPrime ==
  SelectionInv' <=> MapTypes' /\ AdminTypes' /\ MapsFollow' /\ CallRemembers' /\ PinIsSomewhere'
BY InvParts, PTL

\* The call goes on under a report, or stays as it is.
SameCall ==
  /\ AdminTypes' /\ admin'.op = admin.op /\ admin'.pc = admin.pc /\ admin'.account = admin.account
  /\ admin'.tier = admin.tier /\ admin'.was = admin.was /\ admin'.saved = admin.saved
  /\ admin'.old = admin.old

LEMMA ReportedCall ==
  ASSUME AdminTypes, NEW a \in Accounts, Selection!Report(a)
  PROVE  SameCall
BY DEF SameCall, AdminTypes, Admins, Selection!Report

LEMMA RemembersKept ==
  ASSUME MapTypes, AdminTypes, CallRemembers, SameCall, group' = group,
         admin.op = "pin" => sel'.pinned = sel.pinned,
         \A a \in Accounts : Known(a) => Known(a)'
  PROVE  CallRemembers'
<1>1. ASSUME NEW i \in Selection!Ids, i # 0, Known(i)
      PROVE  Known(i)'
  BY <1>1 DEF Selection!Ids
<1>2. admin.was \in Selection!Ids /\ admin.saved.account \in Selection!Ids
  BY DEF AdminTypes, Admins, Selection!Selections
<1> QED BY <1>1, <1>2 DEF CallRemembers, SameCall

LEMMA PinKept ==
  ASSUME MapTypes, PinIsSomewhere, SameCall,
         userPin' = userPin, userPin # 0 => Known(userPin)',
         userPin # 0 /\ sel.pinned /\ sel.account = userPin => sel'.pinned /\ sel'.account = userPin
  PROVE  PinIsSomewhere'
BY DEF PinIsSomewhere, SameCall

\* Reports of attempts.
LEMMA ReportsKeep ==
  ASSUME SelectionInv, NEW a \in Accounts,
         Selection!Cool(a) \/ Selection!CoolingEnds(a) \/ Selection!FailAuth(a) \/ Selection!Succeed(a)
  PROVE  SelectionInv'
<1>0. MapTypes /\ AdminTypes /\ MapsFollow /\ CallRemembers /\ PinIsSomewhere
  BY InvParts
<1>c. SameCall
  <2>1. UNCHANGED admin => SameCall
    BY <1>0 DEF SameCall, AdminTypes
  <2> QED BY <1>0, <2>1, ReportedCall DEF Selection!Cool, Selection!CoolingEnds, Selection!FailAuth,
          Selection!Succeed
<1>g. group' = group /\ preferred' = preferred /\ savedPin' = savedPin
  BY DEF Selection!Cool, Selection!CoolingEnds, Selection!FailAuth, Selection!Succeed, Selection!Report
<1>s. status' \in [Accounts -> Selection!Statuses] /\ \A b \in Accounts : status[b] # "gone" => status'[b] # "gone"
  BY <1>0 DEF Selection!Cool, Selection!CoolingEnds, Selection!FailAuth, Selection!Succeed, MapTypes,
     Selection!Statuses
<1>r. selRetained' \in [Selection!Tiers -> Selection!Ids] /\ MapFollows(selRetained', group, status)
  <2>1. CASE Selection!Cool(a) \/ Selection!FailAuth(a)
    <3>1. selRetained' = Selection!Without(selRetained, a)
      BY <2>1 DEF Selection!Cool, Selection!FailAuth
    <3> QED BY <1>0, <3>1, HelperTypes, HelpersFollow DEF MapTypes, MapsFollow
  <2>2. CASE Selection!CoolingEnds(a)
    BY <1>0, <2>2 DEF Selection!CoolingEnds, MapTypes, MapsFollow
  <2>3. CASE Selection!Succeed(a)
    <3>1. selRetained' = selRetained \/ selRetained' = [selRetained EXCEPT ![group[a]] = a]
      BY <2>3 DEF Selection!Succeed
    <3>2. [selRetained EXCEPT ![group[a]] = a] \in [Selection!Tiers -> Selection!Ids]
      BY <1>0, SelectionConstants DEF MapTypes
    <3>3. MapFollows([selRetained EXCEPT ![group[a]] = a], group, status)
      BY <1>0, <2>3 DEF MapTypes, MapsFollow, MapFollows, Selection!Succeed, Selection!Known
    <3> QED BY <1>0, <3>1, <3>2, <3>3 DEF MapTypes, MapsFollow
  <2> QED BY <2>1, <2>2, <2>3
<1>p. sel' \in Selection!Selections /\ PinFollows(sel', group, status) /\ sel'.pinned = sel.pinned
  <2>1. sel' \in {sel, Selection!Released(sel, a)} =>
          sel' \in Selection!Selections /\ PinFollows(sel', group, status) /\ sel'.pinned = sel.pinned
    BY <1>0, HelperTypes, ReleasedFollows DEF MapTypes, MapsFollow
  <2>2. CASE Selection!Cool(a) \/ Selection!CoolingEnds(a) \/ Selection!FailAuth(a)
    BY <2>1, <2>2 DEF Selection!Cool, Selection!CoolingEnds, Selection!FailAuth
  <2>3. CASE Selection!Succeed(a)
    <3>1. \/ sel' = sel
          \/ sel' = [sel EXCEPT !.tier = group[a]] /\ sel.account = a
      BY <2>3 DEF Selection!Succeed
    <3>2. CASE sel' = [sel EXCEPT !.tier = group[a]] /\ sel.account = a
      <4>1. group[a] \in 0 .. LastTier /\ sel \in Selection!Selections
        BY <1>0, SelectionConstants DEF MapTypes
      <4>2. /\ sel' \in Selection!Selections /\ sel'.tier = group[a] /\ sel'.account = a
            /\ sel'.pinned = sel.pinned
        BY <3>2, <4>1 DEF Selection!Selections
      <4> QED BY <2>3, <4>2 DEF PinFollows, Selection!Succeed, Selection!Known
    <3> QED BY <2>1, <3>1, <3>2
  <2> QED BY <2>2, <2>3
<1>u. PinIsSomewhere' /\ userPin' \in Selection!Ids
  <2>1. CASE userPin' = userPin
    <3>1. userPin # 0 => Known(userPin)'
      BY <1>0, <1>s, <2>1 DEF PinIsSomewhere, Known, Selection!Known, MapTypes, Selection!Ids
    <3>2. ASSUME userPin # 0, sel.pinned, sel.account = userPin
          PROVE  sel'.account = userPin
      <4>1. CASE Selection!Cool(a)
        BY <3>2, <4>1 DEF Selection!Cool
      <4>2. CASE Selection!FailAuth(a)
        <5>1. userPin # a
          BY <2>1, <3>2, <4>2 DEF Selection!FailAuth
        <5> QED BY <1>0, <3>2, <4>2, <5>1, ReleasedFollows DEF Selection!FailAuth, MapTypes, MapsFollow
      <4>3. CASE Selection!CoolingEnds(a)
        BY <3>2, <4>3 DEF Selection!CoolingEnds
      <4>4. CASE Selection!Succeed(a)
        BY <1>0, <3>2, <4>4 DEF Selection!Succeed, MapTypes, Selection!Selections
      <4> QED BY <4>1, <4>2, <4>3, <4>4
    <3> QED BY <1>0, <1>c, <1>p, <2>1, <3>1, <3>2, PinKept DEF MapTypes
  <2>2. CASE userPin' = 0
    BY <2>2, SelectionConstants DEF PinIsSomewhere
  <2> QED BY <2>1, <2>2 DEF Selection!Cool, Selection!CoolingEnds, Selection!FailAuth, Selection!Succeed
<1>1. MapTypes'
  BY <1>0, <1>g, <1>s, <1>r, <1>p, <1>u DEF MapTypes
<1>2. MapsFollow'
  BY <1>0, <1>g, <1>s, <1>r, <1>p, FollowsKept DEF MapsFollow, MapTypes
<1>3. CallRemembers'
  BY <1>0, <1>c, <1>g, <1>s, <1>p, RemembersKept DEF Known, Selection!Known
<1> QED BY <1>1, <1>2, <1>3, <1>c, <1>u, InvPartsPrime DEF SameCall

\* The calls of the desktop.  One that starts remembers what `next` holds.
LEMMA Started ==
  ASSUME AdminTypes, NEW op \in Selection!Ops, NEW a \in Selection!Ids, NEW next,
         next \in Admins, Selection!Start(op, a, next)
  PROVE  /\ AdminTypes' /\ admin'.op = op /\ admin'.pc = 1 /\ admin'.account = a
         /\ admin'.tier = next.tier /\ admin'.was = next.was /\ admin'.saved = next.saved
         /\ admin'.prefs = next.prefs /\ admin'.old = next.old
         /\ admin = Selection!Idle /\ admin.op = "none" /\ admin.was = 0
<1>1. admin' = [next EXCEPT !.op = op, !.pc = 1, !.account = a] /\ admin = Selection!Idle
  BY DEF Selection!Start
<1>2. /\ next.op \in Selection!Ops /\ next.pc \in 0 .. 3 /\ next.account \in Selection!Ids
      /\ next.tier \in 0 .. LastTier /\ next.was \in Selection!Ids
      /\ next.saved \in Selection!Selections /\ next.touched \in BOOLEAN
      /\ next.prefs \in [Selection!Tiers -> Selection!Ids] /\ next.old \in Selection!Statuses
      /\ next = [op |-> next.op, pc |-> next.pc, account |-> next.account, tier |-> next.tier,
                 was |-> next.was, saved |-> next.saved, prefs |-> next.prefs,
                 old |-> next.old, touched |-> next.touched]
  BY DEF Admins
<1>3. admin' = [op |-> op, pc |-> 1, account |-> a, tier |-> next.tier, was |-> next.was,
                saved |-> next.saved, prefs |-> next.prefs, old |-> next.old,
                touched |-> next.touched]
  BY <1>1, <1>2
<1>4. admin' \in Admins
  BY <1>2, <1>3 DEF Admins
<1> QED BY <1>1, <1>3, <1>4, IdleTypes DEF AdminTypes

LEMMA IdleRemembers ==
  ASSUME admin' = Selection!Idle
  PROVE  /\ AdminTypes' /\ CallRemembers' /\ admin'.op = "none"
         /\ (userPin' # 0 => Known(userPin)' /\ sel'.pinned /\ sel'.account = userPin')
              => PinIsSomewhere'
<1>1. /\ admin'.op = "none" /\ admin'.was = 0 /\ ~admin'.saved.pinned
      /\ admin'.pc = 0
  BY IdleTypes DEF Selection!NoSelection
<1>2. AdminTypes' /\ CallRemembers'
  BY <1>1, IdleTypes DEF AdminTypes, CallRemembers
<1> QED BY <1>1, <1>2 DEF PinIsSomewhere

\* The pinned account in terms of the ids.
LEMMA PinId ==
  ASSUME MapTypes, PinIsSomewhere, userPin # 0
  PROVE  userPin \in Accounts /\ status[userPin] # "gone"
BY DEF MapTypes, PinIsSomewhere, Selection!Ids, Known, Selection!Known

LEMMA PinCallsKeep ==
  ASSUME SelectionInv,
         \/ \E a \in Accounts : Selection!Pin(a)
         \/ Selection!PersistPin \/ Selection!Unpin \/ Selection!PersistUnpin
  PROVE  SelectionInv'
<1>0. MapTypes /\ AdminTypes /\ MapsFollow /\ CallRemembers /\ PinIsSomewhere
  BY InvParts
<1>i. "none" \in Selection!Ops /\ "pin" \in Selection!Ops /\ "auto" \in Selection!Ops
  BY DEF Selection!Ops
<1>1. ASSUME NEW a \in Accounts, Selection!Pin(a)
      PROVE  SelectionInv'
  <2>1. /\ sel' = Selection!Select(a, group) /\ userPin' = 0 /\ Known(a)
        /\ UNCHANGED <<group, status, preferred, selRetained, savedPin>>
        /\ Selection!Start("pin", a, Selection!Idle)
    BY <1>1 DEF Selection!Pin, Known
  <2>2. sel' \in Selection!Selections /\ sel'.pinned
    BY <1>0, <2>1, HelperTypes DEF MapTypes, Selection!Select
  <2>3. /\ AdminTypes' /\ admin'.op = "pin" /\ admin'.account = a /\ admin'.was = 0
        /\ admin'.saved = Selection!NoSelection
    BY <1>0, <1>i, <2>1, Started, IdleTypes, SelectionConstants
  <2>4. MapTypes' /\ MapsFollow'
    BY <1>0, <2>1, <2>2, HelpersFollow, SelectionConstants DEF MapTypes, MapsFollow, Known, Selection!Known
  <2>5. CallRemembers' /\ PinIsSomewhere'
    BY <2>1, <2>2, <2>3 DEF CallRemembers, PinIsSomewhere, Known, Selection!Known, Selection!NoSelection
  <2> QED BY <2>3, <2>4, <2>5, InvPartsPrime
<1>2. ASSUME Selection!PersistPin
      PROVE  SelectionInv'
  <2>1. /\ admin.op = "pin" /\ admin' = Selection!Idle
        /\ savedPin' \in {savedPin, admin.account}
        /\ userPin' = IF sel.account = admin.account THEN admin.account ELSE 0
        /\ UNCHANGED <<group, status, preferred, selRetained, sel>>
    BY <1>2 DEF Selection!PersistPin, Selection!Step, Selection!Return
  <2>2. admin.account \in Accounts /\ Known(admin.account) /\ sel.pinned
    BY <1>0, <2>1 DEF CallRemembers
  <2>3. MapTypes' /\ MapsFollow'
    BY <1>0, <2>1, <2>2, SelectionConstants DEF MapTypes, MapsFollow
  <2>4. PinIsSomewhere'
    BY <2>1, <2>2, IdleRemembers DEF Known, Selection!Known
  <2> QED BY <2>1, <2>3, <2>4, IdleRemembers, InvPartsPrime
<1>3. ASSUME Selection!Unpin
      PROVE  SelectionInv'
  <2>1. /\ sel' = Selection!NoSelection /\ userPin' = 0
        /\ UNCHANGED <<group, status, preferred, selRetained, savedPin>>
        /\ Selection!Start("auto", 0, Selection!Idle)
    BY <1>3 DEF Selection!Unpin
  <2>2. /\ AdminTypes' /\ admin'.op = "auto" /\ admin'.account = 0 /\ admin'.was = 0
        /\ admin'.saved = Selection!NoSelection
    BY <1>0, <1>i, <2>1, Started, IdleTypes, SelectionConstants
  <2>3. MapTypes' /\ MapsFollow'
    BY <1>0, <2>1, HelpersFollow, SelectionConstants DEF MapTypes, MapsFollow
  <2>4. CallRemembers' /\ PinIsSomewhere'
    BY <2>1, <2>2 DEF CallRemembers, PinIsSomewhere, Selection!NoSelection
  <2> QED BY <2>2, <2>3, <2>4, InvPartsPrime
<1>4. ASSUME Selection!PersistUnpin
      PROVE  SelectionInv'
  <2>1. /\ admin.op = "auto" /\ admin' = Selection!Idle /\ savedPin' \in {savedPin, 0}
        /\ UNCHANGED <<group, status, preferred, selRetained, sel, userPin>>
    BY <1>4 DEF Selection!PersistUnpin, Selection!Step, Selection!Return
  <2>2. MapTypes' /\ MapsFollow'
    BY <1>0, <2>1, SelectionConstants DEF MapTypes, MapsFollow
  <2>3. userPin' = 0
    BY <1>0, <2>1 DEF PinIsSomewhere
  <2> QED BY <2>1, <2>2, <2>3, IdleRemembers, InvPartsPrime
<1> QED BY <1>1, <1>2, <1>3, <1>4

LEMMA ToggleKeeps ==
  ASSUME SelectionInv, NEW a \in Accounts, Selection!Toggle(a)
  PROVE  SelectionInv'
<1>0. MapTypes /\ AdminTypes /\ MapsFollow /\ CallRemembers /\ PinIsSomewhere
  BY InvParts
<1> DEFINE turnsOff == status[a] # "off"
           st == [status EXCEPT ![a] = IF turnsOff THEN "off" ELSE "ready"]
           s == IF turnsOff THEN Selection!Released(sel, a) ELSE sel
           new == [Selection!Idle EXCEPT !.saved = sel, !.old = status[a]]
<1>1. /\ Known(a) /\ status' = st /\ selRetained' = Selection!SyncRetained(selRetained, group, st)
      /\ sel' = Selection!Settle(s, st)
      /\ userPin' = IF userPin = a THEN 0 ELSE userPin
      /\ UNCHANGED <<group, preferred, savedPin>>
      /\ Selection!Start("toggle", a, new)
  BY DEF Selection!Toggle, Known
<1>2. /\ st \in [Accounts -> Selection!Statuses]
      /\ \A b \in Accounts : status[b] # "gone" => st[b] # "gone"
  BY <1>0 DEF MapTypes, Selection!Statuses
<1>3. s \in Selection!Selections /\ PinFollows(s, group, status)
  BY <1>0, HelperTypes, ReleasedFollows DEF MapTypes, MapsFollow
<1>4. PinFollows(s, group, st) /\ PinFollows(sel, group, st)
  BY <1>0, <1>2, <1>3, FollowsKept DEF MapTypes, MapsFollow
<1>5. /\ new \in Admins
      /\ new.saved = sel /\ new.old = status[a] /\ new.was = 0
  BY <1>0, IdleTypes DEF MapTypes, Admins
<1> HIDE DEF new
<1>6. /\ AdminTypes' /\ admin'.op = "toggle" /\ admin'.pc = 1 /\ admin'.account = a
      /\ admin'.was = 0 /\ admin'.saved = sel /\ admin'.old = status[a] /\ admin.op = "none"
  <2>1. "toggle" \in Selection!Ops /\ a \in Selection!Ids
    BY SelectionConstants DEF Selection!Ops
  <2> QED BY <1>0, <1>1, <1>5, <2>1, Started
<1> HIDE DEF st, s
<1>7. MapTypes'
  BY <1>0, <1>1, <1>2, <1>3, HelperTypes, SelectionConstants DEF MapTypes
<1>8. MapsFollow'
  BY <1>0, <1>1, <1>2, <1>3, <1>4, HelpersFollow, FollowsKept, SettleFollows DEF MapsFollow, MapTypes
<1>9. CallRemembers'
  <2>1. Known(a)' /\ status[a] # "gone"
    BY <1>1, <1>2 DEF Known, Selection!Known
  <2>2. sel.pinned /\ sel.account # 0 => sel.tier = group[sel.account] /\ status'[sel.account] # "gone"
    BY <1>1, <1>4 DEF PinFollows
  <2> QED BY <1>1, <1>6, <2>1, <2>2 DEF CallRemembers, Known, Selection!Known
<1>10. PinIsSomewhere'
  <2>1. ASSUME userPin # 0, userPin # a
        PROVE  Known(userPin)' /\ sel' = sel /\ sel.pinned /\ sel.account = userPin /\ userPin' = userPin
    <3>1. userPin \in Accounts /\ status[userPin] # "gone" /\ sel.pinned /\ sel.account = userPin
      BY <1>0, <1>6, <2>1, PinId DEF PinIsSomewhere
    <3>2. s = sel
      BY <1>0, <2>1, <3>1, ReleasedFollows DEF s, MapTypes, MapsFollow
    <3>3. sel.tier = group[userPin] /\ st[userPin] # "gone"
      BY <1>0, <1>2, <3>1, SelectionConstants DEF MapsFollow, PinFollows
    <3>4. Selection!Settle(sel, st) = sel
      BY <3>1, <3>3 DEF Selection!Settle, Selection!Populated
    <3> QED BY <1>1, <2>1, <3>1, <3>2, <3>3, <3>4 DEF Known, Selection!Known
  <2>2. CASE userPin # 0 /\ userPin # a
    BY <1>6, <2>1, <2>2 DEF PinIsSomewhere, Known, Selection!Known
  <2>3. CASE userPin = 0 \/ userPin = a
    BY <1>1, <2>3 DEF PinIsSomewhere
  <2> QED BY <2>2, <2>3
<1> QED BY <1>6, <1>7, <1>8, <1>9, <1>10, InvPartsPrime

LEMMA ToggleEndKeeps ==
  ASSUME SelectionInv, Selection!ToggleSaved \/ Selection!ToggleFails
  PROVE  SelectionInv'
<1>0. MapTypes /\ AdminTypes /\ MapsFollow /\ CallRemembers /\ PinIsSomewhere
  BY InvParts
<1>1. /\ admin.op = "toggle" /\ admin' = Selection!Idle
      /\ UNCHANGED <<group, preferred, savedPin, userPin>>
  BY DEF Selection!ToggleSaved, Selection!ToggleFails, Selection!Step, Selection!Return
<1>2. /\ admin.account \in Accounts /\ Known(admin.account) /\ admin.old # "gone"
      /\ admin.old \in Selection!Statuses /\ admin.saved \in Selection!Selections
  BY <1>0, <1>1 DEF CallRemembers, AdminTypes, Admins
<1>p. PinFollows(admin.saved, group, status)
  BY <1>0 DEF CallRemembers, PinFollows, Known, Selection!Known
<1>u. userPin # 0 => /\ userPin \in Accounts /\ status[userPin] # "gone"
                     /\ sel.pinned /\ sel.account = userPin
                     /\ admin.saved.pinned /\ admin.saved.account = userPin
  BY <1>0, <1>1, PinId DEF PinIsSomewhere
<1>3. CASE Selection!ToggleSaved
  <2>1. UNCHANGED <<status, selRetained, sel>>
    BY <1>3 DEF Selection!ToggleSaved
  <2>2. MapTypes' /\ MapsFollow'
    BY <1>0, <1>1, <2>1 DEF MapTypes, MapsFollow
  <2>3. PinIsSomewhere'
    BY <1>1, <1>u, <2>1, IdleRemembers DEF Known, Selection!Known
  <2> QED BY <1>1, <2>2, <2>3, IdleRemembers, InvPartsPrime
<1>4. CASE Selection!ToggleFails
  <2>1. /\ status' \in [Accounts -> Selection!Statuses]
        /\ \A b \in Accounts : status[b] # "gone" => status'[b] # "gone"
    <3>1. PICK st \in {admin.old, status[admin.account]} : status' = [status EXCEPT ![admin.account] = st]
      BY <1>4 DEF Selection!ToggleFails
    <3>2. st \in Selection!Statuses /\ st # "gone"
      BY <1>0, <1>2, <3>1 DEF MapTypes, Known, Selection!Known
    <3> QED BY <1>0, <3>1, <3>2 DEF MapTypes
  <2>2. sel' = admin.saved \/ sel' = Selection!SyncPinned(group)
    BY <1>4 DEF Selection!ToggleFails
  <2>3. sel' \in Selection!Selections /\ PinFollows(sel', group, status')
    <3>1. CASE sel' = admin.saved
      BY <1>2, <1>p, <2>1, <3>1, FollowsKept
    <3>2. CASE sel' = Selection!SyncPinned(group)
      BY <1>0, <2>1, <3>2, SyncPinnedTypes, SyncPinnedFollows DEF MapTypes, MapsFollow
    <3> QED BY <2>2, <3>1, <3>2
  <2>4. /\ selRetained' \in [Selection!Tiers -> Selection!Ids]
        /\ MapFollows(selRetained', group, status')
    <3>1. selRetained' = selRetained \/ selRetained' = Selection!SyncRetained(selRetained, group, status')
      BY <1>4 DEF Selection!ToggleFails
    <3>2. CASE selRetained' = selRetained
      BY <1>0, <2>1, <3>2, FollowsKept DEF MapTypes, MapsFollow
    <3>3. CASE selRetained' = Selection!SyncRetained(selRetained, group, status')
      BY <1>0, <3>3, HelperTypes, HelpersFollow DEF MapTypes
    <3> QED BY <3>1, <3>2, <3>3
  <2>5. MapTypes' /\ MapsFollow'
    BY <1>0, <1>1, <2>1, <2>3, <2>4, FollowsKept DEF MapTypes, MapsFollow
  <2>6. userPin # 0 => sel'.pinned /\ sel'.account = userPin /\ status'[userPin] # "gone"
    <3>1. CASE sel' = admin.saved
      BY <1>u, <2>1, <3>1
    <3>2. CASE sel' = Selection!SyncPinned(group)
      BY <1>0, <1>u, <2>1, <3>2, SyncPinnedFollows DEF MapTypes, MapsFollow
    <3> QED BY <2>2, <3>1, <3>2
  <2>7. PinIsSomewhere'
    BY <1>1, <2>6, IdleRemembers DEF Known, Selection!Known
  <2> QED BY <1>1, <2>5, <2>7, IdleRemembers, InvPartsPrime
<1> QED BY <1>3, <1>4

\* The steps of one call that leave the call as it is.
LEMMA EditsKeep ==
  ASSUME SelectionInv, NEW a \in Accounts,
         Selection!SetGroupActive(a) \/ (\E t \in Selection!Tiers : Selection!EditGroup(a, t))
         \/ Selection!Delete(a)
  PROVE  SelectionInv'
<1>0. MapTypes /\ AdminTypes /\ MapsFollow /\ CallRemembers /\ PinIsSomewhere
  BY InvParts
<1>1. admin = Selection!Idle /\ admin' = Selection!Idle /\ Known(a)
  BY DEF Selection!SetGroupActive, Selection!EditGroup, Selection!Delete, Known
<1>2. userPin # 0 => /\ userPin \in Accounts /\ status[userPin] # "gone"
                     /\ sel.pinned /\ sel.account = userPin
  BY <1>0, <1>1, PinId, IdleTypes DEF PinIsSomewhere
<1>3. CASE Selection!SetGroupActive(a)
  <2>1. /\ preferred' = [preferred EXCEPT ![group[a]] = a]
        /\ UNCHANGED <<group, status, selRetained, sel, savedPin, userPin>>
    BY <1>3 DEF Selection!SetGroupActive
  <2>2. preferred' \in [Selection!Tiers -> Selection!Ids] /\ MapFollows(preferred', group, status)
    BY <1>0, <1>1, <2>1, SelectionConstants DEF MapTypes, MapsFollow, MapFollows, Known, Selection!Known
  <2>3. MapTypes' /\ MapsFollow'
    BY <1>0, <2>1, <2>2 DEF MapTypes, MapsFollow
  <2>4. PinIsSomewhere'
    BY <1>1, <1>2, <2>1, IdleRemembers DEF Known, Selection!Known
  <2> QED BY <1>1, <2>3, <2>4, IdleRemembers, InvPartsPrime
<1>4. ASSUME NEW t \in Selection!Tiers, Selection!EditGroup(a, t)
      PROVE  SelectionInv'
  <2>1. /\ group' = [group EXCEPT ![a] = t]
        /\ preferred' = Selection!SyncPreferred(preferred, group', status)
        /\ selRetained' = Selection!SyncRetained(selRetained, group', status)
        /\ sel' = Selection!SyncPinned(group')
        /\ UNCHANGED <<status, savedPin, userPin>>
    BY <1>4 DEF Selection!EditGroup
  <2>2. group' \in [Accounts -> Selection!Tiers]
    BY <1>0, <2>1 DEF MapTypes
  <2>3. /\ sel' \in Selection!Selections /\ PinFollows(sel', group', status)
        /\ sel'.pinned = sel.pinned /\ sel'.account = sel.account
    BY <1>0, <2>1, <2>2, SyncPinnedTypes, SyncPinnedFollows DEF MapTypes, MapsFollow
  <2>4. MapTypes' /\ MapsFollow'
    BY <1>0, <2>1, <2>2, <2>3, HelperTypes, HelpersFollow DEF MapTypes, MapsFollow
  <2>5. PinIsSomewhere'
    BY <1>1, <1>2, <2>1, <2>3, IdleRemembers DEF Known, Selection!Known
  <2> QED BY <1>1, <2>4, <2>5, IdleRemembers, InvPartsPrime
<1>5. CASE Selection!Delete(a)
  <2> DEFINE s == Selection!Released(sel, a)
  <2>1. /\ status' = [status EXCEPT ![a] = "gone"]
        /\ savedPin' = IF savedPin = a THEN 0 ELSE savedPin
        /\ preferred' = Selection!SyncPreferred(preferred, group, status')
        /\ selRetained' = Selection!SyncRetained(selRetained, group, status')
        /\ sel' = Selection!Settle(s, status')
        /\ userPin' = IF userPin = a THEN 0 ELSE userPin
        /\ group' = group
    BY <1>5 DEF Selection!Delete
  <2>2. status' \in [Accounts -> Selection!Statuses]
        /\ \A b \in Accounts : b # a => status'[b] = status[b]
    BY <1>0, <2>1 DEF MapTypes, Selection!Statuses
  <2>3. s \in Selection!Selections /\ PinFollows(s, group, status) /\ s.account # a
        /\ (sel.account # a => s = sel)
    BY <1>0, HelperTypes, ReleasedFollows DEF MapTypes, MapsFollow
  <2> HIDE DEF s
  <2>4. PinFollows(s, group, status')
    BY <2>2, <2>3 DEF PinFollows, Selection!Selections, Selection!Ids
  <2>5. MapTypes' /\ MapsFollow'
    BY <1>0, <2>1, <2>2, <2>3, <2>4, HelperTypes, HelpersFollow, SettleFollows, SelectionConstants
       DEF MapTypes, MapsFollow
  <2>6. ASSUME userPin # 0, userPin # a
        PROVE  sel' = sel /\ status'[userPin] # "gone"
    <3>1. s = sel /\ sel.pinned /\ sel.account = userPin /\ status'[userPin] # "gone"
      BY <1>2, <2>2, <2>3, <2>6
    <3>2. sel.tier = group[userPin]
      BY <1>0, <2>6, <3>1 DEF MapsFollow, PinFollows
    <3> QED BY <1>2, <2>1, <2>6, <3>1, <3>2 DEF Selection!Settle, Selection!Populated
  <2>7. PinIsSomewhere'
    BY <1>1, <1>2, <2>1, <2>6, IdleRemembers DEF Known, Selection!Known
  <2> QED BY <1>1, <2>5, <2>7, IdleRemembers, InvPartsPrime
<1> QED BY <1>3, <1>4, <1>5

\* MoveAccountToTier and SwapAccountGroups, step by step.
LEMMA SwitchStarts ==
  ASSUME SelectionInv, NEW op \in {"move", "swap"}, NEW a \in Selection!Ids, NEW next \in Admins,
         Selection!Start(op, a, next), next.was = Selection!PinnedNow,
         next.tier \in Selection!Tiers, next.saved = Selection!NoSelection,
         op = "move" => a \in Accounts /\ Known(a),
         op = "swap" => next.tier + 1 \in Selection!Tiers,
         UNCHANGED <<group, status, preferred, selRetained, sel, savedPin, userPin>>
  PROVE  SelectionInv'
<1>0. MapTypes /\ AdminTypes /\ MapsFollow /\ CallRemembers /\ PinIsSomewhere
  BY InvParts
<1>1. /\ AdminTypes' /\ admin'.op = op /\ admin'.pc = 1 /\ admin'.account = a
      /\ admin'.tier = next.tier /\ admin'.was = Selection!PinnedNow
      /\ admin'.saved = Selection!NoSelection
      /\ admin.op = "none"
  <2>1. op \in Selection!Ops
    BY DEF Selection!Ops
  <2> QED BY <1>0, <2>1, Started
<1>2. MapTypes' /\ MapsFollow'
  BY <1>0 DEF MapTypes, MapsFollow
<1>3. Selection!PinnedNow # 0 => Known(Selection!PinnedNow)
  BY <1>0 DEF MapsFollow, PinFollows, Selection!PinnedNow, Known, Selection!Known
<1>4. CallRemembers'
  BY <1>1, <1>3 DEF CallRemembers, Known, Selection!Known, Selection!NoSelection
<1>5. userPin # 0 => sel.pinned /\ sel.account = userPin /\ Known(userPin)
  BY <1>0, <1>1 DEF PinIsSomewhere
<1>6. PinIsSomewhere'
  BY <1>1, <1>5 DEF PinIsSomewhere, Known, Selection!Known, Selection!PinnedNow
<1> QED BY <1>1, <1>2, <1>4, <1>6, InvPartsPrime

LEMMA SwitchGoesOn ==
  ASSUME MapTypes, AdminTypes, CallRemembers, PinIsSomewhere, admin.op \in {"move", "swap"},
         admin.pc \in {1, 2}, Selection!Advance, UNCHANGED <<status, userPin>>
  PROVE  AdminTypes' /\ CallRemembers' /\ PinIsSomewhere'
<1>1. /\ admin' \in Admins /\ admin'.op = admin.op /\ admin'.pc = admin.pc + 1
      /\ admin'.account = admin.account /\ admin'.tier = admin.tier /\ admin'.was = admin.was
      /\ admin'.saved = admin.saved
  BY DEF AdminTypes, Admins, Selection!Advance
<1>2. admin'.pc # 1
  BY <1>1
<1>3. CallRemembers'
  BY <1>1 DEF CallRemembers, Known, Selection!Known
<1>4. PinIsSomewhere'
  BY <1>1, <1>2 DEF PinIsSomewhere, Known, Selection!Known
<1> QED BY <1>1, <1>3, <1>4 DEF AdminTypes

LEMMA MovesKeep ==
  ASSUME SelectionInv,
         \/ \E a \in Accounts, t \in Selection!Tiers : Selection!Move(a, t)
         \/ \E t \in Selection!Tiers : Selection!Swap(t)
         \/ Selection!ApplyMove \/ Selection!ApplySwap \/ Selection!RemapPreferred
  PROVE  SelectionInv'
<1>0. MapTypes /\ AdminTypes /\ MapsFollow /\ CallRemembers /\ PinIsSomewhere
  BY InvParts
<1>w. Selection!PinnedNow \in Selection!Ids
  BY <1>0, SelectionConstants DEF MapTypes, Selection!PinnedNow, Selection!Selections
<1>1. ASSUME NEW a \in Accounts, NEW t \in Selection!Tiers, Selection!Move(a, t)
      PROVE  SelectionInv'
  <2> DEFINE new == [Selection!Idle EXCEPT !.tier = t, !.was = Selection!PinnedNow]
  <2>1. new \in Admins /\ new.was = Selection!PinnedNow /\ new.tier = t /\ new.saved = Selection!NoSelection
    BY <1>w, IdleTypes, SelectionConstants DEF Admins
  <2>2. /\ Known(a) /\ Selection!Start("move", a, new)
        /\ UNCHANGED <<group, status, preferred, selRetained, sel, savedPin, userPin>>
    BY <1>1 DEF Selection!Move, Known
  <2> HIDE DEF new
  <2> QED BY <2>1, <2>2, SwitchStarts, SelectionConstants
<1>2. ASSUME NEW t \in Selection!Tiers, Selection!Swap(t)
      PROVE  SelectionInv'
  <2> DEFINE new == [Selection!Idle EXCEPT !.tier = t, !.was = Selection!PinnedNow,
                                           !.prefs = preferred]
  <2>1. new \in Admins /\ new.was = Selection!PinnedNow /\ new.tier = t /\ new.saved = Selection!NoSelection
    BY <1>0, <1>w, IdleTypes, SelectionConstants DEF Admins, MapTypes
  <2>2. /\ t + 1 \in Selection!Tiers /\ Selection!Start("swap", 0, new)
        /\ UNCHANGED <<group, status, preferred, selRetained, sel, savedPin, userPin>>
    BY <1>2 DEF Selection!Swap
  <2> HIDE DEF new
  <2> QED BY <2>1, <2>2, SwitchStarts, SelectionConstants
<1>3. ASSUME NEW g \in [Accounts -> Selection!Tiers], Selection!Reschedule(g), UNCHANGED <<status, savedPin, userPin>>
      PROVE  MapTypes' /\ MapsFollow'
  BY <1>0, <1>3, HelperTypes, HelpersFollow, SelectionConstants
     DEF Selection!Reschedule, MapTypes, MapsFollow
<1>4. CASE Selection!ApplyMove
  <2>1. /\ admin.op = "move" /\ admin.pc = 1 /\ Selection!Advance
        /\ Selection!Reschedule([group EXCEPT ![admin.account] = admin.tier])
        /\ UNCHANGED <<status, savedPin, userPin>>
    BY <1>4 DEF Selection!ApplyMove, Selection!Step
  <2>2. [group EXCEPT ![admin.account] = admin.tier] \in [Accounts -> Selection!Tiers]
    BY <1>0, <2>1 DEF MapTypes, CallRemembers
  <2>3. MapTypes' /\ MapsFollow'
    BY <1>3, <2>1, <2>2
  <2>4. AdminTypes' /\ CallRemembers' /\ PinIsSomewhere'
    BY <1>0, <2>1, SwitchGoesOn
  <2> QED BY <2>3, <2>4, InvPartsPrime
<1>5. CASE Selection!ApplySwap
  <2>1. /\ admin.op = "swap" /\ admin.pc = 1 /\ Selection!Advance
        /\ Selection!Reschedule([a \in Accounts |-> Selection!Swapped(group[a])])
        /\ UNCHANGED <<status, savedPin, userPin>>
    BY <1>5 DEF Selection!ApplySwap, Selection!Step
  <2>2. [a \in Accounts |-> Selection!Swapped(group[a])] \in [Accounts -> Selection!Tiers]
    BY <1>0, <2>1 DEF MapTypes, CallRemembers, Selection!Swapped
  <2>3. MapTypes' /\ MapsFollow'
    BY <1>3, <2>1, <2>2
  <2>4. AdminTypes' /\ CallRemembers' /\ PinIsSomewhere'
    BY <1>0, <2>1, SwitchGoesOn
  <2> QED BY <2>3, <2>4, InvPartsPrime
<1>6. CASE Selection!RemapPreferred
  <2> DEFINE prefs == [t \in Selection!Tiers |-> admin.prefs[Selection!Swapped(t)]]
  <2>1. /\ admin.op = "swap" /\ admin.pc = 2 /\ Selection!Advance
        /\ preferred' = Selection!SyncPreferred(prefs, group, status)
        /\ UNCHANGED <<group, status, selRetained, sel, savedPin, userPin>>
    BY <1>6 DEF Selection!RemapPreferred, Selection!Step
  <2>2. prefs \in [Selection!Tiers -> Selection!Ids]
    <3>1. \A t \in Selection!Tiers : Selection!Swapped(t) \in Selection!Tiers
      BY <1>0, <2>1 DEF CallRemembers, Selection!Swapped
    <3> QED BY <1>0, <3>1 DEF AdminTypes, Admins
  <2> HIDE DEF prefs
  <2>3. MapTypes' /\ MapsFollow'
    BY <1>0, <2>1, <2>2, HelperTypes, HelpersFollow DEF MapTypes, MapsFollow
  <2>4. AdminTypes' /\ CallRemembers' /\ PinIsSomewhere'
    BY <1>0, <2>1, SwitchGoesOn
  <2> QED BY <2>3, <2>4, InvPartsPrime
<1> QED BY <1>1, <1>2, <1>4, <1>5, <1>6

LEMMA FinishKeeps ==
  ASSUME SelectionInv,
         Selection!MoveFails \/ Selection!FinishMove \/ Selection!FinishSwap
  PROVE  SelectionInv'
<1>0. MapTypes /\ AdminTypes /\ MapsFollow /\ CallRemembers /\ PinIsSomewhere
  BY InvParts
<1>1. /\ admin.op \in {"move", "swap"} /\ admin' = Selection!Idle
      /\ UNCHANGED <<group, status, preferred, selRetained, savedPin, userPin>>
  BY DEF Selection!MoveFails, Selection!FinishMove, Selection!FinishSwap, Selection!Step,
     Selection!Return
<1>2. admin.was # 0 => admin.was \in Accounts /\ Known(admin.was)
  BY <1>0 DEF CallRemembers, AdminTypes, Admins, Selection!Ids
<1>3. userPin # 0 => Known(userPin) /\ admin.was = userPin
  BY <1>0, <1>1 DEF PinIsSomewhere
<1>4. ASSUME sel' = sel \/ \E a \in Accounts : Known(a) /\ sel' = Selection!Select(a, group),
             userPin # 0 => sel'.pinned /\ sel'.account = userPin
      PROVE  SelectionInv'
  <2>1. sel' \in Selection!Selections /\ PinFollows(sel', group, status)
    BY <1>0, <1>4, HelperTypes, HelpersFollow DEF MapTypes, MapsFollow, Known, Selection!Known
  <2>2. MapTypes' /\ MapsFollow'
    BY <1>0, <1>1, <2>1 DEF MapTypes, MapsFollow
  <2>3. PinIsSomewhere'
    BY <1>1, <1>3, <1>4, IdleRemembers DEF Known, Selection!Known
  <2> QED BY <1>1, <2>2, <2>3, IdleRemembers, InvPartsPrime
<1>5. CASE Selection!MoveFails
  <2>1. sel' = sel /\ admin.pc = 1
    BY <1>5 DEF Selection!MoveFails, Selection!Step
  <2>2. userPin # 0 => sel'.pinned /\ sel'.account = userPin
    BY <1>0, <2>1 DEF PinIsSomewhere
  <2> QED BY <1>4, <2>1, <2>2
<1>6. CASE Selection!FinishMove
  <2>1. sel' = Selection!PinAgain(admin.was)
    BY <1>6 DEF Selection!FinishMove
  <2>2. sel' = sel \/ \E a \in Accounts : Known(a) /\ sel' = Selection!Select(a, group)
    BY <1>2, <2>1 DEF Selection!PinAgain
  <2>3. userPin # 0 => sel'.pinned /\ sel'.account = userPin
    BY <1>3, <2>1 DEF Selection!PinAgain, Selection!Select, Known
  <2> QED BY <1>4, <2>2, <2>3
<1>7. CASE Selection!FinishSwap
  <2> DEFINE chosen == IF admin.was # 0 THEN {admin.was}
                       ELSE IF preferred[1] # 0 THEN {preferred[1]} ELSE Selection!InTier(1)
  <2>1. IF chosen = {} THEN UNCHANGED sel ELSE \E a \in chosen : sel' = Selection!Select(a, group)
    BY <1>7 DEF Selection!FinishSwap
  <2>2. ASSUME NEW a \in chosen
        PROVE  a \in Accounts /\ Known(a)
    <3>1. 1 \in Selection!Tiers
      BY AccountAssumption DEF Selection!Tiers
    <3>2. preferred[1] # 0 => preferred[1] \in Accounts /\ Known(preferred[1])
      BY <1>0, <3>1 DEF MapTypes, MapsFollow, MapFollows, Selection!Ids, Known, Selection!Known
    <3>3. \A b \in Selection!InTier(1) : b \in Accounts /\ Known(b)
      BY DEF Selection!InTier, Known
    <3> QED BY <1>2, <3>2, <3>3
  <2>3. userPin # 0 => chosen = {userPin}
    BY <1>3
  <2> HIDE DEF chosen
  <2>4. sel' = sel \/ \E a \in Accounts : Known(a) /\ sel' = Selection!Select(a, group)
    BY <2>1, <2>2
  <2>5. userPin # 0 => sel'.pinned /\ sel'.account = userPin
    BY <2>1, <2>3 DEF Selection!Select
  <2> QED BY <1>4, <2>4, <2>5
<1> QED BY <1>5, <1>6, <1>7

LEMMA SelectionRestarts ==
  ASSUME SelectionInv, Selection!Restart
  PROVE  SelectionInv'
<1>0. MapTypes /\ AdminTypes /\ MapsFollow /\ CallRemembers /\ PinIsSomewhere
  BY InvParts
<1> DEFINE keep == savedPin # 0 /\ status[savedPin] = "ready"
<1>1. /\ sel' = IF keep THEN Selection!Select(savedPin, group) ELSE Selection!NoSelection
      /\ savedPin' = IF keep THEN savedPin ELSE 0
      /\ userPin' = IF keep /\ userPin = savedPin THEN userPin ELSE 0
      /\ preferred' = [t \in Selection!Tiers |-> 0] /\ selRetained' = [t \in Selection!Tiers |-> 0]
      /\ admin' = Selection!Idle /\ UNCHANGED <<group, status>>
  BY DEF Selection!Restart
<1>2. keep => savedPin \in Accounts
  BY <1>0 DEF MapTypes, Selection!Ids
<1>3. MapTypes'
  BY <1>0, <1>1, <1>2, HelperTypes, SelectionConstants DEF MapTypes
<1>4. MapsFollow'
  BY <1>0, <1>1, <1>2, HelpersFollow DEF MapTypes, MapsFollow
<1>5. PinIsSomewhere'
  BY <1>1, <1>2, IdleRemembers DEF Known, Selection!Known, Selection!Select
<1> QED BY <1>1, <1>3, <1>4, <1>5, IdleRemembers, InvPartsPrime

LEMMA SelectionInitial == Selection!Init => SelectionInv
<1> SUFFICES ASSUME Selection!Init
             PROVE  SelectionInv
  OBVIOUS
<1>1. /\ admin = Selection!Idle /\ sel = Selection!NoSelection /\ userPin = 0 /\ savedPin = 0
      /\ preferred = [t \in Selection!Tiers |-> 0] /\ selRetained = [t \in Selection!Tiers |-> 0]
      /\ group \in [Accounts -> Selection!Tiers] /\ status = [a \in Accounts |-> "ready"]
  BY DEF Selection!Init
<1>2. MapTypes
  BY <1>1, SelectionConstants DEF MapTypes, Selection!Statuses
<1>3. MapsFollow
  BY <1>1, <1>2, HelpersFollow DEF MapTypes, MapsFollow
<1>4. AdminTypes /\ CallRemembers /\ PinIsSomewhere
  BY <1>1, IdleTypes DEF AdminTypes, CallRemembers, PinIsSomewhere, Selection!NoSelection
<1> QED BY <1>2, <1>3, <1>4, InvParts

LEMMA SelectionStep == SelectionInv /\ [Selection!Next]_selectionVars => SelectionInv'
<1> SUFFICES ASSUME SelectionInv, [Selection!Next]_selectionVars
             PROVE  SelectionInv'
  OBVIOUS
<1>1. CASE Selection!DesktopStep
  <2>1. CASE \E a \in Accounts :
               \/ Selection!Pin(a) \/ Selection!SetGroupActive(a) \/ Selection!Toggle(a)
               \/ Selection!Delete(a)
               \/ \E t \in Selection!Tiers : Selection!EditGroup(a, t) \/ Selection!Move(a, t)
    BY <2>1, PinCallsKeep, ToggleKeeps, EditsKeep, MovesKeep
  <2>2. CASE \/ Selection!PersistPin \/ Selection!Unpin \/ Selection!PersistUnpin
             \/ Selection!ToggleSaved \/ Selection!ToggleFails
    BY <2>2, PinCallsKeep, ToggleEndKeeps
  <2>3. CASE \/ Selection!ApplyMove \/ Selection!MoveFails \/ Selection!FinishMove
             \/ (\E t \in Selection!Tiers : Selection!Swap(t))
             \/ Selection!ApplySwap \/ Selection!RemapPreferred \/ Selection!FinishSwap
    BY <2>3, MovesKeep, FinishKeeps
  <2> QED BY <1>1, <2>1, <2>2, <2>3 DEF Selection!DesktopStep
<1>2. CASE UNCHANGED selectionVars
  <2>0. MapTypes /\ AdminTypes /\ MapsFollow /\ CallRemembers /\ PinIsSomewhere
    BY InvParts
  <2>1. MapTypes' /\ MapsFollow' /\ AdminTypes'
    BY <1>2, <2>0 DEF selectionVars, MapTypes, MapsFollow, AdminTypes
  <2>2. CallRemembers' /\ PinIsSomewhere'
    BY <1>2, <2>0 DEF selectionVars, CallRemembers, PinIsSomewhere, Known, Selection!Known
  <2> QED BY <2>1, <2>2, InvPartsPrime
<1> QED BY <1>1, <1>2, ReportsKeep, SelectionRestarts DEF Selection!Next

LEMMA SelectionParts ==
  /\ MCInit => Selection!Init
  /\ [MCNext]_allVars => [Selection!Next]_selectionVars
BY DEF MCInit, MCNext, allVars, selectionVars

\* Between calls, the selection is the user's pin: a ready pinned account that may
\* serve a request comes first in its list.
LEMMA PinComesFirst ==
  ASSUME SelectionInv
  PROVE  Selection!PinHonoured
<1> SUFFICES ASSUME admin = Selection!Idle, userPin # 0, status[userPin] = "ready",
                    NEW search \in BOOLEAN, search => userPin \in OAuth
             PROVE  Selection!Choice(search) =
                      {[tier |-> group[userPin], firsts |-> {userPin}, pinned |-> TRUE]}
  BY DEF Selection!PinHonoured
<1>0. MapTypes /\ MapsFollow /\ PinIsSomewhere
  BY InvParts
<1>1. userPin \in Accounts /\ sel.pinned /\ sel.account = userPin
  BY <1>0, PinId, IdleTypes DEF PinIsSomewhere
<1>2. sel.tier = group[userPin] /\ sel.tier > 0
  BY <1>0, <1>1 DEF MapsFollow, PinFollows, MapTypes, Selection!Tiers
<1>3. userPin \in Selection!Eligible(sel.tier, search)
  BY <1>1, <1>2 DEF Selection!Eligible
<1>4. ~(search /\ sel.account \notin OAuth)
  BY <1>1
<1> QED BY <1>1, <1>2, <1>3, <1>4 DEF Selection!Choice

\* The account the user pinned comes first in the list of every request it can
\* serve, and the choices per group and the pinned tier follow the accounts as they
\* change group, for any accounts, groups, calls and restarts (selectAccount,
\* applySchedulingUpdates, restoreRuntimeStateIfVersion,
\* resolveActiveSelectionLocked).
THEOREM ChoiceStands == MCSpec => []ChoiceIsKept
<1>1. SelectionInv => ChoiceIsKept
  BY PinComesFirst DEF SelectionInv, ChoiceIsKept
<1>2. MCSpec => []SelectionInv
  BY SelectionParts, SelectionInitial, SelectionStep, PTL DEF MCSpec
<1> QED BY <1>1, <1>2, PTL

=============================================================================
