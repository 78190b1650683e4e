---------------------- MODULE EndpointAdmission_proofs ----------------------
(***************************************************************************)
(* Proofs about EndpointAdmission, for any finite number of attempts, any  *)
(* number of calls that overlap in any way, and any bounds.                *)
(***************************************************************************)
EXTENDS EndpointAdmission, FiniteSetTheorems, TLAPS

\* An attempt that holds an admission holds it on an object.
HoldersHaveObject ==
  \A a \in Attempts : att[a].pc \in {"gate", "config", "sent"} => att[a].inst \in Objects

\* While the gate is held the object that was seen idle stays idle: an attempt
\* that registers later stops at the gate.
GateHolds ==
  /\ \A o \in Ops : op[o].held => gate
  /\ \A o \in Ops : op[o].pc = "drain" => ~op[o].drained /\ op[o].inst # 0
  /\ \A o \in Ops : Past(o) /\ op[o].drained /\ op[o].held =>
       \A a \in Attempts : att[a].pc \in {"config", "sent"} => att[a].inst # op[o].inst

\* A call holds the gate from its closing to its opening, and an enable never
\* closes it.
HeldDuring ==
  \A o \in Ops :
    /\ op[o].held => op[o].pc \in {"persist", "wait", "drain", "publish", "rollback",
                                   "deleteRow", "remove", "abort", "release"}
    /\ op[o].held /\ op[o].pc = "persist" => ~op[o].to
    /\ op[o].pc = "gate" /\ op[o].kind # "delete" => ~op[o].to

\* A revision stands for one configuration.
RevisionIsConfig ==
  /\ live.rev <= made.rev
  /\ \A a \in Attempts :
       /\ att[a].rev <= made.rev
       /\ att[a].pc \notin {"idle", "done"} /\ live.inst # 0 /\ live.rev = att[a].rev
            => live.cfg = att[a].cfg
       /\ att[a].pc = "sent" => att[a].uses = att[a].cfg
  /\ live.enabled => live.inst # 0

IInv ==
  TypeOK /\ AdmissionsCounted /\ HoldersHaveObject /\ GateHolds /\ HeldDuring /\ RevisionIsConfig

LEMMA InvInit == Init => IInv
<1> SUFFICES ASSUME Init PROVE IInv
  OBVIOUS
<1>1. /\ \A a \in Attempts : att[a] = IdleAttempt
      /\ \A o \in Ops : op[o] = IdleOp
      /\ \A i \in Objects : admissions[i] = 0
  BY DEF Init
<1>2. TypeOK
  <2>1. 0 \in 0..MaxObjects /\ 1 \in 0..MaxObjects
    BY AdmissionAssumption
  <2>2. \/ /\ rec = [exists |-> TRUE, enabled |-> TRUE, cfg |-> "initial"]
           /\ live = [inst |-> 1, rev |-> 1, enabled |-> TRUE, cfg |-> "initial"]
           /\ made = [inst |-> 1, rev |-> 1]
        \/ rec = NoRecord /\ live = NoObject /\ made = [inst |-> 0, rev |-> 0]
    BY DEF Init
  <2>3. /\ [exists |-> TRUE, enabled |-> TRUE, cfg |-> "initial"] \in Records
        /\ NoRecord \in Records
    BY DEF Records, NoRecord, Configs
  <2>5. /\ [inst |-> 1, rev |-> 1, enabled |-> TRUE, cfg |-> "initial"] \in Lives
        /\ NoObject \in Lives
    BY <2>1 DEF Lives, NoObject, Configs
  <2>7. /\ [inst |-> 1, rev |-> 1] \in [inst : 0..MaxObjects, rev : Nat]
        /\ [inst |-> 0, rev |-> 0] \in [inst : 0..MaxObjects, rev : Nat]
    BY <2>1
  <2>6. rec \in Records /\ live \in Lives /\ made \in [inst : 0..MaxObjects, rev : Nat]
    BY <2>2, <2>3, <2>5, <2>7, Zenon
  <2>4. IdleAttempt \in AttemptRecords /\ IdleOp \in OpRecords
    BY <2>1 DEF AttemptRecords, AttemptPCs, IdleAttempt, Configs, OpRecords, OpPCs, IdleOp
  <2> QED
    BY <2>4, <2>6 DEF Init, TypeOK
<1>3. AdmissionsCounted
  <2>1. \A i \in Objects : Holders(i) = {}
    BY <1>1 DEF Holders, IdleAttempt
  <2> QED
    BY <1>1, <2>1, FS_EmptySet DEF AdmissionsCounted
<1>4. HoldersHaveObject /\ GateHolds /\ HeldDuring
  BY <1>1 DEF HoldersHaveObject, GateHolds, HeldDuring, IdleAttempt, IdleOp, Past
<1>5. RevisionIsConfig
  BY <1>1 DEF Init, RevisionIsConfig, IdleAttempt, NoObject
<1> QED
  BY <1>2, <1>3, <1>4, <1>5 DEF IInv

-----------------------------------------------------------------------------
(* Attempts.                                                                *)

\* An attempt joins or leaves the holders of one object and its counter moves
\* by one, or neither changes.
LEMMA CountStep ==
  ASSUME IInv, NEW a \in Attempts, Attempt(a)
  PROVE  admissions' \in [Objects -> Nat] /\ AdmissionsCounted'
<1>1. \A b \in Attempts \ {a} : att'[b] = att[b]
  BY DEF Attempt, Plan, Register, CheckGate, CheckConfig, Release, GotoA, IInv, TypeOK
<1>2. /\ admissions \in [Objects -> Nat] /\ AdmissionsCounted /\ Objects \subseteq Nat
      /\ \A i \in Objects : IsFiniteSet(Holders(i))
  <2>1. \A i \in Objects : Holders(i) \subseteq Attempts
    BY DEF Holders
  <2> QED
    BY <2>1, AdmissionAssumption, FS_Subset DEF IInv, TypeOK, Objects
<1> DEFINE Holds == att[a].pc \in {"gate", "config", "sent"}
           HoldsNext == att'[a].pc \in {"gate", "config", "sent"}
<1>3. CASE /\ UNCHANGED admissions /\ (Holds <=> HoldsNext)
           /\ Holds => att'[a].inst = att[a].inst
  <2>1. \A i \in Objects : Holders(i)' = Holders(i)
    BY <1>1, <1>3 DEF Holders
  <2> QED
    BY <1>2, <1>3, <2>1 DEF AdmissionsCounted
<1>4. CASE /\ ~Holds /\ HoldsNext /\ att'[a].inst \in Objects
           /\ admissions' = [admissions EXCEPT ![att'[a].inst] = @ + 1]
  <2> DEFINE j == att'[a].inst
  <2>1. \A i \in Objects : Holders(i)' = IF i = j THEN Holders(i) \cup {a} ELSE Holders(i)
    BY <1>1, <1>4 DEF Holders
  <2>2. a \notin Holders(j)
    BY <1>4 DEF Holders
  <2>3. Cardinality(Holders(j) \cup {a}) = Cardinality(Holders(j)) + 1
    BY <1>2, <1>4, <2>2, FS_AddElement
  <2>4. admissions[j] = Cardinality(Holders(j)) /\ admissions[j] \in Nat /\ j \in Objects
    BY <1>2, <1>4 DEF AdmissionsCounted
  <2>5. admissions' = [admissions EXCEPT ![j] = admissions[j] + 1]
    BY <1>4
  <2> HIDE DEF j
  <2>6. admissions' \in [Objects -> Nat]
    BY <1>2, <2>4, <2>5
  <2> QED
    BY <1>2, <2>1, <2>3, <2>4, <2>5, <2>6 DEF AdmissionsCounted
<1>5. CASE /\ Holds /\ ~HoldsNext /\ att[a].inst \in Objects
           /\ admissions' = [admissions EXCEPT ![att[a].inst] = @ - 1]
  <2> DEFINE j == att[a].inst
  <2>1. \A i \in Objects : Holders(i)' = IF i = j THEN Holders(i) \ {a} ELSE Holders(i)
    BY <1>1, <1>5 DEF Holders
  <2>2. a \in Holders(j)
    BY <1>5 DEF Holders
  <2>3. /\ Cardinality(Holders(j) \ {a}) = Cardinality(Holders(j)) - 1
        /\ Cardinality(Holders(j)) \in Nat /\ Cardinality(Holders(j) \ {a}) \in Nat
    BY <1>2, <1>5, <2>2, FS_RemoveElement, FS_CardinalityType
  <2>4. admissions[j] = Cardinality(Holders(j)) /\ admissions[j] - 1 \in Nat /\ j \in Objects
    BY <1>2, <1>5, <2>3 DEF AdmissionsCounted
  <2>5. admissions' = [admissions EXCEPT ![j] = admissions[j] - 1]
    BY <1>5
  <2> HIDE DEF j
  <2>6. admissions' \in [Objects -> Nat]
    BY <1>2, <2>4, <2>5
  <2> QED
    BY <1>2, <2>1, <2>3, <2>4, <2>5, <2>6 DEF AdmissionsCounted
<1>6. CASE Plan(a)
  BY <1>3, <1>6 DEF Plan, IInv, TypeOK, AttemptRecords
<1>7. CASE Register(a)
  BY <1>3, <1>4, <1>7 DEF Register, GotoA, IInv, TypeOK, AttemptRecords, Lives, Objects
<1>8. CASE CheckGate(a)
  BY <1>3, <1>5, <1>8 DEF CheckGate, GotoA, Returned, IInv, TypeOK, AttemptRecords,
     HoldersHaveObject
<1>9. CASE CheckConfig(a)
  BY <1>3, <1>5, <1>9 DEF CheckConfig, GotoA, Returned, IInv, TypeOK, AttemptRecords,
     HoldersHaveObject
<1>10. CASE Release(a, "waiting") \/ Release(a, "done")
  BY <1>5, <1>10 DEF Release, GotoA, Returned, IInv, TypeOK, AttemptRecords, HoldersHaveObject
<1> QED
  BY <1>6, <1>7, <1>8, <1>9, <1>10 DEF Attempt

LEMMA AttemptStep ==
  ASSUME IInv, NEW a \in Attempts, Attempt(a)
  PROVE  IInv'
<1>1. UNCHANGED <<rec, live, gate, op, torn, made>>
  BY DEF Attempt, Plan, Register, CheckGate, CheckConfig, Release
<1>2. \A b \in Attempts \ {a} : att'[b] = att[b]
  BY DEF Attempt, Plan, Register, CheckGate, CheckConfig, Release, GotoA, IInv, TypeOK
<1>3. /\ live \in Lives /\ Objects \subseteq 0..MaxObjects /\ att[a] \in AttemptRecords
      /\ made.rev \in Nat
  BY DEF IInv, TypeOK, Objects
<1>4. att' \in [Attempts -> AttemptRecords]
  BY <1>3 DEF Attempt, Plan, Register, CheckGate, CheckConfig, Release, GotoA, IInv, TypeOK,
     AttemptRecords, AttemptPCs, Lives
<1>5. TypeOK' /\ AdmissionsCounted'
  BY <1>1, <1>4, CountStep DEF IInv, TypeOK
<1>6. /\ att'[a].pc \in {"gate", "config", "sent"} => att'[a].inst \in Objects
      /\ att'[a].pc \in {"config", "sent"} =>
           att'[a].inst = att[a].inst /\ (att[a].pc \in {"config", "sent"} \/ ~gate)
  BY <1>3 DEF Attempt, Plan, Register, CheckGate, CheckConfig, Release, GotoA, GateOpen,
     IInv, TypeOK, AttemptRecords, Lives, Objects, HoldersHaveObject
<1>7. HoldersHaveObject'
  BY <1>2, <1>6 DEF IInv, HoldersHaveObject
<1>8. GateHolds' /\ HeldDuring'
  BY <1>1, <1>2, <1>6 DEF IInv, GateHolds, HeldDuring, Past
<1>9. /\ att'[a].rev <= made.rev
      /\ att'[a].pc \notin {"idle", "done"} /\ live.inst # 0 /\ live.rev = att'[a].rev
           => live.cfg = att'[a].cfg
      /\ att'[a].pc = "sent" => att'[a].uses = att'[a].cfg
  BY <1>3 DEF Attempt, Plan, Register, CheckGate, CheckConfig, StillPlanned, Release, GotoA,
     IInv, TypeOK, AttemptRecords, Lives, RevisionIsConfig
<1>10. RevisionIsConfig'
  BY <1>1, <1>2, <1>9 DEF IInv, RevisionIsConfig
<1> QED
  BY <1>5, <1>7, <1>8, <1>10 DEF IInv

-----------------------------------------------------------------------------
(* Administrative calls.                                                    *)

\* A call leaves attempts alone, and a new revision is above all others.
LEMMA OperateShape ==
  ASSUME IInv, NEW o \in Ops, Operate(o)
  PROVE  /\ UNCHANGED <<admissions, att>>
         /\ RevisionIsConfig'
<1>1. UNCHANGED <<admissions, att>>
  BY DEF Operate, SetAvailability, Delete, Create, Edit, BeginAvailability, ReadRecord, CloseGate,
     PersistAvailability, StartDrain, Drained, DrainTimeout, PublishAvailability, Rollback,
     OpenGate, BeginDelete, DeleteRow, RemoveObject, BeginCreate, InsertRow, AddObject, BeginEdit,
     ReadExisting, UpdateRow, LookUpObject, ApplyConfig
<1>2. made.rev \in Nat /\ made.inst \in 0..MaxObjects /\ live \in Lives
      /\ \A a \in Attempts : att[a].rev \in Nat
  BY DEF IInv, TypeOK, AttemptRecords
<1>3. CASE UNCHANGED <<live, made>>
  BY <1>1, <1>3 DEF IInv, RevisionIsConfig
<1>4. CASE /\ made'.rev = made.rev + 1 /\ live'.rev = made.rev + 1 /\ live'.inst # 0
  BY <1>1, <1>2, <1>4 DEF IInv, RevisionIsConfig
<1>5. CASE live' = NoObject /\ UNCHANGED made
  BY <1>1, <1>2, <1>5 DEF IInv, RevisionIsConfig, NoObject
<1>6. CASE PublishAvailability(o)
  BY <1>2, <1>3, <1>4, <1>6 DEF PublishAvailability, NewRevision, IInv, TypeOK, Lives
<1>7. CASE RemoveObject(o)
  BY <1>5, <1>7 DEF RemoveObject
<1>8. CASE AddObject(o)
  BY <1>2, <1>3, <1>4, <1>8 DEF AddObject, NewObject, NewRevision
<1>9. CASE ApplyConfig(o)
  <2>1. \/ UNCHANGED <<live, made>>
        \/ made'.rev = made.rev + 1 /\ live'.rev = made.rev + 1 /\ live'.inst # 0
    BY <1>2, <1>9 DEF ApplyConfig, NewObject, NewRevision, IInv, TypeOK, Lives
  <2> QED
    BY <2>1, <1>3, <1>4
<1> QED
  BY <1>1, <1>3, <1>6, <1>7, <1>8, <1>9 DEF Operate, SetAvailability, Delete, Create, Edit,
     BeginAvailability, ReadRecord, CloseGate, PersistAvailability, StartDrain, Drained,
     DrainTimeout, Rollback, OpenGate, BeginDelete, DeleteRow, BeginCreate, InsertRow, BeginEdit,
     ReadExisting, UpdateRow, LookUpObject

\* The row, the object, the gate and the call itself keep their types.
LEMMA OperateTypes ==
  ASSUME IInv, NEW o \in Ops, Operate(o)
  PROVE  TypeOK'
<1>1. /\ rec \in Records /\ live \in Lives /\ gate \in BOOLEAN /\ torn \in BOOLEAN
      /\ op \in [Ops -> OpRecords] /\ op[o] \in OpRecords
      /\ made.inst \in 0..MaxObjects /\ made.rev \in Nat
      /\ made \in [inst : 0..MaxObjects, rev : Nat] /\ MaxObjects \in Nat
      /\ 0 \in 0..MaxObjects
  BY AdmissionAssumption DEF IInv, TypeOK
<1>2. op' \in [Ops -> OpRecords]
  <2>1. \A x \in Ops \ {o} : op'[x] = op[x] \/ op'[x] = [op[x] EXCEPT !.held = FALSE]
    BY <1>1 DEF Operate, SetAvailability, Delete, Create, Edit, GotoO, BeginAvailability,
       ReadRecord, CloseGate, PersistAvailability, StartDrain, Drained, DrainTimeout,
       PublishAvailability, Rollback, OpenGate, BeginDelete, DeleteRow, RemoveObject, BeginCreate,
       InsertRow, AddObject, BeginEdit, ReadExisting, UpdateRow, LookUpObject, ApplyConfig
  <2>12. op' = [x \in Ops |-> op'[x]]
    BY <1>1 DEF Operate, SetAvailability, Delete, Create, Edit, GotoO, BeginAvailability,
       ReadRecord, CloseGate, PersistAvailability, StartDrain, Drained, DrainTimeout,
       PublishAvailability, Rollback, OpenGate, BeginDelete, DeleteRow, RemoveObject, BeginCreate,
       InsertRow, AddObject, BeginEdit, ReadExisting, UpdateRow, LookUpObject, ApplyConfig
  <2> SUFFICES op'[o] \in OpRecords
    <3>1. \A x \in Ops \ {o} : op[x] \in OpRecords /\ [op[x] EXCEPT !.held = FALSE] \in OpRecords
      BY <1>1 DEF OpRecords
    <3> QED
      BY <2>1, <2>12, <3>1
  <2>2. \A pc \in OpPCs : GotoO(o, pc) => op'[o] \in OpRecords
    BY <1>1 DEF GotoO, OpRecords
  <2>3. CASE \E to \in BOOLEAN : BeginAvailability(o, to) \/ BeginCreate(o, to) \/ ReadExisting(o, to)
    BY <1>1, <2>3 DEF BeginAvailability, BeginCreate, ReadExisting, OpRecords, OpPCs, Records
  <2>4. CASE ReadRecord(o) \/ CloseGate(o)
    BY <1>1, <2>4 DEF ReadRecord, CloseGate, OpRecords, OpPCs, Records
  <2>5. CASE StartDrain(o) \/ Drained(o) \/ LookUpObject(o)
    BY <1>1, <2>5 DEF StartDrain, Drained, LookUpObject, AfterDrain, OpRecords, OpPCs, Lives
  <2>6. CASE BeginDelete(o) \/ BeginEdit(o)
    BY <1>1, <2>6 DEF BeginDelete, BeginEdit, OpRecords, OpPCs
  <2>7. CASE OpenGate(o)
    BY <1>1, <2>7 DEF OpenGate, OpRecords, OpPCs
  <2>8. CASE \/ PersistAvailability(o) \/ DrainTimeout(o) \/ PublishAvailability(o)
             \/ Rollback(o) \/ DeleteRow(o) \/ RemoveObject(o)
    <3>1. \E pc \in OpPCs : GotoO(o, pc)
      BY <2>8 DEF PersistAvailability, DrainTimeout, PublishAvailability, Rollback, DeleteRow,
         RemoveObject, AfterDrain, OpPCs
    <3> QED
      BY <2>2, <3>1
  <2>9. CASE InsertRow(o) \/ AddObject(o) \/ UpdateRow(o) \/ ApplyConfig(o)
    <3>1. \E pc \in OpPCs : GotoO(o, pc)
      BY <2>9 DEF InsertRow, AddObject, UpdateRow, ApplyConfig, OpPCs
    <3> QED
      BY <2>2, <3>1
  <2> QED
    BY <2>3, <2>4, <2>5, <2>6, <2>7, <2>8, <2>9 DEF Operate, SetAvailability, Delete, Create, Edit
<1>3. rec' \in Records
  <2>1. CASE UNCHANGED rec
    BY <1>1, <2>1
  <2>2. CASE PersistAvailability(o)
    BY <1>1, <2>2 DEF PersistAvailability, OpRecords, Records
  <2>5. NoRecord \in Records
    BY DEF NoRecord, Records, Configs
  <2>6. \A e \in BOOLEAN : /\ [rec EXCEPT !.enabled = e] \in Records
                           /\ [exists |-> TRUE, enabled |-> e, cfg |-> o] \in Records
                           /\ [rec EXCEPT !.enabled = e, !.cfg = o] \in Records
    <3>1. ASSUME NEW e \in BOOLEAN PROVE [rec EXCEPT !.enabled = e] \in Records
      BY <1>1 DEF Records
    <3>2. ASSUME NEW r \in Records PROVE [r EXCEPT !.cfg = o] \in Records
      BY DEF Records, Configs
    <3> QED
      BY <3>1, <3>2 DEF Records, Configs
  <2>7. op[o].prev \in BOOLEAN /\ op[o].to \in BOOLEAN /\ EditedAvailability(o) \in BOOLEAN
    BY <1>1 DEF OpRecords, EditedAvailability
  <2>3. CASE InsertRow(o) \/ UpdateRow(o) \/ DeleteRow(o)
    BY <1>1, <2>3, <2>5, <2>6, <2>7 DEF InsertRow, UpdateRow, DeleteRow
  <2>4. CASE Rollback(o) \/ AddObject(o)
    <3>1. rec' \in {rec, NoRecord, [rec EXCEPT !.enabled = op[o].prev],
                   [rec EXCEPT !.enabled = FALSE]}
      BY <2>4 DEF Rollback, RolledBack, AddObject
    <3> QED
      BY <1>1, <2>5, <2>6, <2>7, <3>1
  <2> QED
    BY <2>1, <2>2, <2>3, <2>4 DEF Operate, SetAvailability, Delete, Create, Edit,
       BeginAvailability, ReadRecord, StartDrain, Drained, DrainTimeout, PublishAvailability,
       BeginDelete, RemoveObject, BeginCreate, BeginEdit, ReadExisting, LookUpObject, ApplyConfig,
       CloseGate, OpenGate
<1>6. gate' \in BOOLEAN
  <2>1. gate' \in {gate, TRUE, FALSE}
    BY DEF Operate, SetAvailability, Delete, Create, Edit, BeginAvailability, ReadRecord, CloseGate,
       PersistAvailability, StartDrain, Drained, DrainTimeout, PublishAvailability, Rollback,
       OpenGate, BeginDelete, DeleteRow, RemoveObject, BeginCreate, InsertRow, AddObject, BeginEdit,
       ReadExisting, UpdateRow, LookUpObject, ApplyConfig
  <2> QED
    BY <1>1, <2>1
<1>7. torn' \in BOOLEAN
  <2>1. torn' = torn \/ torn' = (torn \/ rec.exists)
    BY Zenon DEF Operate, SetAvailability, Delete, Create, Edit, BeginAvailability, ReadRecord,
       CloseGate, PersistAvailability, StartDrain, Drained, DrainTimeout, PublishAvailability,
       Rollback, OpenGate, BeginDelete, DeleteRow, RemoveObject, BeginCreate, InsertRow, AddObject,
       BeginEdit, ReadExisting, UpdateRow, LookUpObject, ApplyConfig
  <2> QED
    BY <1>1, <2>1, Zenon
<1>4. live' \in Lives /\ made' \in [inst : 0..MaxObjects, rev : Nat]
  <2>1. CASE UNCHANGED <<live, made>>
    BY <1>1, <2>1
  <2>2. CASE PublishAvailability(o)
    <3>1. NewRevision \in Nat /\ op[o].to \in BOOLEAN
      BY <1>1 DEF NewRevision, OpRecords
    <3>2. /\ [live EXCEPT !.enabled = op[o].to, !.rev = NewRevision] \in Lives
          /\ [made EXCEPT !.rev = NewRevision] \in [inst : 0..MaxObjects, rev : Nat]
      BY <1>1, <3>1 DEF Lives
    <3> QED
      BY <1>1, <2>2, <3>2 DEF PublishAvailability
  <2>3. CASE RemoveObject(o)
    BY <1>1, <2>3 DEF RemoveObject, NoObject, Lives, Configs
  <2>4. \A e \in BOOLEAN : CanAdd => /\ NewObject(e, o) \in Lives
                                     /\ [inst |-> made.inst + 1, rev |-> NewRevision]
                                          \in [inst : 0..MaxObjects, rev : Nat]
    BY <1>1 DEF CanAdd, NewObject, NewRevision, Lives, Configs
  <2>5. CASE AddObject(o)
    BY <1>1, <2>4, <2>5 DEF AddObject, OpRecords
  <2>6. CASE ApplyConfig(o)
    <3>1. EditedAvailability(o) \in BOOLEAN /\ NewRevision \in Nat
      BY <1>1 DEF EditedAvailability, NewRevision
    <3>2. /\ [inst |-> live.inst, rev |-> NewRevision, enabled |-> EditedAvailability(o),
            cfg |-> o] \in Lives
          /\ [made EXCEPT !.rev = NewRevision] \in [inst : 0..MaxObjects, rev : Nat]
      BY <1>1, <3>1 DEF Lives, Configs
    <3> HIDE DEF Lives
    <3> QED
      BY <1>1, <2>4, <2>6, <3>1, <3>2 DEF ApplyConfig
  <2> QED
    BY <2>1, <2>2, <2>3, <2>5, <2>6 DEF Operate, SetAvailability, Delete, Create, Edit,
       BeginAvailability, ReadRecord, CloseGate, PersistAvailability, StartDrain, Drained,
       DrainTimeout, Rollback, OpenGate, BeginDelete, DeleteRow, BeginCreate, InsertRow, BeginEdit,
       ReadExisting, UpdateRow, LookUpObject
<1>5. UNCHANGED <<admissions, att>>
  BY OperateShape
<1> QED
  BY <1>2, <1>3, <1>4, <1>5, <1>6, <1>7 DEF IInv, TypeOK

\* The gate argument.  held comes with the gate; a drain that saw zero saw no
\* holder; every other step keeps the object, or leaves the past part.
LEMMA OperateGate ==
  ASSUME IInv, NEW o \in Ops, Operate(o)
  PROVE  GateHolds'
<1>1. UNCHANGED att
  BY OperateShape
<1>2. op \in [Ops -> OpRecords] /\ op[o] \in OpRecords /\ GateHolds
  BY DEF IInv, TypeOK
<1>3. \A a \in Attempts : att[a].pc \in {"config", "sent"} => att[a].inst \in Objects
  BY DEF IInv, HoldersHaveObject
<1>6. op[o].held => op[o].pc # "read" /\ (op[o].pc = "persist" => ~op[o].to)
  BY DEF IInv, HeldDuring
<1>4. CASE OpenGate(o)
  <2>1. \A x \in Ops : ~op'[x].held /\ (op'[x].pc = "drain" =>
                          op[x].pc = "drain" /\ op'[x].drained = op[x].drained
                          /\ op'[x].inst = op[x].inst)
    BY <1>2, <1>4 DEF OpenGate, OpRecords
  <2> QED
    BY <1>2, <2>1 DEF GateHolds
<1>5. CASE ~OpenGate(o)
  <2>1. \A x \in Ops \ {o} : op'[x] = op[x]
    BY <1>2, <1>5 DEF Operate, SetAvailability, Delete, Create, Edit, GotoO, BeginAvailability,
       ReadRecord, CloseGate, PersistAvailability, StartDrain, Drained, DrainTimeout,
       PublishAvailability, Rollback, BeginDelete, DeleteRow, RemoveObject, BeginCreate,
       InsertRow, AddObject, BeginEdit, ReadExisting, UpdateRow, LookUpObject, ApplyConfig
  <2>2. gate' = gate \/ (gate' = TRUE /\ CloseGate(o))
    BY <1>5 DEF Operate, SetAvailability, Delete, Create, Edit, BeginAvailability,
       ReadRecord, CloseGate, PersistAvailability, StartDrain, Drained, DrainTimeout,
       PublishAvailability, Rollback, BeginDelete, DeleteRow, RemoveObject, BeginCreate,
       InsertRow, AddObject, BeginEdit, ReadExisting, UpdateRow, LookUpObject, ApplyConfig
  <2>3. \A x \in Ops \ {o} : /\ op'[x].held => gate'
                             /\ op'[x].pc = "drain" => ~op'[x].drained /\ op'[x].inst # 0
                             /\ Past(x)' /\ op'[x].drained /\ op'[x].held =>
                                  \A a \in Attempts : att'[a].pc \in {"config", "sent"}
                                                         => att'[a].inst # op'[x].inst
    BY <1>1, <1>2, <2>1, <2>2 DEF GateHolds, Past
  <2> SUFFICES /\ op'[o].held => gate'
               /\ op'[o].pc = "drain" => ~op'[o].drained /\ op'[o].inst # 0
               /\ Past(o)' /\ op'[o].drained /\ op'[o].held =>
                    \A a \in Attempts : att'[a].pc \in {"config", "sent"}
                                           => att'[a].inst # op'[o].inst
    BY <2>3 DEF GateHolds
  <2>4. CASE /\ op'[o].held = op[o].held /\ gate' = gate /\ op'[o].pc # "drain"
             /\ Past(o)' /\ op[o].held =>
                  Past(o) /\ op'[o].inst = op[o].inst /\ op'[o].drained = op[o].drained
    BY <1>1, <1>2, <2>4 DEF GateHolds
  <2>5. CASE CloseGate(o)
    BY <1>2, <2>5 DEF CloseGate, OpRecords, Past
  <2>6. CASE StartDrain(o)
    <3>1. /\ gate' = gate /\ op'[o].held = op[o].held /\ op'[o].inst = live.inst
          /\ (live.inst = 0 /\ op'[o].pc # "drain")
             \/ (live.inst # 0 /\ ~op'[o].drained /\ op'[o].pc = "drain")
      BY <1>2, <2>6 DEF StartDrain, AfterDrain, OpRecords
    <3>2. 0 \notin Objects
      BY DEF Objects
    <3> QED
      BY <1>1, <1>2, <1>3, <3>1, <3>2 DEF GateHolds
  <2>7. CASE Drained(o)
    <3>1. /\ gate' = gate /\ op'[o].held = op[o].held /\ op'[o].inst = op[o].inst
          /\ op'[o].pc # "drain" /\ op[o].pc = "drain" /\ admissions[op[o].inst] = 0
      BY <1>2, <2>7 DEF Drained, AfterDrain, OpRecords
    <3>2. op[o].inst \in Objects
      BY <1>2, <3>1, AdmissionAssumption DEF GateHolds, OpRecords, Objects
    <3>3. Holders(op[o].inst) = {}
      <4>1. Holders(op[o].inst) \subseteq Attempts
        BY DEF Holders
      <4>2. IsFiniteSet(Holders(op[o].inst))
        BY <4>1, AdmissionAssumption, FS_Subset
      <4> QED
        BY <3>1, <3>2, <4>2, FS_EmptySet DEF IInv, AdmissionsCounted
    <3> QED
      BY <1>1, <1>2, <3>1, <3>3 DEF GateHolds, Holders
  <2>8. CASE DrainTimeout(o)
    <3>1. gate' = gate /\ op'[o].held = op[o].held /\ ~op'[o].drained /\ op'[o].pc # "drain"
      BY <1>2, <2>8 DEF DrainTimeout, TimesOut, GotoO, AfterDrain, OpRecords, GateHolds
    <3> QED
      BY <1>2, <3>1 DEF GateHolds
  <2>9. CASE PersistAvailability(o) \/ PublishAvailability(o) \/ Rollback(o) \/ ReadRecord(o)
    BY <1>2, <1>6, <2>4, <2>9 DEF PersistAvailability, PublishAvailability, Rollback, ReadRecord,
       GotoO, Past, OpRecords
  <2>10. CASE Delete(o)
    BY <1>2, <2>4, <2>10 DEF Delete, BeginDelete, DeleteRow, RemoveObject, GotoO, Past, OpRecords
  <2>11. CASE InsertRow(o) \/ AddObject(o)
    BY <1>2, <2>4, <2>11 DEF InsertRow, AddObject, GotoO, Past, OpRecords
  <2>12. CASE \E to \in BOOLEAN : BeginCreate(o, to) \/ BeginAvailability(o, to) \/ ReadExisting(o, to)
    BY <1>2, <2>4, <2>12 DEF BeginCreate, BeginAvailability, ReadExisting, Past, OpRecords
  <2>13. CASE BeginEdit(o) \/ UpdateRow(o) \/ LookUpObject(o) \/ ApplyConfig(o)
    BY <1>2, <2>4, <2>13 DEF BeginEdit, UpdateRow, LookUpObject, ApplyConfig, GotoO, Past, OpRecords
  <2> QED
    BY <1>5, <2>5, <2>6, <2>7, <2>8, <2>9, <2>10, <2>11, <2>12, <2>13
       DEF Operate, SetAvailability, Create, Edit
<1> QED
  BY <1>4, <1>5

\* A call touches no other, but for the gate it may open.
LEMMA OthersStay ==
  ASSUME IInv, NEW o \in Ops, Operate(o)
  PROVE  \A x \in Ops \ {o} :
           op'[x] = op[x] \/ (~op'[x].held /\ op'[x].pc = op[x].pc
                                /\ op'[x].kind = op[x].kind /\ op'[x].to = op[x].to)
<1>1. op \in [Ops -> OpRecords]
  BY DEF IInv, TypeOK
<1>2. CASE OpenGate(o)
  BY <1>1, <1>2 DEF OpenGate, OpRecords
<1>3. CASE ~OpenGate(o)
  <2>1. SetAvailability(o) => \A x \in Ops \ {o} : op'[x] = op[x]
    BY <1>1, <1>3 DEF SetAvailability, GotoO, BeginAvailability, ReadRecord, CloseGate,
       PersistAvailability, StartDrain, Drained, DrainTimeout, PublishAvailability, Rollback
  <2>2. Delete(o) => \A x \in Ops \ {o} : op'[x] = op[x]
    BY <1>1 DEF Delete, GotoO, BeginDelete, DeleteRow, RemoveObject
  <2>3. (\E to \in BOOLEAN : BeginCreate(o, to)) => \A x \in Ops \ {o} : op'[x] = op[x]
    BY <1>1 DEF BeginCreate
  <2>4. InsertRow(o) \/ AddObject(o) => \A x \in Ops \ {o} : op'[x] = op[x]
    BY <1>1 DEF GotoO, InsertRow, AddObject
  <2>5. (\E to \in BOOLEAN : ReadExisting(o, to)) => \A x \in Ops \ {o} : op'[x] = op[x]
    BY <1>1 DEF ReadExisting
  <2>6. BeginEdit(o) \/ UpdateRow(o) \/ LookUpObject(o) => \A x \in Ops \ {o} : op'[x] = op[x]
    BY <1>1 DEF GotoO, BeginEdit, UpdateRow, LookUpObject
  <2>7. ApplyConfig(o) => \A x \in Ops \ {o} : op'[x] = op[x]
    BY <1>1 DEF GotoO, ApplyConfig
  <2> QED
    BY <2>1, <2>2, <2>3, <2>4, <2>5, <2>6, <2>7 DEF Operate, Create, Edit
<1> QED
  BY <1>2, <1>3

LEMMA OperateHeld ==
  ASSUME IInv, NEW o \in Ops, Operate(o)
  PROVE  HeldDuring'
<1>1. op \in [Ops -> OpRecords] /\ op[o] \in OpRecords /\ HeldDuring
  BY DEF IInv, TypeOK
<1>2. \A x \in Ops \ {o} : op'[x] = op[x] \/ (~op'[x].held /\ op'[x].pc = op[x].pc
                              /\ op'[x].kind = op[x].kind /\ op'[x].to = op[x].to)
  BY OthersStay
<1> SUFFICES /\ op'[o].held => op'[o].pc \in {"persist", "wait", "drain", "publish", "rollback",
                                             "deleteRow", "remove", "abort", "release"}
             /\ op'[o].held /\ op'[o].pc = "persist" => ~op'[o].to
             /\ op'[o].pc = "gate" /\ op'[o].kind # "delete" => ~op'[o].to
  BY <1>1, <1>2 DEF HeldDuring
<1>3. CASE PersistAvailability(o) \/ PublishAvailability(o) \/ Rollback(o)
  BY <1>1, <1>3 DEF HeldDuring, PersistAvailability, PublishAvailability, Rollback, GotoO,
     OpRecords
<1>9. CASE ReadRecord(o)
  <2>1. op'[o].held = op[o].held /\ ~op[o].held /\ op'[o].to = op[o].to
    BY <1>1, <1>9 DEF HeldDuring, ReadRecord, OpRecords
  <2>2. op'[o].pc = "gate" => ~op[o].to
    BY <1>1, <1>9 DEF ReadRecord, OpRecords
  <2> QED
    BY <2>1, <2>2
<1>10. CASE OpenGate(o)
  <2>1. ~op'[o].held /\ op'[o].pc \in {"update", "done"}
    BY <1>1, <1>10 DEF OpenGate, OpRecords
  <2> QED
    BY <2>1
<1>4. CASE CloseGate(o)
  <2>1. /\ op'[o].kind = op[o].kind /\ op'[o].to = op[o].to /\ op[o].pc = "gate"
        /\ op'[o].pc = (IF op[o].kind = "delete" THEN "wait" ELSE "persist")
    BY <1>1, <1>4 DEF CloseGate, OpRecords
  <2> QED
    BY <1>1, <2>1 DEF HeldDuring
<1>11. CASE StartDrain(o) \/ Drained(o) \/ DrainTimeout(o)
  <2>1. op'[o].pc \in {"deleteRow", "publish", "drain"}
    BY <1>1, <1>11 DEF StartDrain, Drained, DrainTimeout, AfterDrain, GotoO, OpRecords
  <2> QED
    BY <2>1
<1>5. CASE Delete(o)
  BY <1>1, <1>5 DEF HeldDuring, Delete, BeginDelete, Starts, DeleteRow, RemoveObject, GotoO,
     OpRecords
<1>6. CASE InsertRow(o) \/ AddObject(o)
  BY <1>1, <1>6 DEF HeldDuring, InsertRow, AddObject, GotoO, OpRecords
<1>7. CASE \E to \in BOOLEAN : BeginCreate(o, to) \/ BeginAvailability(o, to) \/ ReadExisting(o, to)
  BY <1>1, <1>7 DEF HeldDuring, BeginCreate, BeginAvailability, Starts, ReadExisting, OpRecords
<1>8. CASE BeginEdit(o) \/ UpdateRow(o) \/ LookUpObject(o) \/ ApplyConfig(o)
  BY <1>1, <1>8 DEF HeldDuring, BeginEdit, Starts, UpdateRow, LookUpObject, ApplyConfig, GotoO,
     OpRecords
<1> QED
  BY <1>3, <1>4, <1>5, <1>6, <1>7, <1>8, <1>9, <1>10, <1>11 DEF Operate, SetAvailability, Create, Edit

LEMMA OperateStep ==
  ASSUME IInv, NEW o \in Ops, Operate(o)
  PROVE  IInv'
<1>1. UNCHANGED <<admissions, att>> /\ RevisionIsConfig'
  BY OperateShape
<1>2. AdmissionsCounted' /\ HoldersHaveObject'
  BY <1>1 DEF IInv, AdmissionsCounted, Holders, HoldersHaveObject
<1> QED
  BY <1>1, <1>2, OperateTypes, OperateGate, OperateHeld DEF IInv

LEMMA InvStep == IInv /\ [Next]_vars => IInv'
<1> SUFFICES ASSUME IInv, [Next]_vars PROVE IInv'
  OBVIOUS
<1>1. CASE UNCHANGED vars
  BY <1>1 DEF vars, IInv, TypeOK, AdmissionsCounted, Holders, HoldersHaveObject, GateHolds, Past,
     HeldDuring, RevisionIsConfig
<1> QED
  BY <1>1, AttemptStep, OperateStep DEF Next

-----------------------------------------------------------------------------
\* The variables of the admission protocol keep their types.
THEOREM TypeCorrect == Spec => []TypeOK
BY InvInit, InvStep, PTL DEF Spec, IInv

\* The admission counter of an object (Endpoint.admissions) is the number of
\* attempts that hold it.
THEOREM CountingCorrect == Spec => []AdmissionsCounted
BY InvInit, InvStep, PTL DEF Spec, IInv

\* Register-then-check against gate-then-drain (AcquireEndpointAttempt and
\* WaitAdmissionsDrained): a drained object is not used while the gate holds.
THEOREM DrainSound == Spec => []DrainedIsIdle
<1>1. IInv => DrainedIsIdle
  BY DEF IInv, GateHolds, DrainedIsIdle
<1> QED
  BY <1>1, InvInit, InvStep, PTL DEF Spec

\* The revision check of AcquireEndpointAttempt is enough for a request to be
\* sent with the configuration its plan froze.
THEOREM PlansAreKept == Spec => []PlannedConfigIsUsed
<1>1. IInv => PlannedConfigIsUsed
  BY DEF IInv, RevisionIsConfig, PlannedConfigIsUsed
<1> QED
  BY <1>1, InvInit, InvStep, PTL DEF Spec

-----------------------------------------------------------------------------
(* Calls that come one after the other: MaxRunning = 1.                     *)

\* The manager has the endpoint of the database, with the same configuration.
Agrees ==
  /\ rec.exists <=> live.inst # 0
  /\ rec.exists => rec.enabled = live.enabled /\ rec.cfg = live.cfg

OneCall == \A o, x \in Running : o = x

Deletes(o) == op[o].kind = "delete"

\* Where the row and the object stand while the call is at its pc: they agree
\* until the row is written, then the row is what the call asked for and the
\* object is behind, until it is published.
InPhase(o) ==
  /\ op[o].pc \in {"existing", "read", "gate", "persist", "insert", "update", "deleteRow",
                   "abort", "release"} => Agrees
  /\ op[o].pc \in {"wait", "drain"} /\ Deletes(o) => Agrees
  /\ op[o].pc \in {"wait", "drain", "publish"} /\ ~Deletes(o) =>
       rec.exists /\ rec.enabled = op[o].to /\ live.inst # 0 /\ rec.cfg = live.cfg
  /\ op[o].pc = "release" /\ ~Deletes(o) => rec.exists /\ rec.enabled = op[o].to
  /\ op[o].pc = "update" => (rec.exists => rec.enabled = EditedAvailability(o))
  /\ op[o].pc \in {"sync", "apply"} =>
       rec.exists /\ rec.enabled = EditedAvailability(o) /\ rec.cfg = o /\ live.inst # 0
  /\ op[o].pc = "apply" => op[o].inst # 0
  /\ op[o].pc = "insert" => live.inst = 0
  /\ op[o].pc = "add" =>
       rec.exists /\ rec.enabled = op[o].to /\ rec.cfg = o /\ live.inst = 0
  /\ op[o].pc = "remove" => ~rec.exists
  /\ op[o].pc \in {"deleteRow", "remove"} => Deletes(o)
  /\ op[o].pc # "rollback"
  /\ op[o].pc \in {"idle", "read", "persist", "publish", "existing", "update", "sync", "apply"}
       => ~Deletes(o)

\* No compensation is ever needed, and what the code leaves behind agrees.
SerialInv ==
  /\ ~torn
  /\ OneCall
  /\ Quiet => Agrees
  /\ \A o \in Ops : InPhase(o)

LEMMA SerialInit == Init => SerialInv
<1> SUFFICES ASSUME Init PROVE SerialInv
  OBVIOUS
<1>1. \A o \in Ops : op[o].pc = "idle" /\ op[o].kind = "availability"
  BY DEF Init, IdleOp
<1>2. Running = {}
  BY <1>1 DEF Running
<1>3. ~torn /\ Agrees
  <2>1. ~torn
    BY DEF Init
  <2>2. CASE /\ rec = [exists |-> TRUE, enabled |-> TRUE, cfg |-> "initial"]
             /\ live = [inst |-> 1, rev |-> 1, enabled |-> TRUE, cfg |-> "initial"]
    <3>1. rec.exists /\ rec.enabled = live.enabled /\ rec.cfg = live.cfg
      BY <2>2, Zenon
    <3>2. rec.exists /\ live.inst # 0
      BY <2>2
    <3> QED
      BY <2>1, <3>1, <3>2, Zenon DEF Agrees
  <2>3. CASE rec = NoRecord /\ live = NoObject
    <3>1. ~rec.exists /\ live.inst = 0
      BY <2>3 DEF NoRecord, NoObject
    <3> QED
      BY <2>1, <3>1, Zenon DEF Agrees
  <2> QED
    BY <2>1, <2>2, <2>3 DEF Init
<1>4. \A o \in Ops : InPhase(o)
  BY <1>1 DEF InPhase, Deletes
<1> QED
  BY <1>2, <1>3, <1>4 DEF SerialInv, OneCall

LEMMA NoneRuns ==
  ASSUME MaxRunning = 1, OneCall, Cardinality(Running) < MaxRunning
  PROVE  Running = {}
<1> SUFFICES ASSUME NEW o \in Running PROVE FALSE
  OBVIOUS
<1>1. Running = {o}
  BY DEF OneCall
<1>2. Cardinality(Running) = 1
  BY <1>1, FS_Singleton
<1> QED
  BY <1>2

\* A call that moves begins, while there is room for it, or has not ended.
LEMMA BeginsOrRuns ==
  ASSUME NEW o \in Ops, Operate(o)
  PROVE  \/ op[o].pc = "idle" /\ Cardinality(Running) < MaxRunning
         \/ op[o].pc \notin {"idle", "done"}
<1>1. CASE \E to \in BOOLEAN : BeginAvailability(o, to)
  BY <1>1 DEF BeginAvailability, Starts
<1>2. CASE \E to \in BOOLEAN : BeginCreate(o, to)
  BY <1>2 DEF BeginCreate, Starts
<1>3. CASE BeginDelete(o) \/ BeginEdit(o)
  BY <1>3 DEF BeginDelete, BeginEdit, Starts
<1>4. CASE \/ ReadRecord(o) \/ CloseGate(o) \/ PersistAvailability(o) \/ StartDrain(o) \/ Drained(o)
           \/ DrainTimeout(o) \/ PublishAvailability(o) \/ Rollback(o) \/ OpenGate(o)
  BY <1>4 DEF ReadRecord, CloseGate, PersistAvailability, StartDrain, Drained, DrainTimeout,
     TimesOut, PublishAvailability, Rollback, OpenGate
<1>5. CASE DeleteRow(o) \/ RemoveObject(o) \/ InsertRow(o) \/ AddObject(o)
  BY <1>5 DEF DeleteRow, RemoveObject, InsertRow, AddObject
<1>6. CASE \E to \in BOOLEAN : ReadExisting(o, to)
  BY <1>6 DEF ReadExisting
<1>7. CASE UpdateRow(o) \/ LookUpObject(o) \/ ApplyConfig(o)
  BY <1>7 DEF UpdateRow, LookUpObject, ApplyConfig
<1> QED
  BY <1>1, <1>2, <1>3, <1>4, <1>5, <1>6, <1>7 DEF Operate, SetAvailability, Delete, Create, Edit

\* The other calls have not begun or have ended; a call begins when none runs.
LEMMA Alone ==
  ASSUME MaxRunning = 1, IInv, SerialInv, NEW o \in Ops, Operate(o)
  PROVE  /\ op[o].pc = "idle" => Agrees
         /\ \A x \in Ops \ {o} : /\ op[x].pc \in {"idle", "done"}
                                 /\ op'[x].pc = op[x].pc /\ op'[x].kind = op[x].kind
<1>1. OneCall /\ (Running = {} => Agrees)
  BY DEF SerialInv, Quiet
<1>2. \A x \in Ops \ {o} : op'[x].pc = op[x].pc /\ op'[x].kind = op[x].kind
  BY OthersStay
<1>3. CASE op[o].pc = "idle"
  <2>1. Running = {}
    BY <1>1, <1>3, BeginsOrRuns, NoneRuns
  <2> QED
    BY <1>1, <1>2, <2>1 DEF Running
<1>4. CASE op[o].pc # "idle"
  <2>1. o \in Running
    BY <1>4, BeginsOrRuns DEF Running
  <2> QED
    BY <1>1, <1>2, <1>4, <2>1 DEF OneCall, Running
<1> QED
  BY <1>3, <1>4

\* So a step keeps the invariant when it keeps the phase of its own call, and
\* leaves row and object in agreement when the call ends.
LEMMA StepOfOne ==
  ASSUME MaxRunning = 1, IInv, SerialInv, NEW o \in Ops, Operate(o),
         UNCHANGED torn, InPhase(o)', op'[o].pc \in {"idle", "done"} => Agrees'
  PROVE  SerialInv'
<1>1. \A x \in Ops \ {o} : op'[x].pc \in {"idle", "done"} /\ InPhase(x)'
  BY Alone DEF SerialInv, InPhase, Deletes
<1>2. OneCall'
  BY <1>1 DEF OneCall, Running
<1>3. Quiet' => Agrees'
  BY DEF Quiet, Running
<1> QED
  BY <1>1, <1>2, <1>3 DEF SerialInv

LEMMA SerialStep ==
  ASSUME MaxRunning = 1, IInv, SerialInv, [Next]_vars
  PROVE  SerialInv'
<1>1. CASE UNCHANGED <<rec, live, op, torn>>
  BY <1>1 DEF SerialInv, OneCall, Running, Quiet, Agrees, InPhase, Deletes, EditedAvailability
<1>2. ASSUME NEW o \in Ops, Operate(o) PROVE SerialInv'
  <2>1. /\ op \in [Ops -> OpRecords] /\ op[o] \in OpRecords /\ rec \in Records
        /\ live \in Lives /\ made.inst \in Nat
    BY DEF IInv, TypeOK
  <2>2. InPhase(o) /\ ~torn /\ (op[o].pc = "idle" => Agrees)
    BY <1>2, Alone DEF SerialInv
  <2> SUFFICES UNCHANGED torn /\ InPhase(o)' /\ (op'[o].pc \in {"idle", "done"} => Agrees')
    BY <1>2, StepOfOne
  <2>3. CASE \E to \in BOOLEAN : BeginAvailability(o, to)
    BY <2>1, <2>2, <2>3 DEF BeginAvailability, Starts, InPhase, Deletes, Agrees, OpRecords
  <2>4. CASE ReadRecord(o)
    BY <2>1, <2>2, <2>4 DEF ReadRecord, InPhase, Deletes, Agrees, OpRecords
  <2>5. CASE CloseGate(o)
    BY <2>1, <2>2, <2>5 DEF CloseGate, InPhase, Deletes, Agrees, OpRecords
  <2>6. CASE PersistAvailability(o)
    BY <2>1, <2>2, <2>6 DEF PersistAvailability, GotoO, InPhase, Deletes, Agrees, OpRecords,
       Records
  <2>7. CASE StartDrain(o) \/ Drained(o) \/ DrainTimeout(o)
    BY <2>1, <2>2, <2>7 DEF StartDrain, Drained, DrainTimeout, TimesOut, GotoO, AfterDrain,
       InPhase, Deletes, Agrees, OpRecords
  <2>8. CASE PublishAvailability(o)
    <3>1. /\ op[o].pc = "publish" /\ rec.exists /\ rec.enabled = op[o].to /\ live.inst # 0
          /\ rec.cfg = live.cfg /\ ~Deletes(o)
      BY <2>2, <2>8 DEF PublishAvailability, InPhase
    <3>2. /\ UNCHANGED <<rec, torn>> /\ live'.inst = live.inst /\ live'.cfg = live.cfg
          /\ live'.enabled = op[o].to /\ op'[o] = [op[o] EXCEPT !.pc = "release"]
      BY <2>1, <2>8, <3>1 DEF PublishAvailability, GotoO, Lives
    <3>3. op'[o].pc = "release" /\ op'[o].to = op[o].to /\ op'[o].kind = op[o].kind
      BY <2>1, <3>2 DEF OpRecords
    <3>4. Agrees'
      BY <3>1, <3>2, Zenon DEF Agrees
    <3> QED
      BY <3>1, <3>2, <3>3, <3>4 DEF InPhase, Deletes
  <2>9. CASE Rollback(o)
    BY <2>2, <2>9 DEF Rollback, InPhase
  <2>10. CASE OpenGate(o)
    BY <2>1, <2>2, <2>10 DEF OpenGate, InPhase, Deletes, Agrees, EditedAvailability, OpRecords
  <2>11. CASE BeginDelete(o)
    BY <2>1, <2>2, <2>11 DEF BeginDelete, Starts, InPhase, Deletes, Agrees, OpRecords
  <2>12. CASE DeleteRow(o)
    BY <2>1, <2>2, <2>12 DEF DeleteRow, GotoO, NoRecord, InPhase, Deletes, Agrees, OpRecords
  <2>13. CASE RemoveObject(o)
    <3>1. op[o].pc = "remove" /\ Deletes(o) /\ ~rec.exists /\ UNCHANGED <<rec, torn>> /\ live'.inst = 0
      BY <2>2, <2>13 DEF RemoveObject, NoObject, InPhase
    <3>2. op'[o].pc = "release" /\ op'[o].kind = op[o].kind
      BY <2>1, <2>13 DEF RemoveObject, GotoO, OpRecords
    <3>3. Agrees'
      BY <3>1, Zenon DEF Agrees
    <3> QED
      BY <3>1, <3>2, <3>3 DEF InPhase, Deletes
  <2>14. CASE \E to \in BOOLEAN : BeginCreate(o, to)
    BY <2>1, <2>2, <2>14 DEF BeginCreate, Starts, InPhase, Deletes, Agrees, OpRecords
  <2>15. CASE InsertRow(o)
    BY <2>1, <2>2, <2>15 DEF InsertRow, GotoO, InPhase, Deletes, Agrees, OpRecords
  <2>16. CASE AddObject(o)
    BY <2>1, <2>2, <2>16 DEF AddObject, GotoO, NewObject, InPhase, Deletes, Agrees, OpRecords
  <2>17. CASE BeginEdit(o)
    BY <2>1, <2>2, <2>17 DEF BeginEdit, Starts, InPhase, Deletes, Agrees, OpRecords
  <2>18. CASE \E to \in BOOLEAN : ReadExisting(o, to)
    BY <2>1, <2>2, <2>18 DEF ReadExisting, EditedAvailability, InPhase, Deletes, Agrees,
       OpRecords, Records
  <2>19. CASE UpdateRow(o)
    <3>1. CASE UNCHANGED rec /\ GotoO(o, "done")
      BY <2>1, <2>2, <2>19, <3>1 DEF UpdateRow, GotoO, InPhase, Agrees, OpRecords
    <3>2. CASE /\ rec.exists /\ GotoO(o, "sync")
               /\ rec' = [rec EXCEPT !.enabled = EditedAvailability(o), !.cfg = o]
      <4>1. /\ UNCHANGED <<live, torn>> /\ op'[o].pc = "sync"
            /\ op'[o].keep = op[o].keep /\ op'[o].to = op[o].to
        BY <2>1, <2>19, <3>2 DEF UpdateRow, GotoO, OpRecords
      <4>2. EditedAvailability(o)' = EditedAvailability(o)
        BY <4>1 DEF EditedAvailability
      <4>3. rec'.exists /\ rec'.enabled = EditedAvailability(o) /\ rec'.cfg = o
        BY <2>1, <3>2 DEF Records
      <4>4. live.inst # 0 /\ ~Deletes(o)
        BY <2>2, <2>19, <3>2 DEF UpdateRow, InPhase, Agrees
      <4>5. ~Deletes(o)'
        BY <2>1, <2>19, <3>2, <4>4 DEF UpdateRow, GotoO, Deletes, OpRecords
      <4> QED
        BY <4>1, <4>2, <4>3, <4>4, <4>5 DEF InPhase
    <3> QED
      BY <2>19, <3>1, <3>2 DEF UpdateRow
  <2>20. CASE LookUpObject(o)
    BY <2>1, <2>2, <2>20 DEF LookUpObject, EditedAvailability, InPhase, Deletes, Agrees, OpRecords
  <2>21. CASE ApplyConfig(o)
    <3>1. /\ op[o].inst # 0 /\ live.inst # 0 /\ rec.exists /\ rec.cfg = o
          /\ rec.enabled = EditedAvailability(o) /\ ~Deletes(o)
      BY <2>2, <2>21 DEF ApplyConfig, InPhase
    <3>2. /\ live'.inst = live.inst /\ live'.enabled = EditedAvailability(o) /\ live'.cfg = o
          /\ UNCHANGED <<rec, torn>>
      BY <2>21, <3>1 DEF ApplyConfig
    <3>3. op'[o].pc \in {"read", "done"} /\ (op'[o].pc = "read" => ~Deletes(o)')
      BY <2>1, <2>21, <3>1 DEF ApplyConfig, GotoO, Deletes, OpRecords
    <3>4. Agrees'
      BY <3>1, <3>2, Zenon DEF Agrees
    <3> QED
      BY <3>2, <3>3, <3>4 DEF InPhase
  <2> QED
    BY <1>2, <2>3, <2>4, <2>5, <2>6, <2>7, <2>8, <2>9, <2>10, <2>11, <2>12, <2>13, <2>14, <2>15,
       <2>16, <2>17, <2>18, <2>19, <2>20, <2>21 DEF Operate, SetAvailability, Delete, Create, Edit
<1>3. ASSUME NEW a \in Attempts, Attempt(a) PROVE UNCHANGED <<rec, live, op, torn>>
  BY <1>3 DEF Attempt, Plan, Register, CheckGate, CheckConfig, Release
<1> QED
  BY <1>1, <1>2, <1>3 DEF Next, vars

\* When calls come one at a time, what SetEndpointAvailability, DeleteEndpoint,
\* CreateEndpoint and UpdateEndpointRecord leave behind agrees, whichever write
\* or drain fails.
THEOREM OneCallAgrees == MaxRunning = 1 /\ Spec => []RuntimeFollowsRecord
<1> SUFFICES ASSUME MaxRunning = 1 PROVE Spec => []RuntimeFollowsRecord
  OBVIOUS
<1>1. SerialInv => RuntimeFollowsRecord
  BY DEF SerialInv, Agrees, RuntimeFollowsRecord
<1>2. IInv /\ SerialInv /\ [Next]_vars => (IInv /\ SerialInv)'
  BY InvStep, SerialStep
<1> QED
  BY <1>1, <1>2, InvInit, SerialInit, PTL DEF Spec

\* When calls come one at a time, the edit form writes back the availability it
\* read, or the one the disable of the same edit has just written.
THEOREM OneEditKeepsAvailability ==
  MaxRunning = 1 /\ Spec => [][\A o \in Ops : KeepsAvailability(o)]_vars
<1> SUFFICES ASSUME MaxRunning = 1
             PROVE  Spec => [][\A o \in Ops : KeepsAvailability(o)]_vars
  OBVIOUS
<1>1. IInv /\ SerialInv /\ [Next]_vars => (IInv /\ SerialInv)'
  BY InvStep, SerialStep
<1>2. IInv /\ SerialInv /\ [Next]_vars => [\A o \in Ops : KeepsAvailability(o)]_vars
  <2> SUFFICES ASSUME IInv, SerialInv, Next, NEW o \in Ops,
                      op[o].pc = "update", op'[o].pc = "sync"
               PROVE  rec'.enabled = rec.enabled
    BY DEF KeepsAvailability
  <2>1. \A a \in Attempts : ~Attempt(a)
    BY DEF Attempt, Plan, Register, CheckGate, CheckConfig, Release
  <2>2. PICK x \in Ops : Operate(x)
    BY <2>1 DEF Next
  <2>3. x = o
    BY <2>2, Alone
  <2>4. CASE UpdateRow(o)
    <3>1. rec.exists /\ rec'.enabled = EditedAvailability(o)
      <4>1. op \in [Ops -> OpRecords] /\ rec \in Records
        BY DEF IInv, TypeOK
      <4>2. /\ rec.exists
            /\ rec' = [rec EXCEPT !.enabled = EditedAvailability(o), !.cfg = o]
        BY <2>4, <4>1 DEF UpdateRow, GotoO, OpRecords
      <4> QED
        BY <4>1, <4>2 DEF Records
    <3>2. InPhase(o)
      BY DEF SerialInv
    <3> QED
      BY <3>1, <3>2 DEF InPhase
  <2>5. CASE SetAvailability(o)
    <3>1. \A to \in BOOLEAN : ~BeginAvailability(o, to)
      BY DEF BeginAvailability, Starts
    <3> QED
      BY <2>5, <3>1 DEF SetAvailability, ReadRecord, CloseGate, PersistAvailability, StartDrain,
         Drained, DrainTimeout, TimesOut, PublishAvailability, Rollback, OpenGate
  <2>6. CASE Delete(o)
    BY <2>6 DEF Delete, BeginDelete, Starts, DeleteRow, RemoveObject
  <2>7. CASE Create(o)
    BY <2>7 DEF Create, BeginCreate, Starts, InsertRow, AddObject
  <2>8. CASE BeginEdit(o) \/ (\E to \in BOOLEAN : ReadExisting(o, to)) \/ LookUpObject(o) \/ ApplyConfig(o)
    BY <2>8 DEF BeginEdit, Starts, ReadExisting, LookUpObject, ApplyConfig
  <2> QED
    BY <2>2, <2>3, <2>4, <2>5, <2>6, <2>7, <2>8 DEF Operate, Edit
<1> QED
  BY <1>1, <1>2, InvInit, SerialInit, PTL DEF Spec
=============================================================================
