----------------------- MODULE AccountPipeline_proofs ------------------------
(***************************************************************************)
(* Proofs about AccountPipeline, for any set of accounts, any threshold    *)
(* and any number of failures of other requests; then about the records    *)
(* of requests as they run in MCProgress, from RequestTracking_proofs.     *)
(***************************************************************************)
EXTENDS MCProgress, SequenceTheorems, FiniteSetTheorems, TLAPS

\* Nothing has happened before the accounts are scheduled.
NothingYet ==
  pc = "prepare" =>
    /\ order = << >> /\ left = {} /\ fault = {}
    /\ \A a \in Accounts : charged[a] = 0

\* An account is tried once: those still in the list, and the one in use, have
\* neither been charged nor been at fault.
TriedOnce ==
  /\ \A i, j \in 1 .. Len(order) : order[i] = order[j] => i = j
  /\ \A i \in 1 .. Len(order) : charged[order[i]] = 0 /\ order[i] \notin fault
  /\ pc = "loop" => order # << >>
  /\ pc \in {"sent", "reading"} =>
       /\ current \in Accounts /\ charged[current] = 0 /\ current \notin fault
       /\ \A i \in 1 .. Len(order) : order[i] # current

\* A client that is still there has been answered by the account in use, or
\* at the end, and by nobody else.
Answered ==
  ~gone => replies = IF pc = "done" \/ (pc = "reading" /\ sse) THEN 1 ELSE 0

\* An account is marked successful, and the record closed, at the end only.
ServedAtTheEnd ==
  /\ pc # "done" => served = NoOne
  /\ pc = "done" => record # << >>

IInv ==
  /\ TypeOK /\ NothingYet /\ TriedOnce /\ Answered /\ ServedAtTheEnd
  /\ FaultsArePaid /\ PinHolds /\ RecordTellsOutcome /\ SnapshotClosed /\ ContextReleased

Statuses == {"completed", "failed", "cancelled"}

\* What the request has paid and what is left to try, after a step.
Books ==
  /\ soft \in [Accounts -> 0 .. Threshold - 1] /\ out \subseteq Accounts
  /\ charged \in [Accounts -> Nat] /\ fault \subseteq Accounts
  /\ FaultsArePaid
  /\ \A i \in 1 .. Len(order) : charged[order[i]] = 0 /\ order[i] \notin fault

LEMMA InvInit == Init => IInv
<1> SUFFICES ASSUME Init PROVE IInv
  OBVIOUS
<1>1. TypeOK
  <2>1. << >> \in Seq(Accounts) /\ << >> \in Seq(Statuses)
    BY EmptySeq
  <2>2. soft \in [Accounts -> 0 .. Threshold - 1] /\ charged \in [Accounts -> Nat]
    BY AccountAssumption DEF Init
  <2> QED
    BY <2>1, <2>2 DEF Init, TypeOK, Pcs, Statuses
<1>2. NothingYet /\ TriedOnce /\ Answered /\ ServedAtTheEnd
  BY DEF Init, NothingYet, TriedOnce, Answered, ServedAtTheEnd
<1>3. FaultsArePaid /\ PinHolds /\ RecordTellsOutcome /\ SnapshotClosed /\ ContextReleased
  BY DEF Init, FaultsArePaid, PinHolds, RecordTellsOutcome, SnapshotClosed, ContextReleased
<1> QED
  BY <1>1, <1>2, <1>3 DEF IInv

\* A failure counted against an account keeps the counts below the threshold
\* and takes nobody back in.
LEMMA Counting ==
  ASSUME TypeOK, NEW a \in Accounts, soft' = Counted(a),
         out' = IF Reaches(a) THEN out \cup {a} ELSE out
  PROVE  /\ soft' \in [Accounts -> 0 .. Threshold - 1] /\ out' \subseteq Accounts
         /\ out \subseteq out' /\ (~NoFailover(a) => a \in out')
<1>1. soft[a] \in 0 .. Threshold - 1 /\ Threshold \in Nat \ {0}
  BY AccountAssumption DEF TypeOK
<1>2. (IF Reaches(a) THEN 0 ELSE soft[a] + 1) \in 0 .. Threshold - 1
  BY <1>1 DEF Reaches
<1>3. soft' \in [Accounts -> 0 .. Threshold - 1]
  BY <1>2 DEF TypeOK, Counted
<1> QED
  BY <1>3 DEF TypeOK, NoFailover

\* The account in use pays for its fault; it is not among those still to come.
LEMMA Charging ==
  ASSUME IInv, pc \in {"sent", "reading"}, SoftFailure(current) \/ TakeOut(current),
         fault' = fault \cup {current}, order' = order
  PROVE  /\ Books' /\ out \subseteq out'
         /\ TakeOut(current) \/ ~NoFailover(current) => current \in out'
<1>1. /\ current \in Accounts /\ charged[current] = 0 /\ current \notin fault
      /\ \A i \in 1 .. Len(order) : order[i] # current
  BY DEF IInv, TriedOnce
<1>2. /\ soft' \in [Accounts -> 0 .. Threshold - 1] /\ out' \subseteq Accounts
      /\ out \subseteq out' /\ (TakeOut(current) \/ ~NoFailover(current) => current \in out')
  <2>1. CASE SoftFailure(current)
    <3>1. TakeOut(current) => current \in out'
      BY DEF TakeOut
    <3> QED
      BY <1>1, <2>1, <3>1, Counting DEF SoftFailure, IInv
  <2>2. CASE TakeOut(current)
    BY <1>1, <2>2 DEF TakeOut, IInv, TypeOK
  <2> QED
    BY <2>1, <2>2
<1>3. charged' = [charged EXCEPT ![current] = @ + 1]
  BY DEF SoftFailure, TakeOut
<1>4. \A a \in Accounts : charged'[a] = IF a = current THEN 1 ELSE charged[a]
  BY <1>1, <1>3 DEF IInv, TypeOK
<1>5. charged' \in [Accounts -> Nat] /\ fault' \subseteq Accounts
  BY <1>1, <1>3 DEF IInv, TypeOK
<1>6. FaultsArePaid'
  BY <1>1, <1>4 DEF IInv, FaultsArePaid
<1>7. \A i \in 1 .. Len(order) : charged'[order[i]] = 0 /\ order[i] \notin fault'
  <2>1. \A i \in 1 .. Len(order) : order[i] \in Accounts
    BY ElementOfSeq DEF IInv, TypeOK
  <2> QED
    BY <1>1, <1>4, <2>1 DEF IInv, TriedOnce
<1> QED
  BY <1>2, <1>5, <1>6, <1>7 DEF Books

LEMMA FreeOfCharge ==
  ASSUME IInv, NoPenalty, UNCHANGED <<fault, order>>
  PROVE  Books' /\ out' = out
BY DEF IInv, TypeOK, TriedOnce, FaultsArePaid, NoPenalty, Books

\* The request ends, with an answer of its own unless one was begun before.
LEMMA Ending ==
  ASSUME IInv, NEW status \in Statuses, NEW writes \in {0, 1}, EndWith(status, writes),
         pc # "done", UNCHANGED <<order, pinned, sse, current, gone, left>>,
         held' = FALSE, drain' \in {"off", "running", "fired"}, Books', out \subseteq out',
         snapshot' \in {"none", "draft", "attempt", "final"},
         status = "cancelled" \/ snapshot' \in {"final", "none"},
         status = "completed" => served' = current /\ current \in Accounts,
         status # "completed" => served' = served,
         gone \/ writes = IF pc = "reading" /\ sse THEN 0 ELSE 1
  PROVE  IInv'
<1>1. /\ pc' = "done" /\ record' = Append(record, status) /\ replies' = replies + writes
  BY DEF EndWith
<1>2. record \in Seq(Statuses)
  BY DEF IInv, TypeOK, Statuses
<1>3. record' \in Seq(Statuses) /\ record' # << >> /\ Last(record') = status
  BY <1>1, <1>2, AppendProperties DEF Last
<1>4. served = NoOne
  BY DEF IInv, ServedAtTheEnd
<1>5. TypeOK'
  <2>1. served' \in Accounts \cup {NoOne} /\ replies' \in Nat
    BY <1>1, <1>4 DEF IInv, TypeOK
  <2> QED
    BY <1>1, <1>3, <2>1 DEF IInv, TypeOK, Pcs, Books, Statuses
<1>6. NothingYet' /\ ContextReleased'
  BY <1>1 DEF NothingYet, ContextReleased
<1>7. TriedOnce'
  BY <1>1 DEF IInv, TriedOnce, Books
<1>8. Answered'
  BY <1>1 DEF IInv, TypeOK, Answered
<1>9. ServedAtTheEnd' /\ RecordTellsOutcome'
  BY <1>1, <1>3, <1>4, AccountAssumption DEF ServedAtTheEnd, RecordTellsOutcome, Statuses
<1>10. PinHolds' /\ FaultsArePaid'
  BY DEF IInv, PinHolds, Books
<1>11. SnapshotClosed'
  BY <1>1, <1>3 DEF SnapshotClosed
<1> QED
  BY <1>5, <1>6, <1>7, <1>8, <1>9, <1>10, <1>11 DEF IInv

\* The account in use fails without an answer, and the loop goes on or is left.
LEMMA GoingOn ==
  ASSUME IInv, pc \in {"sent", "reading"}, pc = "reading" => ~sse,
         UNCHANGED <<order, pinned, sse, current, gone, served>>, Release,
         Books', out \subseteq out',
         record' \in Seq(Statuses), replies' \in Nat, ~gone => replies' = replies,
         snapshot' = "attempt",
         (GoOn /\ (pinned => current \in out')) \/ GiveUp
  PROVE  IInv'
<1>1. /\ pc' \in {"loop", "exhausted"} /\ (pc' = "loop" => order # << >>)
      /\ left' \subseteq left \cup {current} /\ (pinned => left' \subseteq left \cup out')
  BY DEF GoOn, GiveUp
<1>2. held' = FALSE /\ drain' = "off"
  BY DEF Release
<1>3. current \in Accounts /\ served = NoOne
  BY DEF IInv, TriedOnce, ServedAtTheEnd
<1>4. TypeOK'
  BY <1>1, <1>2, <1>3 DEF IInv, TypeOK, Pcs, Books, Statuses
<1>5. NothingYet' /\ ContextReleased' /\ RecordTellsOutcome' /\ SnapshotClosed' /\ ServedAtTheEnd'
  BY <1>1, <1>2, <1>3 DEF NothingYet, ContextReleased, RecordTellsOutcome, SnapshotClosed,
     ServedAtTheEnd
<1>6. TriedOnce'
  BY <1>1 DEF IInv, TriedOnce, Books
<1>7. Answered'
  BY <1>1 DEF IInv, Answered
<1>8. PinHolds' /\ FaultsArePaid'
  BY <1>1 DEF IInv, PinHolds, Books
<1> QED
  BY <1>4, <1>5, <1>6, <1>7, <1>8 DEF IInv

\* The scheduler names each account once, before anything has happened.
LEMMA PrepareStep ==
  ASSUME IInv, NEW s \in Orders, NEW pin \in BOOLEAN, Prepare(s, pin)
  PROVE  IInv'
<1>1. /\ pc = "prepare" /\ s # << >> /\ order' = s /\ pinned' = pin /\ pc' = "loop"
      /\ snapshot' = "draft"
      /\ UNCHANGED <<sse, current, gone, held, drain, replies, record, soft, out, charged, fault,
                     served, left>>
  BY DEF Prepare
<1>2. s \in Seq(Accounts) /\ \A i, j \in 1 .. Len(s) : s[i] = s[j] => i = j
  <2>1. PICK n \in 0 .. Cardinality(Accounts) : s \in {f \in [1 .. n -> Accounts] : IsInjective(f)}
    BY DEF Orders
  <2>2. n \in Nat /\ s \in [1 .. n -> Accounts] /\ IsInjective(s)
    BY <2>1
  <2>3. s \in Seq(Accounts) /\ Len(s) = n
    BY <2>2, IsASeq, LenProperties
  <2> QED
    BY <2>2, <2>3 DEF IsInjective
<1>3. \A i \in 1 .. Len(s) : s[i] \in Accounts
  BY <1>2, ElementOfSeq
<1>4. TypeOK'
  BY <1>1, <1>2 DEF IInv, TypeOK, Pcs
<1>5. TriedOnce'
  BY <1>1, <1>2, <1>3 DEF IInv, NothingYet, TriedOnce
<1>6. NothingYet' /\ Answered' /\ ServedAtTheEnd' /\ FaultsArePaid' /\ PinHolds'
  BY <1>1 DEF IInv, NothingYet, Answered, ServedAtTheEnd, FaultsArePaid, PinHolds
<1>7. RecordTellsOutcome' /\ SnapshotClosed' /\ ContextReleased'
  BY <1>1 DEF IInv, RecordTellsOutcome, SnapshotClosed, ContextReleased
<1> QED
  BY <1>4, <1>5, <1>6, <1>7 DEF IInv

LEMMA ForwardStep ==
  ASSUME IInv, Forward
  PROVE  IInv'
<1>1. /\ pc = "loop" /\ current' = Head(order) /\ order' = Tail(order) /\ pc' = "sent"
      /\ held' = sse /\ drain' \in {"off", "running"}
      /\ UNCHANGED <<pinned, sse, gone, replies, record, snapshot, soft, out, charged, fault,
                     served, left>>
  BY DEF Forward, Drain
<1>2. order \in Seq(Accounts) /\ order # << >>
  BY <1>1 DEF IInv, TypeOK, TriedOnce
<1>3. /\ Len(order) \in Nat /\ Len(order) >= 1
      /\ order' \in Seq(Accounts) /\ Len(order') = Len(order) - 1
      /\ \A i \in 1 .. Len(order') : order'[i] = order[i + 1]
      /\ current' = order[1] /\ current' \in Accounts
  BY <1>1, <1>2, HeadTailProperties, LenProperties, ElementOfSeq, EmptySeq
<1>4. TypeOK'
  BY <1>1, <1>3 DEF IInv, TypeOK, Pcs
<1>5. TriedOnce'
  <2>1. \A i \in 1 .. Len(order') : i + 1 \in 1 .. Len(order) /\ i + 1 # 1
    BY <1>3
  <2>2. 1 \in 1 .. Len(order)
    BY <1>3
  <2>3. \A i, j \in 1 .. Len(order') : order'[i] = order'[j] => i = j
    <3> SUFFICES ASSUME NEW i \in 1 .. Len(order'), NEW j \in 1 .. Len(order'),
                        order'[i] = order'[j]
                 PROVE  i = j
      OBVIOUS
    <3>1. i + 1 = j + 1
      BY <1>3, <2>1 DEF IInv, TriedOnce
    <3> QED
      BY <3>1, <1>3
  <2>4. \A i \in 1 .. Len(order') : charged'[order'[i]] = 0 /\ order'[i] \notin fault'
    BY <1>1, <1>3, <2>1 DEF IInv, TriedOnce
  <2>5. charged'[current'] = 0 /\ current' \notin fault'
    BY <1>1, <1>3, <2>2 DEF IInv, TriedOnce
  <2>6. \A i \in 1 .. Len(order') : order'[i] # current'
    BY <1>3, <2>1, <2>2 DEF IInv, TriedOnce
  <2> QED
    BY <1>1, <1>3, <2>3, <2>4, <2>5, <2>6 DEF TriedOnce
<1>6. NothingYet' /\ Answered' /\ ServedAtTheEnd' /\ FaultsArePaid' /\ PinHolds'
  BY <1>1 DEF IInv, NothingYet, Answered, ServedAtTheEnd, FaultsArePaid, PinHolds
<1>7. RecordTellsOutcome' /\ SnapshotClosed' /\ ContextReleased'
  BY <1>1 DEF IInv, RecordTellsOutcome, SnapshotClosed, ContextReleased
<1> QED
  BY <1>4, <1>5, <1>6, <1>7 DEF IInv

\* The client, the timer and other requests, and an account that begins to
\* answer: none of them pays or ends anything.
LEMMA QuietStep ==
  ASSUME IInv,
         \/ ClientLeaves \/ TailDrainFires \/ Accepts
         \/ \E a \in Accounts : OtherFails(a)
         \/ UNCHANGED pipeVars
  PROVE  IInv'
<1>1. /\ UNCHANGED <<order, pinned, sse, current, held, record, snapshot, charged, fault, served, left>>
      /\ pc' = pc \/ (pc = "sent" /\ pc' = "reading")
      /\ drain' \in {"off", "running", "fired"} /\ gone' \in BOOLEAN /\ (gone => gone')
      /\ \/ replies' = replies /\ (pc' = pc \/ ~sse)
         \/ replies' = replies + 1 /\ pc = "sent" /\ pc' = "reading" /\ sse
  BY DEF ClientLeaves, TailDrainFires, Accepts, OtherFails, pipeVars, Drain, IInv, TypeOK
<1>2. soft' \in [Accounts -> 0 .. Threshold - 1] /\ out' \subseteq Accounts /\ out \subseteq out'
  <2>1. ASSUME NEW a \in Accounts, OtherFails(a)
        PROVE  soft' \in [Accounts -> 0 .. Threshold - 1] /\ out' \subseteq Accounts /\ out \subseteq out'
    BY <2>1, Counting DEF OtherFails, IInv
  <2>2. CASE UNCHANGED <<soft, out>>
    BY <2>2 DEF IInv, TypeOK
  <2> QED
    BY <2>1, <2>2 DEF ClientLeaves, TailDrainFires, Accepts, pipeVars
<1>3. TypeOK'
  <2>1. pc' \in Pcs /\ replies' \in Nat
    BY <1>1 DEF IInv, TypeOK, Pcs
  <2>2. /\ order \in Seq(Accounts) /\ pinned \in BOOLEAN /\ sse \in BOOLEAN
        /\ current \in Accounts \cup {NoOne} /\ held \in BOOLEAN
        /\ record \in Seq({"completed", "failed", "cancelled"})
        /\ snapshot \in {"none", "draft", "attempt", "final"}
        /\ charged \in [Accounts -> Nat] /\ fault \subseteq Accounts
        /\ served \in Accounts \cup {NoOne} /\ left \subseteq Accounts
    BY DEF IInv, TypeOK
  <2> QED
    BY <1>1, <1>2, <2>1, <2>2 DEF TypeOK
<1>4. Answered'
  BY <1>1 DEF IInv, TypeOK, Answered
<1>5. NothingYet' /\ TriedOnce'
  BY <1>1 DEF IInv, NothingYet, TriedOnce
<1>6. ServedAtTheEnd' /\ FaultsArePaid' /\ PinHolds'
  BY <1>1, <1>2 DEF IInv, ServedAtTheEnd, FaultsArePaid, PinHolds
<1>7. RecordTellsOutcome' /\ SnapshotClosed' /\ ContextReleased'
  BY <1>1 DEF IInv, RecordTellsOutcome, SnapshotClosed, ContextReleased
<1> QED
  BY <1>3, <1>4, <1>5, <1>6, <1>7 DEF IInv

\* The ways out of an attempt that leave the loop running.
LEMMA FailStep ==
  ASSUME IInv,
         \/ \E b \in BOOLEAN : SendFails(b) \/ RegularFails(b)
         \/ Unusable \/ ServerFails
  PROVE  IInv'
<1>1. /\ pc \in {"sent", "reading"} /\ (pc = "reading" => ~sse) /\ Release
      /\ UNCHANGED <<order, pinned, sse, current, gone, served>>
      /\ fault' = fault \cup {current} /\ snapshot' = "attempt"
  BY DEF SendFails, RegularFails, Unusable, ServerFails, SoftThen
<1> DEFINE MovesOn == GiveUp \/ (GoOn /\ (pinned => ~NoFailover(current)))
<1>2. (SoftFailure(current) /\ MovesOn) \/ (TakeOut(current) /\ GoOn)
  <2>1. CASE Unusable
    BY <2>1 DEF Unusable
  <2>2. CASE ServerFails
    BY <2>2 DEF ServerFails, SoftThen
  <2>3. ASSUME NEW b \in BOOLEAN, RegularFails(b) PROVE SoftFailure(current) /\ MovesOn
    BY <2>3 DEF RegularFails, SoftThen
  <2>4. ASSUME NEW b \in BOOLEAN, SendFails(b) PROVE SoftFailure(current) /\ MovesOn
    BY <2>4 DEF SendFails, SoftThen
  <2> QED
    BY <2>1, <2>2, <2>3, <2>4
<1>3. /\ Books' /\ out \subseteq out'
      /\ TakeOut(current) \/ ~NoFailover(current) => current \in out'
  BY <1>1, <1>2, Charging
<1>4. record' \in Seq(Statuses) /\ replies' \in Nat /\ (~gone => replies' = replies)
  <2>1. record \in Seq(Statuses) /\ "failed" \in Statuses /\ replies \in Nat
    BY DEF IInv, TypeOK, Statuses
  <2>2. record' = record \/ record' = Append(record, "failed")
    BY DEF SendFails, RegularFails, Unusable, ServerFails
  <2>3. replies' = replies \/ (gone /\ replies' = replies + 1)
    BY DEF SendFails, RegularFails, Unusable, ServerFails
  <2> QED
    BY <2>1, <2>2, <2>3, AppendProperties
<1>5. (GoOn /\ (pinned => current \in out')) \/ GiveUp
  BY <1>2, <1>3
<1> QED
  BY <1>1, <1>3, <1>4, <1>5, GoingOn

\* The ways to the end.
LEMMA EndStep ==
  ASSUME IInv,
         \/ \E b \in BOOLEAN : NotScheduled(b) \/ StreamBreaks(b)
         \/ \E b, c \in BOOLEAN : PassOn(b, c)
         \/ PolicyRefuses \/ RegularCompletes \/ StreamEnds \/ StreamCancelled \/ Exhausted
  PROVE  IInv'
<1>1. ASSUME NEW b \in BOOLEAN, NotScheduled(b) PROVE IInv'
  <2>1. Books' /\ out' = out
    BY <1>1, FreeOfCharge DEF NotScheduled
  <2>2. held' = FALSE /\ drain' \in {"off", "running", "fired"}
    BY <1>1 DEF NotScheduled, IInv, TypeOK, ContextReleased
  <2> QED
    BY <1>1, <2>1, <2>2, Ending DEF NotScheduled, Statuses
<1>2. CASE Exhausted
  <2>1. Books' /\ out' = out
    BY <1>2, FreeOfCharge DEF Exhausted
  <2>2. held' = FALSE /\ drain' \in {"off", "running", "fired"}
    BY <1>2 DEF Exhausted, IInv, TypeOK, ContextReleased
  <2> QED
    BY <1>2, <2>1, <2>2, Ending DEF Exhausted, Statuses
<1>3. CASE PolicyRefuses
  <2>1. Books' /\ out' = out
    BY <1>3, FreeOfCharge DEF PolicyRefuses
  <2> QED
    BY <1>3, <2>1, Ending DEF PolicyRefuses, Release, Statuses
<1>4. ASSUME NEW b \in BOOLEAN, NEW c \in BOOLEAN, PassOn(b, c) PROVE IInv'
  <2>1. Books' /\ out \subseteq out'
    <3>1. CASE b \/ c
      BY <1>4, <3>1, FreeOfCharge DEF PassOn
    <3>2. CASE ~(b \/ c)
      BY <1>4, <3>2, Charging DEF PassOn
    <3> QED
      BY <3>1, <3>2
  <2> QED
    BY <1>4, <2>1, Ending DEF PassOn, Release, Statuses
<1>5. CASE RegularCompletes \/ StreamEnds
  <2>1. Books' /\ out' = out /\ current \in Accounts
    BY <1>5, FreeOfCharge DEF RegularCompletes, StreamEnds, Succeed, IInv, TriedOnce
  <2> QED
    BY <1>5, <2>1, Ending DEF RegularCompletes, StreamEnds, Succeed, Release, Statuses
<1>6. CASE StreamCancelled
  <2>1. Books' /\ out' = out
    BY <1>6, FreeOfCharge DEF StreamCancelled
  <2>2. snapshot' \in {"none", "draft", "attempt", "final"}
    BY <1>6 DEF StreamCancelled, IInv, TypeOK
  <2> QED
    BY <1>6, <2>1, <2>2, Ending DEF StreamCancelled, Release, Statuses
<1>7. ASSUME NEW b \in BOOLEAN, StreamBreaks(b) PROVE IInv'
  <2>1. Books' /\ out \subseteq out'
    BY <1>7, Charging DEF StreamBreaks
  <2> QED
    BY <1>7, <2>1, Ending DEF StreamBreaks, Release, Statuses
<1> QED
  BY <1>1, <1>2, <1>3, <1>4, <1>5, <1>6, <1>7

\* However the accounts answer, whoever else fails on them and whenever the
\* client leaves, the request is settled: one charge per fault, one answer,
\* a record, a snapshot and an upstream context that agree with its end
\* (forwardRequestToAccount and the loop around it).
THEOREM Settled == Spec => []AccountRequestIsSettled
<1>1. IInv /\ [Next]_pipeVars => IInv'
  <2> SUFFICES ASSUME IInv, [Next]_pipeVars PROVE IInv'
    OBVIOUS
  <2>1. ASSUME NEW s \in Orders, NEW pin \in BOOLEAN, Prepare(s, pin) PROVE IInv'
    BY <2>1, PrepareStep
  <2> QED
    BY <2>1, ForwardStep, QuietStep, FailStep, EndStep DEF Next
<1>2. IInv => AccountRequestIsSettled
  <2> SUFFICES ASSUME IInv PROVE OneReply
    BY DEF IInv, AccountRequestIsSettled
  <2> QED
    BY DEF IInv, Answered, OneReply
<1> QED
  BY <1>1, <1>2, InvInit, PTL DEF Spec

-----------------------------------------------------------------------------
(* The records of requests, as they run in MCProgress.                      *)

Recorded == INSTANCE RequestTracking_proofs
              WITH Notes <- {"n1"}, PoolSize <- Room, BufferSize <- 3 * Room, BatchSize <- 2,
                   MaxRetry <- 1,
                   Outcomes <- {"complete", "fail", "failTokens", "cancel"}, Faults <- {}

Shut == INSTANCE RequestTracking_proofs
          WITH Notes <- {"n1"}, PoolSize <- Room, BufferSize <- Room, BatchSize <- 2,
               MaxRetry <- 2, Outcomes <- {"complete"}, Faults <- {"close"}

LEMMA RoomIsPositive == Room \in Nat \ {0}
<1>1. Cardinality(Requests) \in Nat
  BY RequestsAssumption, FS_CardinalityType
<1>2. Cardinality(Requests) # 0
  BY RequestsAssumption, FS_EmptySet
<1> QED BY <1>1, <1>2 DEF Room

\* There is the room and are the faults that the proofs of the two parts take for granted.
LEMMA InstancesFit ==
  /\ Recorded!TrackingAssumption /\ Recorded!Room /\ Recorded!Faultless
  /\ Shut!TrackingAssumption /\ Shut!Room /\ "write" \notin {"close"}
<1>1. IsFiniteSet(Requests) /\ Room \in Nat \ {0} /\ 3 * Room \in Nat \ {0}
      /\ Room <= 3 * Room
  BY RequestsAssumption, RoomIsPositive
<1>2. Recorded!IsFiniteSet(Requests) /\ Shut!IsFiniteSet(Requests)
  BY <1>1 DEF IsFiniteSet, Recorded!IsFiniteSet, Shut!IsFiniteSet
<1>3. \A S : Recorded!Cardinality(S) = Cardinality(S) /\ Shut!Cardinality(S) = Cardinality(S)
  BY DEF Cardinality, Recorded!Cardinality, Shut!Cardinality
<1>4. Recorded!TrackingAssumption /\ Shut!TrackingAssumption
  BY <1>1, <1>2 DEF Recorded!TrackingAssumption, Shut!TrackingAssumption
<1>5. Recorded!Room /\ Shut!Room
  BY <1>1, <1>3 DEF Recorded!Room, Shut!Room, Room
<1>6. Recorded!Faultless
  BY DEF Recorded!Faultless
<1> QED BY <1>4, <1>5, <1>6

\* The instance the proofs are taken from is the one TLC runs, action by action.
LEMMA RecordedWords ==
  /\ \A r \in Requests : /\ Tracking!Started(r) <=> Recorded!Started(r)
                         /\ Tracking!CallsLeft(r) <=> Recorded!CallsLeft(r)
                         /\ Tracking!NextCall(r) = Recorded!NextCall(r)
                         /\ Tracking!Listed(r) <=> Recorded!Listed(r)
                         /\ Tracking!InBatch(r) <=> Recorded!InBatch(r)
  /\ Tracking!PoolUp <=> Recorded!PoolUp
  /\ Tracking!QueueUp <=> Recorded!QueueUp
  /\ \A e : Tracking!Queue(e) <=> Recorded!Queue(e)
  /\ \A r : Tracking!SendToArchive(r) <=> Recorded!SendToArchive(r)
  /\ Tracking!Updates = Recorded!Updates /\ Tracking!Active = Recorded!Active
  /\ Tracking!Cardinality(Tracking!Active) = Recorded!Cardinality(Recorded!Active)
<1>1. \A o : Tracking!Calls(o) = Recorded!Calls(o)
  BY DEF Tracking!Calls, Recorded!Calls, Tracking!Tokens, Recorded!Tokens, Tracking!Final,
         Recorded!Final, Tracking!Open, Recorded!Open
<1>2. \A s : Tracking!Cardinality(s) = Recorded!Cardinality(s)
  BY DEF Tracking!Cardinality, Recorded!Cardinality
<1>3. Tracking!Active = Recorded!Active
  BY DEF Tracking!Active, Recorded!Active
<1> QED
  BY <1>1, <1>2, <1>3
     DEF Tracking!Started, Recorded!Started, Tracking!CallsLeft, Recorded!CallsLeft,
         Tracking!NextCall, Recorded!NextCall, Tracking!Listed, Recorded!Listed,
         Tracking!InBatch, Recorded!InBatch, Tracking!PoolUp, Recorded!PoolUp,
         Tracking!QueueUp, Recorded!QueueUp, Tracking!Queue, Recorded!Queue,
         Tracking!HasRoom, Recorded!HasRoom, Tracking!SendToArchive,
         Recorded!SendToArchive, Tracking!Updates, Recorded!Updates

LEMMA RecordedHandler ==
  ASSUME NEW r \in Requests
  PROVE  Tracking!Handler(r) <=> Recorded!Handler(r)
<1>1. \A o : Tracking!Start(r, o) <=> Recorded!Start(r, o)
  BY RecordedWords DEF Tracking!Start, Recorded!Start, Tracking!StartEvent,
                       Recorded!StartEvent, Tracking!Fresh, Recorded!Fresh, Tracking!Empty,
                       Recorded!Empty, Tracking!Open, Recorded!Open
<1>2. Tracking!RecordTokens(r) <=> Recorded!RecordTokens(r)
  BY RecordedWords DEF Tracking!RecordTokens, Recorded!RecordTokens, Tracking!Called,
                       Recorded!Called, Tracking!EventOf, Recorded!EventOf
<1>3. (Tracking!Finishing(r) <=> Recorded!Finishing(r)) /\ (Tracking!InFinalizer(r) <=> Recorded!InFinalizer(r))
  BY RecordedWords DEF Tracking!Finishing, Recorded!Finishing, Tracking!InFinalizer,
                       Recorded!InFinalizer, Tracking!Open, Recorded!Open
<1>4. Tracking!Move(r) <=> Recorded!Move(r)
  BY RecordedWords, <1>3
     DEF Tracking!Move, Recorded!Move
<1>5. Tracking!Finalize(r) <=> Recorded!Finalize(r)
  BY RecordedWords, <1>3
     DEF Tracking!Finalize, Recorded!Finalize, Tracking!Finalized, Recorded!Finalized,
         Tracking!Called, Recorded!Called
<1>6. Tracking!FinalEvent(r) <=> Recorded!FinalEvent(r)
  BY RecordedWords, <1>3
     DEF Tracking!FinalEvent, Recorded!FinalEvent, Tracking!EventOf, Recorded!EventOf,
         Tracking!Called, Recorded!Called
<1> QED BY <1>1, <1>2, <1>4, <1>5, <1>6 DEF Tracking!Handler, Recorded!Handler

LEMMA RecordedOthers ==
  /\ \A u \in Tracking!Updates : Tracking!LookUp(u) \/ Tracking!Apply(u) <=> Recorded!LookUp(u) \/ Recorded!Apply(u)
  /\ \A r \in Requests : Tracking!Expire(r) \/ Tracking!Leave(r) <=> Recorded!Expire(r) \/ Recorded!Leave(r)
<1>1. ASSUME NEW u \in Tracking!Updates
      PROVE  (Tracking!LookUp(u) <=> Recorded!LookUp(u)) /\ (Tracking!Apply(u) <=> Recorded!Apply(u))
  <2>1. u[1] \in Requests
    BY DEF Tracking!Updates
  <2> QED BY <2>1, RecordedWords DEF Tracking!LookUp, Recorded!LookUp, Tracking!Apply, Recorded!Apply,
             Tracking!NoteEvent, Recorded!NoteEvent, Tracking!Open, Recorded!Open,
             Tracking!MayWrite, Recorded!MayWrite
<1>2. \A r \in Requests : (Tracking!Expire(r) <=> Recorded!Expire(r)) /\ (Tracking!Leave(r) <=> Recorded!Leave(r))
  BY RecordedWords DEF Tracking!Expire, Recorded!Expire, Tracking!Removed, Recorded!Removed,
                       Tracking!Leave, Recorded!Leave
<1> QED BY <1>1, <1>2

LEMMA RecordedArchiver == Tracking!Archiver <=> Recorded!Archiver
<1>1. Tracking!Take <=> Recorded!Take
  BY RecordedWords DEF Tracking!Take, Recorded!Take
<1>2. Tracking!Commit <=> Recorded!Commit
  BY RecordedWords DEF Tracking!Commit, Recorded!Commit, Tracking!HasRow, Recorded!HasRow,
                       Tracking!Marked, Recorded!Marked
<1>3. Tracking!Confirm <=> Recorded!Confirm
  BY RecordedWords DEF Tracking!Confirm, Recorded!Confirm
<1>4. Tracking!InsertFails <=> Recorded!InsertFails
  BY RecordedWords DEF Tracking!InsertFails, Recorded!InsertFails
<1> QED BY <1>1, <1>2, <1>3, <1>4 DEF Tracking!Archiver, Recorded!Archiver

LEMMA RecordedProcessor == Tracking!EventProcessor <=> Recorded!EventProcessor
<1>1. \A e : Tracking!Write(e) <=> Recorded!Write(e)
  BY DEF Tracking!Write, Recorded!Write, Tracking!Written, Recorded!Written,
         Tracking!HasRow, Recorded!HasRow, Tracking!Open, Recorded!Open
<1>2. Tracking!Advanced = Recorded!Advanced /\ (Tracking!Flushing <=> Recorded!Flushing) /\ Tracking!FlushOver(ev) = Recorded!FlushOver(ev)
  BY DEF Tracking!Advanced, Recorded!Advanced, Tracking!FlushOver, Recorded!FlushOver,
         Tracking!Flushing, Recorded!Flushing
<1>3. Tracking!Receive <=> Recorded!Receive
  BY DEF Tracking!Receive, Recorded!Receive
<1>4. Tracking!Tick <=> Recorded!Tick
  BY DEF Tracking!Tick, Recorded!Tick
<1>5. Tracking!WriteEvent <=> Recorded!WriteEvent
  BY <1>1, <1>2 DEF Tracking!WriteEvent, Recorded!WriteEvent
<1>6. Tracking!WriteFails <=> Recorded!WriteFails
  BY <1>1, <1>2 DEF Tracking!WriteFails, Recorded!WriteFails
<1>7. Tracking!Abort <=> Recorded!Abort
  BY <1>1, <1>2 DEF Tracking!Abort, Recorded!Abort
<1>8. Tracking!SeeCancelled <=> Recorded!SeeCancelled
  BY DEF Tracking!SeeCancelled, Recorded!SeeCancelled
<1>9. Tracking!LastFlush <=> Recorded!LastFlush
  BY DEF Tracking!LastFlush, Recorded!LastFlush
<1> QED BY <1>3, <1>4, <1>5, <1>6, <1>7, <1>8, <1>9 DEF Tracking!EventProcessor, Recorded!EventProcessor

LEMMA RecordedClose == Tracking!Close <=> Recorded!Close
<1>1. Tracking!Cancel <=> Recorded!Cancel
  BY RecordedWords DEF Tracking!Cancel, Recorded!Cancel, Tracking!HasEnded,
                       Recorded!HasEnded
<1>2. Tracking!ClosePool <=> Recorded!ClosePool
  BY RecordedWords DEF Tracking!ClosePool, Recorded!ClosePool
<1>3. (Tracking!CloseArchive <=> Recorded!CloseArchive) /\ (Tracking!Closes <=> Recorded!Closes)
  BY DEF Tracking!CloseArchive, Recorded!CloseArchive, Tracking!Closes, Recorded!Closes,
         Tracking!Drained, Recorded!Drained
<1> QED BY <1>1, <1>2, <1>3 DEF Tracking!Close, Recorded!Close

\* In its part the steps of MCSpec are the instance's.
LEMMA RecordedSteps ==
  /\ MCInit => Recorded!Init
  /\ part = "tracking" /\ [MCNext]_allVars => [Recorded!Next]_(Recorded!vars)
<1>1. MCInit => Recorded!Init
  BY DEF MCInit, Tracking!Init, Recorded!Init, Tracking!Updates, Recorded!Updates, Tracking!Empty, Recorded!Empty,
         Tracking!NoRow, Recorded!NoRow
<1>2. Tracking!Next => Recorded!Next
  BY RecordedWords, RecordedHandler, RecordedOthers, RecordedArchiver, RecordedProcessor, RecordedClose
     DEF Tracking!Next, Recorded!Next
<1>3. part = "tracking" /\ [MCNext]_allVars => Tracking!Next \/ UNCHANGED trackingVars
  BY DEF MCNext, allVars
<1> QED BY <1>1, <1>2, <1>3 DEF trackingVars, Recorded!vars

\* The same for the one that is closed.
LEMMA ShutWords ==
  /\ \A r \in Requests : /\ Closing!Started(r) <=> Shut!Started(r)
                         /\ Closing!CallsLeft(r) <=> Shut!CallsLeft(r)
                         /\ Closing!NextCall(r) = Shut!NextCall(r)
                         /\ Closing!Listed(r) <=> Shut!Listed(r)
                         /\ Closing!InBatch(r) <=> Shut!InBatch(r)
  /\ Closing!PoolUp <=> Shut!PoolUp
  /\ Closing!QueueUp <=> Shut!QueueUp
  /\ \A e : Closing!Queue(e) <=> Shut!Queue(e)
  /\ \A r : Closing!SendToArchive(r) <=> Shut!SendToArchive(r)
  /\ Closing!Updates = Shut!Updates /\ Closing!Active = Shut!Active
  /\ Closing!Cardinality(Closing!Active) = Shut!Cardinality(Shut!Active)
<1>1. \A o : Closing!Calls(o) = Shut!Calls(o)
  BY DEF Closing!Calls, Shut!Calls, Closing!Tokens, Shut!Tokens, Closing!Final, Shut!Final,
         Closing!Open, Shut!Open
<1>2. \A s : Closing!Cardinality(s) = Shut!Cardinality(s)
  BY DEF Closing!Cardinality, Shut!Cardinality
<1>3. Closing!Active = Shut!Active
  BY DEF Closing!Active, Shut!Active
<1> QED
  BY <1>1, <1>2, <1>3
     DEF Closing!Started, Shut!Started, Closing!CallsLeft, Shut!CallsLeft,
         Closing!NextCall, Shut!NextCall, Closing!Listed, Shut!Listed, Closing!InBatch,
         Shut!InBatch, Closing!PoolUp, Shut!PoolUp, Closing!QueueUp, Shut!QueueUp,
         Closing!Queue, Shut!Queue, Closing!HasRoom, Shut!HasRoom, Closing!SendToArchive,
         Shut!SendToArchive, Closing!Updates, Shut!Updates

LEMMA ShutHandler ==
  ASSUME NEW r \in Requests
  PROVE  Closing!Handler(r) <=> Shut!Handler(r)
<1>1. \A o : Closing!Start(r, o) <=> Shut!Start(r, o)
  BY ShutWords DEF Closing!Start, Shut!Start, Closing!StartEvent, Shut!StartEvent,
                   Closing!Fresh, Shut!Fresh, Closing!Empty, Shut!Empty, Closing!Open,
                   Shut!Open
<1>2. Closing!RecordTokens(r) <=> Shut!RecordTokens(r)
  BY ShutWords DEF Closing!RecordTokens, Shut!RecordTokens, Closing!Called, Shut!Called,
                   Closing!EventOf, Shut!EventOf
<1>3. (Closing!Finishing(r) <=> Shut!Finishing(r)) /\ (Closing!InFinalizer(r) <=> Shut!InFinalizer(r))
  BY ShutWords DEF Closing!Finishing, Shut!Finishing, Closing!InFinalizer, Shut!InFinalizer,
                   Closing!Open, Shut!Open
<1>4. Closing!Move(r) <=> Shut!Move(r)
  BY ShutWords, <1>3
     DEF Closing!Move, Shut!Move
<1>5. Closing!Finalize(r) <=> Shut!Finalize(r)
  BY ShutWords, <1>3
     DEF Closing!Finalize, Shut!Finalize, Closing!Finalized, Shut!Finalized, Closing!Called,
         Shut!Called
<1>6. Closing!FinalEvent(r) <=> Shut!FinalEvent(r)
  BY ShutWords, <1>3
     DEF Closing!FinalEvent, Shut!FinalEvent, Closing!EventOf, Shut!EventOf, Closing!Called,
         Shut!Called
<1> QED BY <1>1, <1>2, <1>4, <1>5, <1>6 DEF Closing!Handler, Shut!Handler

LEMMA ShutOthers ==
  /\ \A u \in Closing!Updates : Closing!LookUp(u) \/ Closing!Apply(u) <=> Shut!LookUp(u) \/ Shut!Apply(u)
  /\ \A r \in Requests : Closing!Expire(r) \/ Closing!Leave(r) <=> Shut!Expire(r) \/ Shut!Leave(r)
<1>1. ASSUME NEW u \in Closing!Updates
      PROVE  (Closing!LookUp(u) <=> Shut!LookUp(u)) /\ (Closing!Apply(u) <=> Shut!Apply(u))
  <2>1. u[1] \in Requests
    BY DEF Closing!Updates
  <2> QED BY <2>1, ShutWords DEF Closing!LookUp, Shut!LookUp, Closing!Apply, Shut!Apply,
             Closing!NoteEvent, Shut!NoteEvent, Closing!Open, Shut!Open, Closing!MayWrite,
             Shut!MayWrite
<1>2. \A r \in Requests : (Closing!Expire(r) <=> Shut!Expire(r)) /\ (Closing!Leave(r) <=> Shut!Leave(r))
  BY ShutWords DEF Closing!Expire, Shut!Expire, Closing!Removed, Shut!Removed,
                   Closing!Leave, Shut!Leave
<1> QED BY <1>1, <1>2

LEMMA ShutArchiver == Closing!Archiver <=> Shut!Archiver
<1>1. Closing!Take <=> Shut!Take
  BY ShutWords DEF Closing!Take, Shut!Take
<1>2. Closing!Commit <=> Shut!Commit
  BY ShutWords DEF Closing!Commit, Shut!Commit, Closing!HasRow, Shut!HasRow, Closing!Marked,
                   Shut!Marked
<1>3. Closing!Confirm <=> Shut!Confirm
  BY ShutWords DEF Closing!Confirm, Shut!Confirm
<1>4. Closing!InsertFails <=> Shut!InsertFails
  BY ShutWords DEF Closing!InsertFails, Shut!InsertFails
<1> QED BY <1>1, <1>2, <1>3, <1>4 DEF Closing!Archiver, Shut!Archiver

LEMMA ShutProcessor == Closing!EventProcessor <=> Shut!EventProcessor
<1>1. \A e : Closing!Write(e) <=> Shut!Write(e)
  BY DEF Closing!Write, Shut!Write, Closing!Written, Shut!Written, Closing!HasRow,
         Shut!HasRow, Closing!Open, Shut!Open
<1>2. Closing!Advanced = Shut!Advanced /\ (Closing!Flushing <=> Shut!Flushing) /\ Closing!FlushOver(ev) = Shut!FlushOver(ev)
  BY DEF Closing!Advanced, Shut!Advanced, Closing!FlushOver, Shut!FlushOver,
         Closing!Flushing, Shut!Flushing
<1>3. Closing!Receive <=> Shut!Receive
  BY DEF Closing!Receive, Shut!Receive
<1>4. Closing!Tick <=> Shut!Tick
  BY DEF Closing!Tick, Shut!Tick
<1>5. Closing!WriteEvent <=> Shut!WriteEvent
  BY <1>1, <1>2 DEF Closing!WriteEvent, Shut!WriteEvent
<1>6. Closing!WriteFails <=> Shut!WriteFails
  BY <1>1, <1>2 DEF Closing!WriteFails, Shut!WriteFails
<1>7. Closing!Abort <=> Shut!Abort
  BY <1>1, <1>2 DEF Closing!Abort, Shut!Abort
<1>8. Closing!SeeCancelled <=> Shut!SeeCancelled
  BY DEF Closing!SeeCancelled, Shut!SeeCancelled
<1>9. Closing!LastFlush <=> Shut!LastFlush
  BY DEF Closing!LastFlush, Shut!LastFlush
<1> QED BY <1>3, <1>4, <1>5, <1>6, <1>7, <1>8, <1>9 DEF Closing!EventProcessor, Shut!EventProcessor

LEMMA ShutClose == Closing!Close <=> Shut!Close
<1>1. Closing!Cancel <=> Shut!Cancel
  BY ShutWords DEF Closing!Cancel, Shut!Cancel, Closing!HasEnded, Shut!HasEnded
<1>2. Closing!ClosePool <=> Shut!ClosePool
  BY ShutWords DEF Closing!ClosePool, Shut!ClosePool
<1>3. (Closing!CloseArchive <=> Shut!CloseArchive) /\ (Closing!Closes <=> Shut!Closes)
  BY DEF Closing!CloseArchive, Shut!CloseArchive, Closing!Closes, Shut!Closes,
         Closing!Drained, Shut!Drained
<1> QED BY <1>1, <1>2, <1>3 DEF Closing!Close, Shut!Close

\* In its part the steps of MCSpec are the instance's.
LEMMA ShutSteps ==
  /\ MCInit => Shut!Init
  /\ part = "closing" /\ [MCNext]_allVars => [Shut!Next]_(Shut!vars)
<1>1. MCInit => Shut!Init
  BY DEF MCInit, Tracking!Init, Shut!Init, Tracking!Updates, Shut!Updates, Tracking!Empty, Shut!Empty,
         Tracking!NoRow, Shut!NoRow
<1>2. Closing!Next => Shut!Next
  BY ShutWords, ShutHandler, ShutOthers, ShutArchiver, ShutProcessor, ShutClose
     DEF Closing!Next, Shut!Next
<1>3. part = "closing" /\ [MCNext]_allVars => Closing!Next \/ UNCHANGED trackingVars
  BY DEF MCNext, allVars
<1> QED BY <1>1, <1>2, <1>3 DEF trackingVars, Shut!vars

LEMMA PartIsKept ==
  [MCNext]_allVars => /\ (part = "tracking" <=> (part = "tracking")')
                      /\ (part = "closing" <=> (part = "closing")')
BY DEF MCNext, allVars

\* For any set of requests: once nothing is in flight the tokens of every request are in its
\* row with their cost, and a tracker that is closed at any moment has in its rows every
\* request that had ended before (UsageTracker.Close, HotPool, ArchiveManager).
THEOREM RecordsStand == MCSpec => []RecordsAreComplete
<1>1. Recorded!Init /\ [][Recorded!Next]_(Recorded!vars) => []Recorded!TokensReachTheRow
  BY InstancesFit, Recorded!TokensArrive
<1>2. Shut!Init /\ [][Shut!Next]_(Shut!vars) => []Shut!ShutdownKeepsFinished
  BY InstancesFit, Shut!FinishedIsKept
<1>3. Recorded!TokensReachTheRow => Tracking!TokensReachTheRow
  <2>1. Recorded!Quiet <=> Tracking!Quiet
    BY RecordedWords DEF Recorded!Quiet, Tracking!Quiet, Recorded!HasEnded, Tracking!HasEnded
  <2> QED BY <2>1 DEF Recorded!TokensReachTheRow, Tracking!TokensReachTheRow
<1>4. Shut!ShutdownKeepsFinished => Closing!ShutdownKeepsFinished
  BY DEF Shut!ShutdownKeepsFinished, Closing!ShutdownKeepsFinished, Shut!Closed, Closing!Closed
<1> QED
  BY <1>1, <1>2, <1>3, <1>4, RecordedSteps, ShutSteps, PartIsKept, PTL
     DEF MCSpec, RecordsAreComplete
=============================================================================
