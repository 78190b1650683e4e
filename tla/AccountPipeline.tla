-------------------------- MODULE AccountPipeline --------------------------
(***************************************************************************)
(* One request of the Codex account pool: it is given a list of accounts   *)
(* and tries them in order until one answers, a refusal of its own ends    *)
(* it, or an account has not failed often enough to be left.  Other        *)
(* requests charge the same accounts in between, and the client may leave  *)
(* at any moment.  A stream is read on a context of its own that outlives  *)
(* the client for the length of the tail drain.                            *)
(* internal/proxy/account_pipeline.go, lifecycle_manager.go (terminal      *)
(* records), service/account_pool.go RecordAccountSoftFailure.             *)
(***************************************************************************)
EXTENDS Integers, FiniteSets, Sequences, SequencesExt

CONSTANTS
  Accounts,
  Threshold,     \* soft failures that take an account out
  MaxOthers      \* bound: charges by other requests

VARIABLES
  order,     \* schedule.Accounts, the accounts still to be tried first
  pinned,    \* schedule.Pinned
  sse,       \* the request asked for a stream
  pc,        \* "prepare", "loop", "sent", "reading", "exhausted", "done"
  current,   \* the account being tried
  gone,      \* the client has left
  held,      \* the context of the upstream call is not yet released
  drain,     \* tail drain of a left stream: "off", "running", "fired"
  replies,   \* responses begun on the client's writer
  record,    \* terminal statuses the request's record was given, in order
  snapshot,  \* latest update of the schedule snapshot: "none", "draft", "attempt", "final"
  soft,      \* soft failures counted per account
  out,       \* accounts a failure has taken out
  charged,   \* penalties of this request per account
  fault,     \* ghost: accounts whose answer to this request was a fault of theirs
  served,    \* account marked successful
  left,      \* ghost: accounts this request has gone on from
  others

pipeVars == <<order, pinned, sse, pc, current, gone, held, drain, replies, record, snapshot,
              soft, out, charged, fault, served, left, others>>

-----------------------------------------------------------------------------
NoOne == "none"

\* accountPoolSoftFailureThreshold lets no other threshold through.
ASSUME AccountAssumption ==
  /\ Threshold \in Nat \ {0} /\ MaxOthers \in Nat
  /\ NoOne \notin Accounts

Pcs  == {"prepare", "loop", "sent", "reading", "exhausted", "done"}

Orders == UNION {{s \in [1 .. n -> Accounts] : IsInjective(s)} : n \in 0 .. Cardinality(Accounts)}

Init ==
  /\ order = << >> /\ pinned = FALSE /\ sse \in BOOLEAN
  /\ pc = "prepare" /\ current = NoOne
  /\ gone = FALSE /\ held = FALSE /\ drain = "off"
  /\ replies = 0 /\ record = << >> /\ snapshot = "none"
  /\ soft = [a \in Accounts |-> 0] /\ out = {}
  /\ charged = [a \in Accounts |-> 0] /\ fault = {} /\ served = NoOne /\ left = {} /\ others = 0

-----------------------------------------------------------------------------
(* Penalties.                                                               *)

\* RecordAccountSoftFailure: the count that reaches the threshold starts a
\* cooldown and starts the count again.
Reaches(a) == soft[a] + 1 >= Threshold
Counted(a) == [soft EXCEPT ![a] = IF Reaches(a) THEN 0 ELSE @ + 1]

\* shouldFailOverAfterSoftFailure, for an account that is still known
SoftFailure(a) ==
  /\ soft' = Counted(a)
  /\ out' = IF Reaches(a) THEN out \cup {a} ELSE out
  /\ charged' = [charged EXCEPT ![a] = @ + 1]

\* MarkAccountAuthFailed, MarkAccountUsageLimitExceeded, MarkAccountTransientFailure
TakeOut(a) ==
  /\ out' = out \cup {a}
  /\ charged' = [charged EXCEPT ![a] = @ + 1]
  /\ UNCHANGED soft

NoPenalty == UNCHANGED <<soft, out, charged>>

\* Another request fails on the account.
OtherFails(a) ==
  /\ others < MaxOthers
  /\ others' = others + 1
  /\ soft' = Counted(a)
  /\ out' = IF Reaches(a) THEN out \cup {a} ELSE out
  /\ UNCHANGED <<order, pinned, sse, pc, current, gone, held, drain, replies, record, snapshot,
                 charged, fault, served, left>>

-----------------------------------------------------------------------------
(* Ways on from an attempt.                                                 *)

\* FailRequest and writeAccountPipelineError
EndWith(status, writes) ==
  /\ pc' = "done"
  /\ record' = Append(record, status)
  /\ replies' = replies + writes

\* Next turn of the loop; after the last account the loop falls out.
GoOn ==
  /\ pc' = IF order = << >> THEN "exhausted" ELSE "loop"
  /\ left' = left \cup {current}

\* !shouldFailover: the loop is left.
NoFailover(a) == ~Reaches(a)
GiveUp == pc' = "exhausted" /\ UNCHANGED left

\* A soft failure and what follows from it, unless moving on is free.
SoftThen(free) ==
  /\ SoftFailure(current)
  /\ snapshot' = "attempt"
  /\ IF free \/ ~NoFailover(current) THEN GoOn ELSE GiveUp

\* releaseUpstream
Release == held' = FALSE /\ drain' = "off"

-----------------------------------------------------------------------------
(* Steps.                                                                   *)

\* PrepareSchedulableAccounts: the list, an empty list, or an error.
Prepare(s, pin) ==
  /\ pc = "prepare" /\ s # << >>
  /\ order' = s /\ pinned' = pin /\ pc' = "loop" /\ snapshot' = "draft"
  /\ UNCHANGED <<sse, current, gone, held, drain, replies, record, soft, out, charged, fault,
                 served, left, others>>

NotScheduled(loaded) ==
  /\ pc = "prepare"
  /\ snapshot' = IF loaded THEN "final" ELSE "none"
  /\ EndWith("failed", 1) /\ NoPenalty
  /\ UNCHANGED <<order, pinned, sse, current, gone, held, drain, fault, served, left, others>>

\* newAccountStreamForwardContext: the goroutine waits for the client to leave.
Drain(stream, away) == IF stream /\ away THEN "running" ELSE "off"

\* forwardRequestToAccount up to the call: a stream gets a context of its own.
Forward ==
  /\ pc = "loop"
  /\ current' = Head(order) /\ order' = Tail(order)
  /\ pc' = "sent"
  /\ held' = sse
  /\ drain' = Drain(sse, gone)
  /\ UNCHANGED <<pinned, sse, gone, replies, record, snapshot, soft, out, charged, fault, served,
                 left, others>>

\* The client leaves; a stream's goroutine starts its timer.
ClientLeaves ==
  /\ ~gone /\ pc # "done"
  /\ gone' = TRUE
  /\ drain' = Drain(held, TRUE)
  /\ UNCHANGED <<order, pinned, sse, pc, current, held, replies, record, snapshot, soft, out,
                 charged, fault, served, left, others>>

TailDrainFires ==
  /\ drain = "running"
  /\ drain' = "fired"
  /\ UNCHANGED <<order, pinned, sse, pc, current, gone, held, replies, record, snapshot, soft, out,
                 charged, fault, served, left, others>>

\* Rejected by the privacy filter of this program, not by the account.
PolicyRefuses ==
  /\ pc = "sent"
  /\ Release /\ NoPenalty
  /\ snapshot' = "final" /\ EndWith("failed", 1)
  /\ UNCHANGED <<order, pinned, sse, current, gone, fault, served, left, others>>

\* No response: before the headers were written another account is free to
\* try unless the schedule is pinned.
SendFails(wroteHeaders) ==
  /\ pc = "sent"
  /\ Release
  /\ fault' = fault \cup {current}
  /\ SoftThen(~wroteHeaders /\ ~pinned)
  /\ UNCHANGED <<order, pinned, sse, current, gone, replies, record, served, others>>

\* 401, 403, 429 with the end of its window: the account is out, the next one is tried.
Unusable ==
  /\ pc = "sent"
  /\ Release /\ TakeOut(current)
  /\ fault' = fault \cup {current} /\ snapshot' = "attempt" /\ GoOn
  /\ UNCHANGED <<order, pinned, sse, current, gone, replies, record, served, others>>

\* 429 without a window, 5xx.
ServerFails ==
  /\ pc = "sent"
  /\ Release
  /\ fault' = fault \cup {current}
  /\ SoftThen(FALSE)
  /\ UNCHANGED <<order, pinned, sse, current, gone, replies, record, served, others>>

\* The local "no available providers" 503 and the other 4xx go to the client
\* as they are; a write that fails charges the account for a 4xx only.
PassOnCharging(local, written) ==                              \* faulty variant
  /\ pc = "sent"
  /\ Release /\ EndWith("failed", 1) /\ snapshot' = "final" /\ TakeOut(current)
  /\ UNCHANGED <<order, pinned, sse, current, gone, fault, served, left, others>>
PassOn(local, written) ==
  /\ pc = "sent" /\ (~written => gone)
  /\ Release
  /\ EndWith("failed", 1) /\ snapshot' = "final"
  /\ IF local \/ written THEN NoPenalty ELSE TakeOut(current)
  /\ fault' = IF local \/ written THEN fault ELSE fault \cup {current}
  /\ UNCHANGED <<order, pinned, sse, current, gone, served, left, others>>

\* A 2xx: the headers of a stream go out before it is read.
Accepts ==
  /\ pc = "sent"
  /\ pc' = "reading"
  /\ replies' = IF sse THEN replies + 1 ELSE replies
  /\ UNCHANGED <<order, pinned, sse, current, gone, held, drain, record, snapshot, soft, out,
                 charged, fault, served, left, others>>

\* MarkAccountSuccessIfNoNewerFailure and the terminal snapshot.
Succeed(writes) ==
  /\ EndWith("completed", writes)
  /\ served' = current /\ snapshot' = "final"
  /\ NoPenalty /\ UNCHANGED <<fault, left>>

\* processAccountRegularResponse
RegularCompletes ==
  /\ pc = "reading" /\ ~sse
  /\ Release /\ Succeed(1)
  /\ UNCHANGED <<order, pinned, sse, current, gone, others>>

\* The body is unreadable or empty, or the client's writer refuses it: the
\* record fails there, and the loop still goes on from the soft failure.
RegularFails(written) ==
  /\ pc = "reading" /\ ~sse /\ (written => gone)
  /\ Release
  /\ record' = Append(record, "failed")
  /\ replies' = IF written THEN replies + 1 ELSE replies
  /\ fault' = fault \cup {current} /\ SoftThen(FALSE)
  /\ UNCHANGED <<order, pinned, sse, current, gone, served, others>>

\* processAccountStreamingResponse: complete or incomplete, both without an error.
StreamEnds ==
  /\ pc = "reading" /\ sse
  /\ Release /\ Succeed(0)
  /\ UNCHANGED <<order, pinned, sse, current, gone, others>>

\* The client's leaving ended it: no penalty, and the snapshot stays a draft.
StreamCancelled ==
  /\ pc = "reading" /\ sse /\ gone
  /\ Release /\ NoPenalty
  /\ EndWith("cancelled", 0)
  /\ UNCHANGED <<order, pinned, sse, current, gone, snapshot, fault, served, left, others>>

\* Its status says what the account is charged with; no other account follows.
StreamBreaks(hard) ==
  /\ pc = "reading" /\ sse
  /\ Release
  /\ fault' = fault \cup {current}
  /\ IF hard THEN TakeOut(current) ELSE SoftFailure(current)
  /\ EndWith("failed", 0) /\ snapshot' = "final"
  /\ UNCHANGED <<order, pinned, sse, current, gone, served, left, others>>

\* account_pool_exhausted
Exhausted ==
  /\ pc = "exhausted"
  /\ snapshot' = "final" /\ EndWith("failed", 1) /\ NoPenalty
  /\ UNCHANGED <<order, pinned, sse, current, gone, held, drain, fault, served, left, others>>

Next ==
  \/ \E s \in Orders, pin \in BOOLEAN : Prepare(s, pin)
  \/ \E b \in BOOLEAN : NotScheduled(b) \/ SendFails(b) \/ RegularFails(b) \/ StreamBreaks(b)
  \/ \E b, c \in BOOLEAN : PassOn(b, c)
  \/ Forward \/ ClientLeaves \/ TailDrainFires
  \/ PolicyRefuses \/ Unusable \/ ServerFails \/ Accepts
  \/ RegularCompletes \/ StreamEnds \/ StreamCancelled \/ Exhausted
  \/ \E a \in Accounts : OtherFails(a)

Spec == Init /\ [][Next]_pipeVars

\* The handler runs on, the timer fires, the transport gives up waiting for
\* headers, and a read on a cancelled context fails.  Nothing makes an account
\* answer or a client leave.
Handler == \/ \E s \in Orders, pin \in BOOLEAN : Prepare(s, pin)
           \/ NotScheduled(TRUE) \/ Forward \/ Exhausted
ReadCut == (gone /\ ~sse /\ RegularFails(FALSE)) \/ (drain = "fired" /\ StreamCancelled)
Fairness ==
  /\ WF_pipeVars(Handler) /\ WF_pipeVars(TailDrainFires)
  /\ WF_pipeVars(SendFails(TRUE) \/ SendFails(FALSE)) /\ WF_pipeVars(ReadCut)
FairSpec == Spec /\ Fairness

-----------------------------------------------------------------------------
TypeOK ==
  /\ order \in Seq(Accounts) /\ pinned \in BOOLEAN /\ sse \in BOOLEAN /\ pc \in Pcs
  /\ current \in Accounts \cup {NoOne} /\ gone \in BOOLEAN /\ held \in BOOLEAN
  /\ drain \in {"off", "running", "fired"}
  /\ replies \in Nat /\ record \in Seq({"completed", "failed", "cancelled"})
  /\ snapshot \in {"none", "draft", "attempt", "final"}
  /\ soft \in [Accounts -> 0 .. Threshold - 1] /\ out \subseteq Accounts
  /\ charged \in [Accounts -> Nat] /\ fault \subseteq Accounts
  /\ served \in Accounts \cup {NoOne} /\ left \subseteq Accounts

\* A client that is still there gets one response: whatever accounts failed
\* before, none of them had begun to answer it, and a request does not end
\* without an answer.
OneReply == ~gone => /\ replies <= 1
                     /\ (pc = "done" => replies = 1)

\* An account pays once for a fault of its own and never for a refusal of this
\* program, an answer passed on, a client that left its stream, or a success.
FaultsArePaid ==
  \A a \in Accounts : charged[a] = (IF a \in fault THEN 1 ELSE 0)

\* A pinned request goes on to another account only after the one before it has
\* been taken out of the pool.
PinHolds == pinned => left \subseteq out

\* The context of an upstream stream is released on every way out of an attempt.
ContextReleased == held => pc \in {"sent", "reading"}

\* A request that ends by an outcome of its own leaves a closed schedule
\* snapshot; only a cancelled stream leaves it to the expiry of the draft.
SnapshotClosed ==
  pc = "done" /\ Last(record) # "cancelled" => snapshot \in {"final", "none"}

\* What the record says last is what the client was given.
RecordTellsOutcome ==
  pc = "done" => ((served # NoOne) <=> (Last(record) = "completed"))

\* An account pays once for a fault of its own and for nothing else, a pinned request
\* stays with its account until that is out, a client gets one answer, and the record,
\* the snapshot and the upstream context of a request agree with how it ended.
AccountRequestIsSettled ==
  /\ TypeOK /\ FaultsArePaid /\ PinHolds /\ OneReply
  /\ RecordTellsOutcome /\ SnapshotClosed /\ ContextReleased

\* A request whose client has left comes to its end, however silent the account.
LeftRequestEnds == gone ~> (pc = "done")
=============================================================================
