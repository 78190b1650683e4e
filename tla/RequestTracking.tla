--------------------------- MODULE RequestTracking ---------------------------
(***************************************************************************)
(* The usage record of each request from its start to its row in           *)
(* request_logs: the handler's calls and the updates of other goroutines   *)
(* on the hot pool, the archiver that inserts finished requests in         *)
(* batches, the event queue that everything falls back to once a request   *)
(* is not in the pool, the cleaner, and the shutdown.                      *)
(* internal/tracking/{hot_pool,archive_manager,database,tracker}.go.       *)
(***************************************************************************)
EXTENDS Integers, Sequences, FiniteSets

CONSTANTS
  Requests,
  Notes,        \* fields other goroutines write into a request's record, once each
  PoolSize,     \* HotPoolConfig.MaxSize
  BufferSize,   \* capacity of the event channel and of the archive channel
  BatchSize,
  MaxRetry,
  Outcomes,     \* how handlers end
  Faults        \* "write" fails, requests "expire", the tracker is "close"d

ASSUME TrackingAssumption ==
  /\ IsFiniteSet(Requests) /\ PoolSize \in Nat
  /\ {BufferSize, BatchSize, MaxRetry} \subseteq Nat \ {0}
  /\ Outcomes \subseteq {"complete", "fail", "failTokens", "cancel", "cancelStream"}
  /\ Faults \subseteq {"write", "expire", "close"}

VARIABLES
  phase,        \* of UsageTracker.Close
  handler,      \* each request's own calls: how it ends, how many are made
  place,        \* the pool's map that holds the request
  mem,          \* the ActiveRequest
  persisted,    \* ActiveRequest.archivePersisted
  leaving,      \* removed from the pool, archive callback still to be called
  update,       \* the other goroutines' updates
  row,          \* request_logs
  archiveChan, arch,   \* the archiver's channel and the archiver
  eventChan, ev,       \* the event channel and its processor
  ended         \* ghost: the requests that had ended when Close was called

vars == <<phase, handler, place, mem, persisted, leaving, update, row,
          archiveChan, arch, eventChan, ev, ended>>

-----------------------------------------------------------------------------
(* Types.                                                                   *)

Updates == Requests \X Notes
Open == "open"                          \* pending, forwarding, processing
Closed == {"completed", "failed", "cancelled", "timeout"}

Contents == [status : {"none", Open} \cup Closed, tokens : BOOLEAN, notes : SUBSET Notes]
Empty == [status |-> "none", tokens |-> FALSE, notes |-> {}]
Fresh == [Empty EXCEPT !.status = Open]

\* A row has a cost as well, computed when it is inserted or by some updates.
Rows == [c : Contents, cost : BOOLEAN]
NoRow == [c |-> Empty, cost |-> FALSE]
HasRow(r) == row[r].c.status # "none"

\* The calls a handler makes, in order.
Tokens == [op |-> "tokens", status |-> Open, tokens |-> TRUE, note |-> {}]
Final(status, tokens) == [op |-> "final", status |-> status, tokens |-> tokens, note |-> {}]
Calls(outcome) ==
  CASE outcome = "complete"     -> <<Final("completed", TRUE)>>
    [] outcome = "fail"         -> <<Final("failed", FALSE)>>
    [] outcome = "failTokens"   -> <<Tokens, Final("failed", FALSE)>>
    [] outcome = "cancel"       -> <<Final("cancelled", FALSE)>>
    [] outcome = "cancelStream" -> <<Final("cancelled", FALSE), Final("cancelled", TRUE)>>
    [] OTHER                    -> <<>>

Events == [req : Requests, op : {"start", "note", "tokens", "final"},
           status : {Open} \cup Closed, tokens : BOOLEAN, note : SUBSET Notes]
EventOf(r, call) == [req |-> r, op |-> call.op, status |-> call.status,
                     tokens |-> call.tokens, note |-> call.note]
StartEvent(r) == [req |-> r, op |-> "start", status |-> Open, tokens |-> FALSE, note |-> {}]
NoteEvent(u) == [req |-> u[1], op |-> "note", status |-> Open, tokens |-> FALSE,
                 note |-> {u[2]}]

Phases == {"running", "cancelled", "closing", "draining", "closed"}
PoolUp == phase \in {"running", "cancelled", "closing"}   \* ut.hotPool # nil
QueueUp == phase \in {"running", "cancelled"}             \* ut.eventChan # nil

Active == {r \in Requests : place[r] = "active"}

\* HotPool.Update and SnapshotRequest look into both maps.
ListedActive(r) == PoolUp /\ place[r] = "active"              \* faulty variant
Listed(r) == PoolUp /\ place[r] \in {"active", "archiving"}

Started(r) == handler[r].outcome # "none"
CallsLeft(r) == handler[r].next <= Len(Calls(handler[r].outcome))
NextCall(r) == Calls(handler[r].outcome)[handler[r].next]

Init ==
  /\ phase = "running"
  /\ handler = [r \in Requests |-> [outcome |-> "none", next |-> 1]]
  /\ place = [r \in Requests |-> "none"]
  /\ mem = [r \in Requests |-> Empty]
  /\ persisted = [r \in Requests |-> FALSE]
  /\ leaving = {}
  /\ update = [u \in Updates |-> "idle"]
  /\ row = [r \in Requests |-> NoRow]
  /\ archiveChan = <<>>
  /\ arch = [batch |-> <<>>, tries |-> 0, done |-> FALSE]
  /\ eventChan = <<>>
  /\ ev = [batch |-> <<>>, at |-> 0, tries |-> 0, mode |-> "collect"]
  /\ ended = {}

-----------------------------------------------------------------------------
(* The handler and the other goroutines of a request.                       *)

\* Sends to both channels never block.
HasRoom(chan) == Len(chan) < BufferSize
Queue(e) == eventChan' = IF QueueUp /\ HasRoom(eventChan) THEN Append(eventChan, e)
                                                          ELSE eventChan
SendToArchive(r) ==
  archiveChan' = IF phase # "closed" /\ HasRoom(archiveChan) THEN Append(archiveChan, r)
                                                             ELSE archiveChan
Called(r) == handler' = [handler EXCEPT ![r].next = @ + 1]

\* A request that the pool does not take is recorded through events.
Start(r, outcome) ==
  /\ ~Started(r)
  /\ handler' = [handler EXCEPT ![r].outcome = outcome]
  /\ IF QueueUp /\ Cardinality(Active) < PoolSize
     THEN /\ place' = [place EXCEPT ![r] = "active"]
          /\ mem' = [mem EXCEPT ![r] = Fresh]
          /\ UNCHANGED eventChan
     ELSE /\ Queue(StartEvent(r))
          /\ UNCHANGED <<place, mem>>
  /\ UNCHANGED <<phase, persisted, leaving, update, row, archiveChan, arch, ev, ended>>

\* RecordFailedRequestTokens: the look-up and the write are one step here, the
\* updates below have them apart.
RecordTokens(r) ==
  /\ Started(r) /\ CallsLeft(r) /\ NextCall(r).op = "tokens"
  /\ Called(r)
  /\ IF Listed(r) /\ ~persisted[r]
     THEN mem' = [mem EXCEPT ![r].tokens = TRUE] /\ UNCHANGED eventChan
     ELSE Queue(EventOf(r, NextCall(r))) /\ UNCHANGED mem
  /\ UNCHANGED <<phase, place, persisted, leaving, update, row, archiveChan, arch, ev, ended>>

\* CompleteAndArchive takes the request out of the active map ...
Finishing(r) == Started(r) /\ CallsLeft(r) /\ NextCall(r).op = "final"
InFinalizer(r) == place[r] = "archiving" /\ mem[r].status = Open

Move(r) ==
  /\ Finishing(r) /\ PoolUp /\ place[r] = "active"
  /\ place' = [place EXCEPT ![r] = "archiving"]
  /\ UNCHANGED <<phase, handler, mem, persisted, leaving, update, row,
                 archiveChan, arch, eventChan, ev, ended>>

\* ... then fills it in under its own lock and hands it to the archiver. Tokens
\* recorded before a failure stay.
Finalized(r) == [status |-> NextCall(r).status,
                 tokens |-> NextCall(r).tokens \/ mem[r].tokens,
                 notes |-> mem[r].notes]

Finalize(r) ==
  /\ Finishing(r) /\ InFinalizer(r)
  /\ Called(r)
  /\ mem' = [mem EXCEPT ![r] = Finalized(r)]
  /\ SendToArchive(r)
  /\ UNCHANGED <<phase, place, persisted, leaving, update, row, arch, eventChan, ev, ended>>

\* A final call for a request that is not active becomes an event.
FinalEvent(r) ==
  /\ Finishing(r) /\ ~InFinalizer(r) /\ ~(PoolUp /\ place[r] = "active")
  /\ Called(r)
  /\ Queue(EventOf(r, NextCall(r)))
  /\ UNCHANGED <<phase, place, mem, persisted, leaving, update, row, archiveChan, arch, ev, ended>>

Handler(r) ==
  \/ \E outcome \in Outcomes : Start(r, outcome)
  \/ RecordTokens(r) \/ Move(r) \/ Finalize(r) \/ FinalEvent(r)

\* HotPool.Update finds the entry under the pool's lock ...
LookUp(u) ==
  /\ Started(u[1]) /\ update[u] = "idle"
  /\ IF Listed(u[1])
     THEN update' = [update EXCEPT ![u] = "found"] /\ UNCHANGED eventChan
     ELSE update' = [update EXCEPT ![u] = "sent"] /\ Queue(NoteEvent(u))
  /\ UNCHANGED <<phase, handler, place, mem, persisted, leaving, row, archiveChan, arch, ev, ended>>

\* ... and writes under the entry's own, unless its row was inserted meanwhile.
Unguarded(r) == TRUE
BeforeMove(r) == place[r] = "active"                         \* faulty variants
MayWrite(r) == ~persisted[r]

Apply(u) ==
  /\ update[u] = "found"
  /\ IF MayWrite(u[1])
     THEN /\ mem' = [mem EXCEPT ![u[1]].notes = @ \cup {u[2]}]
          /\ update' = [update EXCEPT ![u] = "kept"]
          /\ UNCHANGED eventChan
     ELSE /\ update' = [update EXCEPT ![u] = "sent"]
          /\ Queue(NoteEvent(u))
          /\ UNCHANGED mem
  /\ UNCHANGED <<phase, handler, place, persisted, leaving, row, archiveChan, arch, ev, ended>>

\* cleanup: a request that is too old is given up.
NotRemoved(r) == place                                       \* faulty variant
Removed(r) == [place EXCEPT ![r] = "out"]

Expire(r) ==
  /\ "expire" \in Faults /\ phase \in {"running", "cancelled"} /\ place[r] = "active"
  /\ place' = Removed(r)
  /\ mem' = [mem EXCEPT ![r].status = "timeout"]
  /\ leaving' = leaving \cup {r}
  /\ UNCHANGED <<phase, handler, persisted, update, row, archiveChan, arch, eventChan, ev, ended>>

\* The archive callback of cleanup and of HotPool.Close, outside the pool's lock.
Leave(r) ==
  /\ r \in leaving
  /\ leaving' = leaving \ {r}
  /\ SendToArchive(r)
  /\ UNCHANGED <<phase, handler, place, mem, persisted, update, row, arch, eventChan, ev, ended>>

-----------------------------------------------------------------------------
(* The archiver: startArchiver, flushBatch, batchInsert.                    *)

InBatch(r) == \E i \in 1..Len(arch.batch) : arch.batch[i] = r

Take ==
  /\ phase # "closed" /\ archiveChan # <<>>
  /\ Len(arch.batch) < BatchSize /\ arch.tries = 0 /\ ~arch.done
  /\ arch' = [arch EXCEPT !.batch = Append(@, Head(archiveChan))]
  /\ archiveChan' = Tail(archiveChan)
  /\ UNCHANGED <<phase, handler, place, mem, persisted, leaving, update, row, eventChan, ev, ended>>

\* The insert holds the lock of every request of the batch from reading it to
\* the commit; the cost is computed from the tokens.
Marked == [r \in Requests |-> persisted[r] \/ InBatch(r)]

Commit ==
  /\ phase # "closed" /\ arch.batch # <<>> /\ ~arch.done
  /\ \A r \in Requests : InBatch(r) => ~HasRow(r)            \* request_id is unique
  /\ row' = [r \in Requests |->
               IF InBatch(r) THEN [c |-> mem[r], cost |-> mem[r].tokens] ELSE row[r]]
  /\ persisted' = Marked
  /\ arch' = [arch EXCEPT !.done = TRUE, !.tries = 0]
  /\ UNCHANGED <<phase, handler, place, mem, leaving, update, archiveChan, eventChan, ev, ended>>

\* ConfirmArchived forgets the copies in memory.
Confirm ==
  /\ arch.done
  /\ place' = [r \in Requests |-> IF InBatch(r) /\ place[r] = "archiving" THEN "out" ELSE place[r]]
  /\ arch' = [batch |-> <<>>, tries |-> 0, done |-> FALSE]
  /\ UNCHANGED <<phase, handler, mem, persisted, leaving, update, row, archiveChan, eventChan, ev, ended>>

\* A failed insert is tried again; then the batch is dropped, and its requests
\* stay in the archiving map.
InsertFails ==
  /\ "write" \in Faults /\ phase # "closed" /\ arch.batch # <<>> /\ ~arch.done
  /\ arch' = IF arch.tries + 1 < MaxRetry
             THEN [arch EXCEPT !.tries = @ + 1]
             ELSE [batch |-> <<>>, tries |-> 0, done |-> FALSE]
  /\ UNCHANGED <<phase, handler, place, mem, persisted, leaving, update, row, archiveChan,
                 eventChan, ev, ended>>

Archiver == Take \/ Commit \/ Confirm \/ InsertFails

-----------------------------------------------------------------------------
(* The event processor: processEvents, flushBatch, processBatch and the     *)
(* statements of buildWriteQuery. ev.at is the next event of a flush.       *)

\* An UPDATE without a row has no effect. A final event of a failure writes the
\* tokens it carries, none included, and no cost.
Written(e) ==
  LET c == row[e.req].c
  IN  CASE e.op = "start"  -> [row[e.req] EXCEPT !.c.status = Open]
        [] e.op = "note" /\ HasRow(e.req)   -> [row[e.req] EXCEPT !.c.notes = @ \cup e.note]
        [] e.op = "tokens" /\ HasRow(e.req) ->
             [c |-> [c EXCEPT !.tokens = TRUE], cost |-> TRUE]
        [] e.op = "final" /\ HasRow(e.req)  ->
             [c |-> [c EXCEPT !.status = e.status, !.tokens = e.tokens],
              cost |-> IF e.status = "completed" THEN e.tokens ELSE row[e.req].cost]
        [] OTHER -> row[e.req]

Write(e) == row' = [row EXCEPT ![e.req] = Written(e)]

Receive ==
  /\ ev.mode \in {"collect", "drain"} /\ ev.at = 0 /\ eventChan # <<>>
  /\ LET batch == Append(ev.batch, Head(eventChan))
     IN  ev' = [ev EXCEPT !.batch = batch, !.at = IF Len(batch) >= BatchSize THEN 1 ELSE 0]
  /\ eventChan' = Tail(eventChan)
  /\ UNCHANGED <<phase, handler, place, mem, persisted, leaving, update, row, archiveChan, arch, ended>>

Tick ==
  /\ ev.mode = "collect" /\ ev.at = 0 /\ ev.batch # <<>>
  /\ ev' = [ev EXCEPT !.at = 1]
  /\ UNCHANGED <<phase, handler, place, mem, persisted, leaving, update, row, archiveChan, arch,
                 eventChan, ended>>

\* After the first flush of the shutdown the batch is not emptied.
FlushOver(e) == [batch |-> IF e.mode = "first" THEN e.batch ELSE <<>>, at |-> 0, tries |-> 0,
                 mode |-> CASE e.mode = "first" -> "drain"
                            [] e.mode = "last"  -> "stopped"
                            [] OTHER            -> e.mode]
Flushing == ev.at > 0
Advanced == IF ev.at < Len(ev.batch) THEN [ev EXCEPT !.at = @ + 1] ELSE FlushOver(ev)

WriteEvent ==
  /\ Flushing
  /\ Write(ev.batch[ev.at])
  /\ ev' = Advanced
  /\ UNCHANGED <<phase, handler, place, mem, persisted, leaving, update, archiveChan, arch,
                 eventChan, ended>>

\* A failed write is logged and skipped.
WriteFails ==
  /\ Flushing /\ "write" \in Faults
  /\ ev' = Advanced
  /\ UNCHANGED <<phase, handler, place, mem, persisted, leaving, update, row, archiveChan, arch,
                 eventChan, ended>>

\* After the cancellation every wait for the writer may end at once, with the
\* write done or not, and the whole batch is tried again or given up.
Abort ==
  /\ Flushing /\ phase # "running"
  /\ Write(ev.batch[ev.at]) \/ UNCHANGED row
  /\ ev' = IF ev.tries + 1 < MaxRetry THEN [ev EXCEPT !.at = 1, !.tries = @ + 1]
                                      ELSE FlushOver(ev)
  /\ UNCHANGED <<phase, handler, place, mem, persisted, leaving, update, archiveChan, arch,
                 eventChan, ended>>

SeeCancelled ==
  /\ phase # "running" /\ ev.mode = "collect" /\ ev.at = 0
  /\ ev' = IF ev.batch = <<>> THEN [ev EXCEPT !.mode = "drain"]
                              ELSE [ev EXCEPT !.mode = "first", !.at = 1]
  /\ UNCHANGED <<phase, handler, place, mem, persisted, leaving, update, row, archiveChan, arch,
                 eventChan, ended>>

LastFlush ==
  /\ ev.mode = "drain" /\ ev.at = 0 /\ eventChan = <<>>
  /\ ev' = IF ev.batch = <<>> THEN [ev EXCEPT !.mode = "stopped"]
                              ELSE [ev EXCEPT !.mode = "last", !.at = 1]
  /\ UNCHANGED <<phase, handler, place, mem, persisted, leaving, update, row, archiveChan, arch,
                 eventChan, ended>>

EventProcessor ==
  \/ Receive \/ Tick \/ WriteEvent \/ WriteFails \/ Abort \/ SeeCancelled \/ LastFlush

-----------------------------------------------------------------------------
(* UsageTracker.Close.                                                      *)

HasEnded(r) == Started(r) /\ ~CallsLeft(r)

Cancel ==
  /\ "close" \in Faults /\ phase = "running"
  /\ phase' = "cancelled"
  /\ ended' = {r \in Requests : HasEnded(r)}
  /\ UNCHANGED <<handler, place, mem, persisted, leaving, update, row, archiveChan, arch,
                 eventChan, ev>>

\* HotPool.Close: what is still active counts as cancelled.
ClosePool ==
  /\ phase = "cancelled" /\ ev.mode = "stopped"
  /\ phase' = "closing"
  /\ mem' = [r \in Requests |-> IF place[r] = "active" THEN [mem[r] EXCEPT !.status = "cancelled"]
                                                       ELSE mem[r]]
  /\ place' = [r \in Requests |-> IF place[r] = "active" THEN "out" ELSE place[r]]
  /\ leaving' = leaving \cup Active
  /\ UNCHANGED <<handler, persisted, update, row, archiveChan, arch, eventChan, ev, ended>>

CloseArchive ==
  /\ phase = "closing" /\ leaving = {}
  /\ phase' = "draining"
  /\ UNCHANGED <<handler, place, mem, persisted, leaving, update, row, archiveChan, arch,
                 eventChan, ev, ended>>

LeaveQueued == TRUE                                          \* faulty variant
Drained == archiveChan = <<>> /\ arch.batch = <<>>

Closes ==
  /\ phase = "draining" /\ Drained
  /\ phase' = "closed"
  /\ UNCHANGED <<handler, place, mem, persisted, leaving, update, row, archiveChan, arch,
                 eventChan, ev, ended>>

Close == Cancel \/ ClosePool \/ CloseArchive \/ Closes

Next ==
  \/ \E r \in Requests : Handler(r) \/ Expire(r) \/ Leave(r)
  \/ \E u \in Updates : LookUp(u) \/ Apply(u)
  \/ Archiver \/ EventProcessor \/ Close

Fairness ==
  /\ \A r \in Requests : WF_vars(Move(r) \/ Finalize(r) \/ FinalEvent(r) \/ RecordTokens(r))
                         /\ WF_vars(Leave(r))
  /\ WF_vars(Take) /\ WF_vars(Commit) /\ WF_vars(Confirm)
  /\ WF_vars(Receive) /\ WF_vars(Tick) /\ WF_vars(WriteEvent)

Spec == Init /\ [][Next]_vars /\ Fairness

-----------------------------------------------------------------------------
(* Properties.                                                              *)

Batches == [batch : Seq(Requests), tries : Nat, done : BOOLEAN]
Processors == [batch : Seq(Events), at : Nat, tries : Nat,
               mode : {"collect", "first", "drain", "last", "stopped"}]

\* Type correctness; the channels never exceed their capacity and a flush is
\* always at an event of its batch.
TypeOK ==
  /\ phase \in Phases
  /\ handler \in [Requests -> [outcome : Outcomes \cup {"none"}, next : Nat \ {0}]]
  /\ place \in [Requests -> {"none", "active", "archiving", "out"}]
  /\ mem \in [Requests -> Contents]
  /\ persisted \in [Requests -> BOOLEAN]
  /\ leaving \subseteq Requests /\ ended \subseteq Requests
  /\ update \in [Updates -> {"idle", "found", "kept", "sent"}]
  /\ row \in [Requests -> Rows]
  /\ archiveChan \in Seq(Requests) /\ Len(archiveChan) <= BufferSize
  /\ arch \in Batches
  /\ eventChan \in Seq(Events) /\ Len(eventChan) <= BufferSize
  /\ ev \in Processors /\ ev.at <= Len(ev.batch)

\* The commit barrier: an update that was accepted in memory is in the row once
\* the request is marked as inserted, whatever ran between the look-up of the
\* entry and the write (batchInsert, HotPool.Update).
CommitBarrier ==
  \A u \in Updates : update[u] = "kept" /\ persisted[u[1]] => u[2] \in row[u[1]].c.notes

Queued(e) == \/ \E i \in 1..Len(eventChan) : eventChan[i] = e
             \/ \E i \in 1..Len(ev.batch) : ev.batch[i] = e /\ ev.at <= i

\* An update that the pool refuses is sent as an UPDATE only when the row is
\* there, so that it is not lost (RecordRequestUpdate). Requests that were given
\* up for their age are the exception.
SentUpdatesHaveRow ==
  \A u \in Updates : Queued(NoteEvent(u)) /\ place[u[1]] # "none" /\ mem[u[1]].status # "timeout"
                     => HasRow(u[1])

Copies(r) ==
  Cardinality({i \in 1..Len(archiveChan) : archiveChan[i] = r})
  + (IF arch.done THEN 0 ELSE Cardinality({i \in 1..Len(arch.batch) : arch.batch[i] = r}))
  + (IF r \in leaving THEN 1 ELSE 0)

\* A request is handed to the archiver once, and not after it has a row: the
\* insert of a second copy would fail with its whole batch (batchInsert).
ArchivedOnce == \A r \in Requests : Copies(r) <= (IF HasRow(r) THEN 0 ELSE 1)

recBar == [r \in Requests |-> IF place[r] # "none" /\ ~persisted[r] THEN mem[r] ELSE row[r].c]
shownBar == {r \in Requests : (Listed(r) /\ ~persisted[r]) \/ HasRow(r)}
RR == INSTANCE RequestRecord WITH rec <- recBar, shown <- shownBar

\* To a reader who asks the pool first and the database next, the hand-over
\* between them does not exist (GetRequestLifecycleData).
ImplementsRecord == RR!Spec

Quiet ==
  /\ phase = "running" /\ leaving = {}
  /\ \A r \in Requests : Started(r) => HasEnded(r)
  /\ \A u \in Updates : update[u] # "found"
  /\ archiveChan = <<>> /\ arch.batch = <<>> /\ eventChan = <<>> /\ ev.batch = <<>>

\* When nothing is in flight the tokens a handler reported, with whatever
\* outcome, are in the row together with their cost.
TokensReachTheRow ==
  Quiet => \A r \in Requests :
             handler[r].outcome \in {"complete", "failTokens", "cancelStream"}
             => row[r].c.tokens /\ row[r].cost

\* A graceful shutdown loses no request that had ended before it began.
ShutdownKeepsFinished ==
  phase = "closed" => \A r \in ended : row[r].c.status \in Closed

=============================================================================
