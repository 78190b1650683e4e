------------------------ MODULE RequestTracking_proofs ------------------------
(***************************************************************************)
(* Theorems about RequestTracking, for every set of requests and notes,    *)
(* every pool, channel and batch size and every combination of faults, and *)
(* that it implements RequestRecord as long as the tracker is not closed;  *)
(* and, with room for every request and a database that takes the writes,  *)
(* that finished requests and their tokens get to their rows.              *)
(***************************************************************************)
EXTENDS RequestTracking, FiniteSetTheorems, TLAPS

-----------------------------------------------------------------------------
(* The calls of a handler.                                                  *)

FinalStatus(r) ==
  CASE handler[r].outcome = "complete"               -> "completed"
    [] handler[r].outcome \in {"fail", "failTokens"} -> "failed"
    [] OTHER                                         -> "cancelled"

CallRecords == [op : {"tokens", "final"}, status : {Open} \cup Closed, tokens : BOOLEAN,
                note : SUBSET Notes]

\* Every call has the shape of an event, and the final calls of a handler agree
\* on the outcome.
LEMMA CallsOfHandler ==
  ASSUME NEW r \in Requests, handler[r].outcome \in Outcomes \cup {"none"},
         handler[r].next \in Nat \ {0}, CallsLeft(r)
  PROVE  /\ NextCall(r) \in CallRecords
         /\ EventOf(r, NextCall(r)) \in Events
         /\ NextCall(r).op = "final" => NextCall(r).status = FinalStatus(r)
         /\ NextCall(r).op = "final" => NextCall(r).status \in Closed
<1> DEFINE o == handler[r].outcome
           n == handler[r].next
<1>1. o \in {"none", "complete", "fail", "failTokens", "cancel", "cancelStream"}
  BY TrackingAssumption
<1>2. NextCall(r) \in CallRecords /\ (NextCall(r).op = "final" => /\ NextCall(r).status = FinalStatus(r)
                                                                /\ NextCall(r).status \in Closed)
  <2>1. CASE o = "none"
    BY <2>1 DEF CallsLeft, Calls
  <2>2. CASE o = "complete"
    <3>1. n = 1 BY <2>2 DEF CallsLeft, Calls
    <3> QED BY <3>1, <2>2 DEF NextCall, Calls, Final, CallRecords, Closed, Open, FinalStatus
  <2>3. CASE o = "fail"
    <3>1. n = 1 BY <2>3 DEF CallsLeft, Calls
    <3> QED BY <3>1, <2>3 DEF NextCall, Calls, Final, CallRecords, Closed, Open, FinalStatus
  <2>4. CASE o = "failTokens"
    <3>1. n = 1 \/ n = 2 BY <2>4 DEF CallsLeft, Calls
    <3>2. CASE n = 1 BY <3>2, <2>4 DEF NextCall, Calls, Final, Tokens, CallRecords, Closed, Open, FinalStatus
    <3>3. CASE n = 2 BY <3>3, <2>4 DEF NextCall, Calls, Final, Tokens, CallRecords, Closed, Open, FinalStatus
    <3> QED BY <3>1, <3>2, <3>3
  <2>5. CASE o = "cancel"
    <3>1. n = 1 BY <2>5 DEF CallsLeft, Calls
    <3> QED BY <3>1, <2>5 DEF NextCall, Calls, Final, CallRecords, Closed, Open, FinalStatus
  <2>6. CASE o = "cancelStream"
    <3>1. n = 1 \/ n = 2 BY <2>6 DEF CallsLeft, Calls
    <3>2. CASE n = 1 BY <3>2, <2>6 DEF NextCall, Calls, Final, CallRecords, Closed, Open, FinalStatus
    <3>3. CASE n = 2 BY <3>3, <2>6 DEF NextCall, Calls, Final, CallRecords, Closed, Open, FinalStatus
    <3> QED BY <3>1, <3>2, <3>3
  <2> QED BY <1>1, <2>1, <2>2, <2>3, <2>4, <2>5, <2>6
<1>3. EventOf(r, NextCall(r)) \in Events
  BY <1>2 DEF EventOf, Events, CallRecords
<1> QED BY <1>2, <1>3

-----------------------------------------------------------------------------
(* Types.                                                                   *)

LEMMA TypeInit == Init => TypeOK
BY TrackingAssumption
DEF Init, TypeOK, Phases, Contents, Empty, Rows, NoRow, Updates, Batches, Processors

\* What a send leaves in a channel.
LEMMA QueueType ==
  ASSUME TypeOK, NEW e \in Events, Queue(e)
  PROVE  eventChan' \in Seq(Events) /\ Len(eventChan') <= BufferSize
BY TrackingAssumption DEF Queue, HasRoom, TypeOK

LEMMA ArchiveChanType ==
  ASSUME TypeOK, NEW r \in Requests, SendToArchive(r)
  PROVE  archiveChan' \in Seq(Requests) /\ Len(archiveChan') <= BufferSize
BY TrackingAssumption DEF SendToArchive, HasRoom, TypeOK

LEMMA FreshType == Fresh \in Contents /\ Fresh.status = Open
<1>1. Empty \in Contents
  BY DEF Empty, Contents
<1>2. \A c \in Contents : /\ [c EXCEPT !.status = Open] \in Contents
                          /\ [c EXCEPT !.status = Open].status = Open
  BY DEF Contents
<1> QED BY <1>1, <1>2 DEF Fresh

LEMMA EventTypes ==
  /\ \A r \in Requests : StartEvent(r) \in Events
  /\ \A u \in Updates : NoteEvent(u) \in Events /\ u[1] \in Requests /\ u[2] \in Notes
BY DEF StartEvent, NoteEvent, Events, Updates, Open

LEMMA TypeHandler ==
  ASSUME TypeOK, NEW r \in Requests, Handler(r)
  PROVE  TypeOK'
<1>1. handler[r].outcome \in Outcomes \cup {"none"} /\ handler[r].next \in Nat \ {0}
  BY DEF TypeOK
<1> DEFINE Handlers == [outcome : Outcomes \cup {"none"}, next : Nat \ {0}]
<1>2. ASSUME Called(r)
      PROVE  handler' \in [Requests -> Handlers]
  <2>3. handler[r] \in Handlers /\ handler[r].next + 1 \in Nat \ {0}
    BY <1>1 DEF TypeOK
  <2>1. [handler[r] EXCEPT !.next = @ + 1] \in Handlers
    BY <2>3
  <2>2. handler' = [handler EXCEPT ![r] = [handler[r] EXCEPT !.next = @ + 1]]
    BY <1>2 DEF Called
  <2> QED BY <2>1, <2>2 DEF TypeOK
<1>3. ASSUME NEW o \in Outcomes, Start(r, o)
      PROVE  TypeOK'
  <2>1. handler' \in [Requests -> [outcome : Outcomes \cup {"none"}, next : Nat \ {0}]]
    BY <1>3 DEF TypeOK, Start
  <2>2. Fresh \in Contents
    BY FreshType
  <2>4. mem' \in [Requests -> Contents]
    BY <1>3, <2>2 DEF TypeOK, Start
  <2>5. place' \in [Requests -> {"none", "active", "archiving", "out"}]
    BY <1>3 DEF TypeOK, Start
  <2>3. eventChan' \in Seq(Events) /\ Len(eventChan') <= BufferSize
    BY <1>3, QueueType, EventTypes DEF TypeOK, Start
  <2> QED BY <1>3, <2>1, <2>3, <2>4, <2>5 DEF TypeOK, Start
<1>4. CASE RecordTokens(r)
  <2>1. EventOf(r, NextCall(r)) \in Events
    BY <1>1, <1>4, CallsOfHandler DEF RecordTokens
  <2>2. eventChan' \in Seq(Events) /\ Len(eventChan') <= BufferSize
    BY <1>4, <2>1, QueueType DEF TypeOK, RecordTokens
  <2>4. [mem[r] EXCEPT !.tokens = TRUE] \in Contents
    BY DEF TypeOK, Contents
  <2>3. mem' \in [Requests -> Contents]
    BY <1>4, <2>4 DEF TypeOK, RecordTokens
  <2> QED BY <1>2, <1>4, <2>2, <2>3 DEF TypeOK, RecordTokens
<1>5. CASE Move(r)
  BY <1>5 DEF TypeOK, Move
<1>6. CASE Finalize(r)
  <2>1. NextCall(r) \in CallRecords
    BY <1>1, <1>6, CallsOfHandler DEF Finalize, Finishing
  <2>2. Finalized(r) \in Contents
    <3>1. (NextCall(r).tokens \/ mem[r].tokens) \in BOOLEAN
      OBVIOUS
    <3> QED BY <2>1, <3>1 DEF TypeOK, Finalized, Contents, CallRecords
  <2>3. mem' \in [Requests -> Contents]
    BY <1>6, <2>2 DEF TypeOK, Finalize
  <2>4. archiveChan' \in Seq(Requests) /\ Len(archiveChan') <= BufferSize
    BY <1>6, ArchiveChanType DEF Finalize
  <2> QED BY <1>2, <1>6, <2>3, <2>4 DEF TypeOK, Finalize
<1>7. CASE FinalEvent(r)
  <2>1. EventOf(r, NextCall(r)) \in Events
    BY <1>1, <1>7, CallsOfHandler DEF FinalEvent, Finishing
  <2>2. eventChan' \in Seq(Events) /\ Len(eventChan') <= BufferSize
    BY <1>7, <2>1, QueueType DEF FinalEvent
  <2> QED BY <1>2, <1>7, <2>2 DEF TypeOK, FinalEvent
<1> QED BY <1>3, <1>4, <1>5, <1>6, <1>7 DEF Handler

LEMMA TypeOthers ==
  ASSUME TypeOK,
         \/ \E u \in Updates : LookUp(u) \/ Apply(u)
         \/ \E r \in Requests : Expire(r) \/ Leave(r)
         \/ Archiver
  PROVE  TypeOK'
<1>1. ASSUME NEW u \in Updates, LookUp(u)
      PROVE  TypeOK'
  <2>1. eventChan' \in Seq(Events) /\ Len(eventChan') <= BufferSize
    BY <1>1, QueueType, EventTypes DEF TypeOK, LookUp
  <2>2. update' \in [Updates -> {"idle", "found", "kept", "sent"}]
    BY <1>1 DEF TypeOK, LookUp
  <2> QED BY <1>1, <2>1, <2>2 DEF TypeOK, LookUp
<1>2. ASSUME NEW u \in Updates, Apply(u)
      PROVE  TypeOK'
  <2>1. eventChan' \in Seq(Events) /\ Len(eventChan') <= BufferSize
    BY <1>2, QueueType, EventTypes DEF TypeOK, Apply
  <2>2. update' \in [Updates -> {"idle", "found", "kept", "sent"}]
    BY <1>2 DEF TypeOK, Apply
  <2>3. mem' \in [Requests -> Contents]
    <3>1. mem[u[1]].notes \cup {u[2]} \in SUBSET Notes
      BY EventTypes DEF TypeOK, Contents
    <3>2. [mem[u[1]] EXCEPT !.notes = @ \cup {u[2]}] \in Contents
      <4>1. mem[u[1]] \in Contents
        BY EventTypes DEF TypeOK
      <4> QED BY <3>1, <4>1 DEF Contents
    <3> QED BY <1>2, <3>2, EventTypes DEF TypeOK, Apply
  <2> QED BY <1>2, <2>1, <2>2, <2>3 DEF TypeOK, Apply
<1>3. ASSUME NEW r \in Requests, Expire(r)
      PROVE  TypeOK'
  <2>1. mem' \in [Requests -> Contents]
    <3>1. mem[r] \in Contents /\ "timeout" \in Closed
      BY DEF TypeOK, Closed
    <3>2. [mem[r] EXCEPT !.status = "timeout"] \in Contents
      BY <3>1 DEF Contents
    <3> QED BY <1>3, <3>2 DEF TypeOK, Expire
  <2> QED BY <1>3, <2>1 DEF TypeOK, Expire, Removed
<1>4. ASSUME NEW r \in Requests, Leave(r)
      PROVE  TypeOK'
  <2>1. archiveChan' \in Seq(Requests) /\ Len(archiveChan') <= BufferSize
    BY <1>4, ArchiveChanType DEF Leave
  <2> QED BY <1>4, <2>1 DEF TypeOK, Leave
<1>5. CASE Take
  <2>1. Head(archiveChan) \in Requests /\ Tail(archiveChan) \in Seq(Requests)
        /\ Len(Tail(archiveChan)) <= BufferSize
    BY <1>5, TrackingAssumption DEF TypeOK, Take
  <2>3. Append(arch.batch, Head(archiveChan)) \in Seq(Requests)
    BY <2>1 DEF TypeOK, Batches
  <2>2. arch' \in Batches
    BY <1>5, <2>3 DEF TypeOK, Take, Batches
  <2> QED BY <1>5, <2>1, <2>2 DEF TypeOK, Take
<1>6. CASE Commit
  <2>1. \A r \in Requests : [c |-> mem[r], cost |-> mem[r].tokens] \in Rows
    BY DEF TypeOK, Contents, Rows
  <2>2. row' \in [Requests -> Rows]
    BY <1>6, <2>1 DEF TypeOK, Commit
  <2>3. persisted' \in [Requests -> BOOLEAN]
    BY <1>6, Zenon DEF TypeOK, Commit, Marked
  <2>4. arch' \in Batches
    BY <1>6 DEF TypeOK, Commit, Batches
  <2> QED BY <1>6, <2>2, <2>3, <2>4 DEF TypeOK, Commit
<1>7. CASE Confirm
  BY <1>7 DEF TypeOK, Confirm, Batches
<1>8. CASE InsertFails
  <2>3. arch \in Batches /\ arch.tries + 1 \in Nat
    BY DEF TypeOK, Batches
  <2>1. [arch EXCEPT !.tries = @ + 1] \in Batches
    BY <2>3 DEF Batches
  <2>2. [batch |-> <<>>, tries |-> 0, done |-> FALSE] \in Batches
    BY DEF Batches
  <2> QED BY <1>8, <2>1, <2>2 DEF TypeOK, InsertFails
<1> QED BY <1>1, <1>2, <1>3, <1>4, <1>5, <1>6, <1>7, <1>8, Zenon DEF Archiver


LEMMA TypeProcessor ==
  ASSUME TypeOK, EventProcessor
  PROVE  TypeOK'
<1> DEFINE Modes == {"collect", "first", "drain", "last", "stopped"}
<1>1. /\ ev.batch \in Seq(Events) /\ ev.at \in Nat /\ ev.tries \in Nat /\ ev.mode \in Modes
      /\ ev.at <= Len(ev.batch) /\ Len(ev.batch) \in Nat
      /\ ev = [batch |-> ev.batch, at |-> ev.at, tries |-> ev.tries, mode |-> ev.mode]
  BY DEF TypeOK, Processors
<1>2. FlushOver(ev) \in Processors /\ FlushOver(ev).at <= Len(FlushOver(ev).batch)
  <2>1. (IF ev.mode = "first" THEN ev.batch ELSE <<>>) \in Seq(Events)
    BY <1>1
  <2>2. (CASE ev.mode = "first" -> "drain" [] ev.mode = "last" -> "stopped" [] OTHER -> ev.mode)
          \in Modes
    BY <1>1
  <2>3. FlushOver(ev) \in Processors /\ FlushOver(ev).at = 0
    BY <2>1, <2>2 DEF FlushOver, Processors
  <2>4. Len(FlushOver(ev).batch) \in Nat
    BY <2>3 DEF Processors
  <2> QED BY <2>3, <2>4
<1>3. Advanced \in Processors /\ Advanced.at <= Len(Advanced.batch)
  <2>1. CASE ev.at < Len(ev.batch)
    BY <1>1, <2>1 DEF Advanced, Processors
  <2>2. CASE ~(ev.at < Len(ev.batch))
    BY <1>2, <2>2 DEF Advanced
  <2> QED BY <2>1, <2>2
<1>4. \A e \in Events : Write(e) => row' \in [Requests -> Rows]
  <2> SUFFICES ASSUME NEW e \in Events, Write(e)
               PROVE  row' \in [Requests -> Rows]
    OBVIOUS
  <2> DEFINE q == e.req
  <2>1. q \in Requests /\ e.status \in {Open} \cup Closed /\ e.tokens \in BOOLEAN
        /\ e.note \in SUBSET Notes
    BY DEF Events
  <2>2. row[q] \in Rows /\ row[q].c \in Contents /\ row[q].cost \in BOOLEAN
        /\ row[q].c.notes \in SUBSET Notes
    BY <2>1 DEF TypeOK, Rows, Contents
  <2>3. [row[q] EXCEPT !.c.status = Open] \in Rows
    <3>1. [row[q].c EXCEPT !.status = Open] \in Contents
      BY <2>2 DEF Contents
    <3> QED BY <2>2, <3>1 DEF Rows
  <2>4. [row[q] EXCEPT !.c.notes = @ \cup e.note] \in Rows
    <3>1. row[q].c.notes \cup e.note \in SUBSET Notes
      BY <2>1, <2>2
    <3>2. [row[q].c EXCEPT !.notes = row[q].c.notes \cup e.note] \in Contents
      BY <2>2, <3>1 DEF Contents
    <3> QED BY <2>2, <3>2 DEF Rows
  <2>5. [c |-> [row[q].c EXCEPT !.tokens = TRUE], cost |-> TRUE] \in Rows
    <3>1. [row[q].c EXCEPT !.tokens = TRUE] \in Contents
      BY <2>2 DEF Contents
    <3> QED BY <3>1 DEF Rows
  <2>6. [c |-> [row[q].c EXCEPT !.status = e.status, !.tokens = e.tokens],
         cost |-> IF e.status = "completed" THEN e.tokens ELSE row[q].cost] \in Rows
    <3>1. [row[q].c EXCEPT !.status = e.status, !.tokens = e.tokens] \in Contents
      BY <2>1, <2>2 DEF Contents
    <3>2. (IF e.status = "completed" THEN e.tokens ELSE row[q].cost) \in BOOLEAN
      BY <2>1, <2>2
    <3> QED BY <3>1, <3>2 DEF Rows
  <2>7. Written(e) \in Rows
    BY <2>2, <2>3, <2>4, <2>5, <2>6 DEF Written
  <2> QED BY <2>1, <2>7 DEF Write, TypeOK
<1>5. Flushing => ev.batch[ev.at] \in Events
  BY <1>1 DEF Flushing
<1>6. CASE Receive
  <2>1. Head(eventChan) \in Events /\ Tail(eventChan) \in Seq(Events)
        /\ Len(Tail(eventChan)) <= BufferSize
    BY <1>6, TrackingAssumption DEF TypeOK, Receive
  <2> DEFINE b == Append(ev.batch, Head(eventChan))
             at == IF Len(b) >= BatchSize THEN 1 ELSE 0
  <2>2. b \in Seq(Events) /\ Len(b) = Len(ev.batch) + 1
    BY <1>1, <2>1
  <2>3. at \in Nat /\ at <= Len(b)
    BY <1>1, <2>2
  <2>4. ev' = [ev EXCEPT !.batch = b, !.at = at]
    BY <1>6 DEF Receive
  <2>5. ev' = [batch |-> b, at |-> at, tries |-> ev.tries, mode |-> ev.mode]
    BY <1>1, <2>4
  <2>6. ev' \in Processors /\ ev'.at <= Len(ev'.batch)
    BY <1>1, <2>2, <2>3, <2>5 DEF Processors
  <2> QED BY <1>6, <2>1, <2>6 DEF TypeOK, Receive
<1>7. CASE Tick
  <2>1. Len(ev.batch) >= 1
    BY <1>1, <1>7 DEF Tick
  <2> QED BY <1>1, <1>7, <2>1 DEF TypeOK, Tick, Processors
<1>8. CASE WriteEvent
  BY <1>3, <1>4, <1>5, <1>8 DEF TypeOK, WriteEvent
<1>9. CASE WriteFails
  BY <1>3, <1>9 DEF TypeOK, WriteFails
<1>10. CASE Abort
  <2>1. row' \in [Requests -> Rows]
    BY <1>4, <1>5, <1>10 DEF TypeOK, Abort
  <2>2. [ev EXCEPT !.at = 1, !.tries = @ + 1] \in Processors /\ 1 <= Len(ev.batch)
    <3>1. 1 <= Len(ev.batch)
      BY <1>1, <1>10 DEF Abort, Flushing
    <3>2. \A n \in Nat : [ev EXCEPT !.at = 1, !.tries = n] \in Processors
      BY DEF TypeOK, Processors
    <3>3. ev.tries + 1 \in Nat
      BY <1>1
    <3> QED BY <3>1, <3>2, <3>3
  <2>3. ev' \in Processors /\ ev'.at <= Len(ev'.batch)
    BY <1>1, <1>2, <1>10, <2>2 DEF Abort
  <2> QED BY <1>10, <2>1, <2>3 DEF TypeOK, Abort
<1>11. CASE SeeCancelled
  <2>1. ev.batch # <<>> => Len(ev.batch) >= 1
    BY <1>1
  <2> QED BY <1>1, <1>11, <2>1 DEF TypeOK, SeeCancelled, Processors
<1>12. CASE LastFlush
  <2>1. ev.batch # <<>> => Len(ev.batch) >= 1
    BY <1>1
  <2> QED BY <1>1, <1>12, <2>1 DEF TypeOK, LastFlush, Processors
<1> QED BY <1>6, <1>7, <1>8, <1>9, <1>10, <1>11, <1>12 DEF EventProcessor

LEMMA TypeClose ==
  ASSUME TypeOK, Close
  PROVE  TypeOK'
<1>1. CASE Cancel
  BY <1>1 DEF TypeOK, Cancel, Phases
<1>2. CASE ClosePool
  <2>1. \A r \in Requests : [mem[r] EXCEPT !.status = "cancelled"] \in Contents
    <3>1. "cancelled" \in Closed /\ \A r \in Requests : mem[r] \in Contents
      BY DEF TypeOK, Closed
    <3>2. \A c \in Contents : [c EXCEPT !.status = "cancelled"] \in Contents
      BY <3>1 DEF Contents
    <3> QED BY <3>1, <3>2
  <2>2. mem' \in [Requests -> Contents]
    BY <1>2, <2>1 DEF TypeOK, ClosePool
  <2> QED BY <1>2, <2>2 DEF TypeOK, ClosePool, Phases, Active
<1>3. CASE CloseArchive
  BY <1>3 DEF TypeOK, CloseArchive, Phases
<1>4. CASE Closes
  BY <1>4 DEF TypeOK, Closes, Phases
<1> QED BY <1>1, <1>2, <1>3, <1>4 DEF Close

LEMMA TypeStep == TypeOK /\ [Next]_vars => TypeOK'
<1>1. ASSUME TypeOK, UNCHANGED vars
      PROVE  TypeOK'
  BY <1>1 DEF TypeOK, vars
<1> QED BY <1>1, TypeHandler, TypeOthers, TypeProcessor, TypeClose, Zenon DEF Next

\* Every variable keeps its type, the channels keep their capacity, and a flush
\* never runs past the end of its batch.
THEOREM TypeCorrect == Spec => []TypeOK
BY TypeInit, TypeStep, PTL DEF Spec

-----------------------------------------------------------------------------
(* The hand-over to the database.                                           *)

InChan(r) == \E i \in 1..Len(archiveChan) : archiveChan[i] = r
Archived(r) == r \in leaving \/ InChan(r) \/ InBatch(r)

\* What is known of a request in the pool and on its way out of it.
RecordOK(r) ==
  /\ place[r] # "none" => Started(r)
  /\ place[r] = "active" => mem[r].status = Open
  /\ persisted[r] => HasRow(r)
  /\ Archived(r) => Started(r) /\ mem[r].status \in Closed
  /\ arch.done /\ InBatch(r) => persisted[r]
  /\ QueueUp /\ place[r] = "out" /\ mem[r].status # "timeout" => persisted[r]

UpdateOK(u) ==
  /\ update[u] # "idle" => Started(u[1])
  /\ update[u] = "kept" /\ ~persisted[u[1]] => u[2] \in mem[u[1]].notes
  /\ update[u] = "kept" /\ persisted[u[1]] => u[2] \in row[u[1]].c.notes

Sent(e) == \/ \E i \in 1..Len(eventChan) : eventChan[i] = e
           \/ \E i \in 1..Len(ev.batch) : ev.batch[i] = e

\* An update that was sent although its request is in the pool's books comes
\* after the insert of the row.
NoteOK(e) ==
  e.op = "note" => /\ Started(e.req)
                   /\ place[e.req] # "none" /\ mem[e.req].status # "timeout" => HasRow(e.req)

HandOver ==
  /\ TypeOK
  /\ \A r \in Requests : RecordOK(r)
  /\ \A u \in Updates : UpdateOK(u)
  /\ \A e \in Events : Sent(e) => NoteOK(e)

\* The processor's statements keep a row and its notes.
LEMMA WrittenKeeps ==
  ASSUME TypeOK, NEW e \in Events, Write(e), NEW r \in Requests
  PROVE  /\ HasRow(r) => HasRow(r)'
         /\ row[r].c.notes \subseteq row'[r].c.notes
<1> DEFINE q == e.req
<1>1. q \in Requests /\ e.status \in {Open} \cup Closed /\ "none" \notin {Open} \cup Closed
  BY DEF Events, Open, Closed
<1>2. row'[r] = IF r = q THEN Written(e) ELSE row[r]
  BY <1>1 DEF Write, TypeOK
<1>3. row[q] \in Rows /\ row[q].c \in Contents
  BY <1>1 DEF TypeOK, Rows
<1>4. (HasRow(q) => Written(e).c.status # "none") /\ row[q].c.notes \subseteq Written(e).c.notes
  <2>1. CASE e.op = "start"
    BY <1>1, <1>3, <2>1 DEF Written, Rows, Contents
  <2>2. CASE e.op = "note" /\ HasRow(q)
    <3>1. Written(e) = [row[q] EXCEPT !.c.notes = row[q].c.notes \cup e.note]
      BY <2>2 DEF Written
    <3> QED BY <1>3, <2>2, <3>1 DEF Rows, Contents, HasRow
  <2>3. CASE e.op = "tokens" /\ HasRow(q)
    <3>1. Written(e) = [c |-> [row[q].c EXCEPT !.tokens = TRUE], cost |-> TRUE]
      BY <2>3 DEF Written
    <3> QED BY <1>3, <2>3, <3>1 DEF Contents, HasRow
  <2>4. CASE e.op = "final" /\ HasRow(q)
    <3>1. Written(e).c = [row[q].c EXCEPT !.status = e.status, !.tokens = e.tokens]
      BY <2>4 DEF Written
    <3> QED BY <1>1, <1>3, <2>4, <3>1 DEF Contents
  <2>5. CASE ~HasRow(q) /\ e.op # "start"
    BY <2>5 DEF Written
  <2> QED BY <2>1, <2>2, <2>3, <2>4, <2>5 DEF Events
<1> QED BY <1>2, <1>4 DEF HasRow

\* What no step takes back.
Stays(r) ==
  /\ Started(r) => Started(r)'
  /\ HasRow(r) => HasRow(r)'
  /\ row[r].c.notes \subseteq row'[r].c.notes \/ (Commit /\ InBatch(r))
  /\ Started(r) /\ place[r] = "none" => place'[r] = "none"
  /\ Started(r) /\ mem[r].status = "timeout" => mem'[r].status = "timeout"

LEMMA StaysHandler ==
  ASSUME HandOver, NEW q \in Requests, Handler(q), NEW r \in Requests
  PROVE  Stays(r)
<1> USE DEF HandOver
<1>1. ASSUME NEW o \in Outcomes, Start(q, o)
      PROVE  Stays(r)
  <2>1. o # "none"
    BY TrackingAssumption
  <2> QED BY <1>1, <2>1 DEF Start, Stays, Started, HasRow, TypeOK
<1>2. Called(q) => (Started(r) => Started(r)')
  BY DEF Called, Started, TypeOK
<1>3. CASE RecordTokens(q)
  <2>1. mem'[r].status = mem[r].status
    <3>1. mem[q] \in Contents
      BY DEF TypeOK
    <3>2. [mem[q] EXCEPT !.tokens = TRUE].status = mem[q].status
      BY <3>1 DEF Contents
    <3> QED BY <1>3, <3>2 DEF RecordTokens, TypeOK
  <2> QED BY <1>2, <1>3, <2>1 DEF RecordTokens, Stays, HasRow
<1>4. CASE Move(q)
  BY <1>4 DEF Move, Stays, Started, HasRow, TypeOK
<1>5. CASE Finalize(q)
  <2>1. mem[q].status # "timeout"
    BY <1>5 DEF Finalize, InFinalizer, Open
  <2> QED BY <1>2, <1>5, <2>1 DEF Finalize, Stays, HasRow, TypeOK
<1>6. CASE FinalEvent(q)
  BY <1>2, <1>6 DEF FinalEvent, Stays, HasRow, TypeOK
<1> QED BY <1>1, <1>3, <1>4, <1>5, <1>6 DEF Handler

LEMMA StaysOthers ==
  ASSUME HandOver, NEW r \in Requests,
         \/ \E u \in Updates : LookUp(u) \/ Apply(u)
         \/ \E q \in Requests : Expire(q) \/ Leave(q)
         \/ Archiver
  PROVE  Stays(r)
<1> USE DEF HandOver
<1>1. ASSUME NEW u \in Updates, LookUp(u)
      PROVE  Stays(r)
  BY <1>1 DEF LookUp, Stays, Started, HasRow
<1>2. ASSUME NEW u \in Updates, Apply(u)
      PROVE  Stays(r)
  <2>1. mem'[r].status = mem[r].status
    <3>1. u[1] \in Requests /\ mem[u[1]] \in Contents
      BY EventTypes DEF TypeOK
    <3> DEFINE c == [mem[u[1]] EXCEPT !.notes = mem[u[1]].notes \cup {u[2]}]
    <3>2. c.status = mem[u[1]].status
      BY <3>1 DEF Contents
    <3>3. UNCHANGED mem \/ mem' = [mem EXCEPT ![u[1]] = c]
      BY <1>2 DEF Apply
    <3> HIDE DEF c
    <3> QED BY <3>2, <3>3 DEF TypeOK
  <2> QED BY <1>2, <2>1 DEF Apply, Stays, Started, HasRow
<1>3. ASSUME NEW q \in Requests, Expire(q)
      PROVE  Stays(r)
  BY <1>3 DEF Expire, Removed, Stays, Started, HasRow, TypeOK, Contents
<1>4. ASSUME NEW q \in Requests, Leave(q)
      PROVE  Stays(r)
  BY <1>4 DEF Leave, Stays, Started, HasRow
<1>5. CASE Take
  BY <1>5 DEF Take, Stays, Started, HasRow
<1>6. CASE Commit
  <2>1. CASE InBatch(r)
    <3>1. mem[r].status # "none"
      BY <2>1 DEF RecordOK, Archived, Closed
    <3> QED BY <1>6, <2>1, <3>1 DEF Commit, Stays, Started, HasRow
  <2>2. CASE ~InBatch(r)
    BY <1>6, <2>2 DEF Commit, Stays, Started, HasRow
  <2> QED BY <2>1, <2>2
<1>7. CASE Confirm
  BY <1>7 DEF Confirm, Stays, Started, HasRow
<1>8. CASE InsertFails
  BY <1>8 DEF InsertFails, Stays, Started, HasRow
<1> QED BY <1>1, <1>2, <1>3, <1>4, <1>5, <1>6, <1>7, <1>8, Zenon DEF Archiver

LEMMA StaysProcessor ==
  ASSUME HandOver, NEW r \in Requests, EventProcessor
  PROVE  Stays(r)
<1>1. TypeOK /\ (ev.at > 0 => ev.batch[ev.at] \in Events)
  BY DEF HandOver, TypeOK, Processors
<1>2. UNCHANGED <<handler, place, mem>>
  BY DEF EventProcessor, Receive, Tick, WriteEvent, WriteFails, Abort, SeeCancelled, LastFlush
<1>3. UNCHANGED row \/ (ev.at > 0 /\ Write(ev.batch[ev.at]))
  BY DEF EventProcessor, Receive, Tick, WriteEvent, WriteFails, Abort, SeeCancelled, LastFlush,
         Flushing
<1>4. (HasRow(r) => HasRow(r)') /\ row[r].c.notes \subseteq row'[r].c.notes
  <2>1. CASE UNCHANGED row
    BY <2>1 DEF HasRow
  <2>2. CASE ev.at > 0 /\ Write(ev.batch[ev.at])
    BY <1>1, <2>2, WrittenKeeps
  <2> QED BY <1>3, <2>1, <2>2
<1> QED BY <1>2, <1>4 DEF Stays, Started

LEMMA StaysClose ==
  ASSUME HandOver, NEW r \in Requests, Close
  PROVE  Stays(r)
<1> USE DEF HandOver
<1>1. CASE ClosePool
  <2>1. place[r] = "active" => mem[r].status = Open
    BY DEF RecordOK
  <2> QED BY <1>1, <2>1 DEF ClosePool, Stays, Started, HasRow, TypeOK, Open
<1>2. CASE Cancel \/ CloseArchive \/ Closes
  BY <1>2 DEF Cancel, CloseArchive, Closes, Stays, Started, HasRow
<1> QED BY <1>1, <1>2 DEF Close

LEMMA NextStays == HandOver /\ Next => \A r \in Requests : Stays(r)
BY StaysHandler, StaysOthers, StaysProcessor, StaysClose, Zenon DEF Next

LEMMA HandOverInit == Init => HandOver
<1> SUFFICES ASSUME Init
             PROVE  HandOver
  OBVIOUS
<1>1. TypeOK
  BY TypeInit
<1>2. \A r \in Requests : RecordOK(r)
  BY DEF Init, RecordOK, Archived, InChan, InBatch
<1>3. \A u \in Updates : UpdateOK(u)
  BY DEF Init, UpdateOK
<1>4. \A e \in Events : ~Sent(e)
  BY DEF Init, Sent
<1> QED BY <1>1, <1>2, <1>3, <1>4 DEF HandOver

LEMMA RecordHandler ==
  ASSUME HandOver, NEW q \in Requests, Handler(q), NEW r \in Requests
  PROVE  RecordOK(r)'
<1> USE DEF HandOver
<1>0. Stays(r) /\ RecordOK(r) /\ RecordOK(q)
  BY StaysHandler
<1>1. ASSUME NEW o \in Outcomes, Start(q, o)
      PROVE  RecordOK(r)'
  <2>1. CASE r = q
    <3>1. o # "none"
      BY TrackingAssumption
    <3>2. Started(q)' /\ place[q] = "none" /\ ~Archived(q)
      BY <1>0, <1>1, <3>1 DEF RecordOK, Start, Started, TypeOK
    <3>3. ~Archived(q)'
      BY <1>1, <3>2 DEF Start, Archived, InChan, InBatch
    <3>4. place'[q] = "none" \/ (place'[q] = "active" /\ mem'[q].status = Open)
      BY <1>1, <3>2, FreshType DEF Start, TypeOK
    <3>5. persisted'[q] => HasRow(q)'
      BY <1>0, <1>1, <2>1 DEF RecordOK, Start, Stays
    <3>6. ~InBatch(q)'
      BY <3>3 DEF Archived
    <3> QED BY <2>1, <3>2, <3>3, <3>4, <3>5, <3>6 DEF RecordOK
  <2>2. CASE r # q
    <3>1. place'[r] = place[r] /\ mem'[r] = mem[r]
      BY <1>1, <2>2 DEF Start, TypeOK
    <3> QED BY <1>0, <1>1, <3>1 DEF Start, RecordOK, Archived, InChan, InBatch, QueueUp, Stays
  <2> QED BY <2>1, <2>2
<1>2. CASE RecordTokens(q)
  <2>1. mem'[r].status = mem[r].status
    <3>1. mem[q] \in Contents
      BY DEF TypeOK
    <3>2. [mem[q] EXCEPT !.tokens = TRUE].status = mem[q].status
      BY <3>1 DEF Contents
    <3> QED BY <1>2, <3>2 DEF RecordTokens, TypeOK
  <2> QED BY <1>0, <1>2, <2>1
      DEF RecordTokens, RecordOK, Archived, InChan, InBatch, QueueUp, Stays
<1>3. CASE Move(q)
  <2>1. place'[r] = IF r = q THEN "archiving" ELSE place[r]
    BY <1>3 DEF Move, TypeOK
  <2> QED BY <1>0, <1>3, <2>1 DEF Move, RecordOK, Archived, InChan, InBatch, QueueUp, Stays, Started
<1>4. CASE Finalize(q)
  <2>1. Started(q) /\ NextCall(q).status \in Closed
    BY <1>4, CallsOfHandler DEF Finalize, Finishing, TypeOK
  <2>2. mem'[r] = IF r = q THEN Finalized(q) ELSE mem[r]
    BY <1>4 DEF Finalize, TypeOK
  <2>3. r = q => mem'[r].status \in Closed /\ place'[r] = "archiving"
    BY <1>4, <2>1, <2>2 DEF Finalize, InFinalizer, Finalized
  <2>4. InChan(r)' => InChan(r) \/ r = q
    BY <1>4 DEF Finalize, SendToArchive, InChan, TypeOK
  <2> QED BY <1>0, <1>4, <2>1, <2>2, <2>3, <2>4
      DEF Finalize, RecordOK, Archived, InBatch, QueueUp, Stays
<1>5. CASE FinalEvent(q)
  BY <1>0, <1>5 DEF FinalEvent, RecordOK, Archived, InChan, InBatch, QueueUp, Stays
<1> QED BY <1>1, <1>2, <1>3, <1>4, <1>5 DEF Handler

\* On its way to the archiver a request is not forgotten or invented.
LEMMA ArchivedMoves ==
  ASSUME TypeOK, NEW r \in Requests, Take \/ \E q \in Requests : Leave(q), Archived(r)'
  PROVE  Archived(r)
<1>1. ASSUME NEW q \in Requests, Leave(q)
      PROVE  Archived(r)
  <2>1. InChan(r)' => InChan(r) \/ r \in leaving
    BY <1>1 DEF Leave, SendToArchive, InChan, TypeOK
  <2> QED BY <1>1, <2>1 DEF Leave, Archived, InBatch
<1>2. CASE Take
  <2>1. InChan(r)' => InChan(r)
    <3>1. Len(archiveChan) \in Nat /\ Len(archiveChan) > 0
      BY <1>2 DEF Take, TypeOK
    <3>2. \A i \in 1..Len(archiveChan') : i + 1 \in 1..Len(archiveChan)
                                        /\ archiveChan'[i] = archiveChan[i + 1]
      BY <1>2, <3>1 DEF Take, TypeOK
    <3> QED BY <3>2 DEF InChan
  <2>2. InBatch(r)' => InBatch(r) \/ InChan(r)
    <3>1. Head(archiveChan) = archiveChan[1] /\ 1 \in 1..Len(archiveChan)
      BY <1>2 DEF Take, TypeOK
    <3>2. arch.batch \in Seq(Requests) /\ arch'.batch = Append(arch.batch, archiveChan[1])
      BY <1>2, <3>1 DEF Take, TypeOK, Batches
    <3> QED BY <3>1, <3>2 DEF InBatch, InChan
  <2> QED BY <1>2, <2>1, <2>2 DEF Take, Archived
<1> QED BY <1>1, <1>2

LEMMA RecordOthers ==
  ASSUME HandOver, NEW r \in Requests,
         \/ \E u \in Updates : LookUp(u) \/ Apply(u)
         \/ \E q \in Requests : Expire(q) \/ Leave(q)
         \/ Archiver
  PROVE  RecordOK(r)'
<1> USE DEF HandOver
<1>0. Stays(r) /\ RecordOK(r)
  BY StaysOthers
<1>1. ASSUME NEW u \in Updates, LookUp(u)
      PROVE  RecordOK(r)'
  BY <1>0, <1>1 DEF LookUp, RecordOK, Archived, InChan, InBatch, QueueUp, Stays
<1>2. ASSUME NEW u \in Updates, Apply(u)
      PROVE  RecordOK(r)'
  <2>1. mem'[r].status = mem[r].status
    <3>1. u[1] \in Requests /\ mem[u[1]] \in Contents
      BY EventTypes DEF TypeOK
    <3> DEFINE c == [mem[u[1]] EXCEPT !.notes = mem[u[1]].notes \cup {u[2]}]
    <3>2. c.status = mem[u[1]].status
      BY <3>1 DEF Contents
    <3>3. UNCHANGED mem \/ mem' = [mem EXCEPT ![u[1]] = c]
      BY <1>2 DEF Apply
    <3> HIDE DEF c
    <3> QED BY <3>2, <3>3 DEF TypeOK
  <2> QED BY <1>0, <1>2, <2>1 DEF Apply, RecordOK, Archived, InChan, InBatch, QueueUp, Stays
<1>3. ASSUME NEW q \in Requests, Expire(q)
      PROVE  RecordOK(r)'
  <2>1. CASE r = q
    <3>1. place'[q] = "out" /\ mem'[q].status = "timeout" /\ Started(q)
      BY <1>0, <1>3, <2>1 DEF Expire, Removed, TypeOK, Contents, RecordOK
    <3> QED BY <1>0, <1>3, <2>1, <3>1 DEF Expire, RecordOK, Stays, InBatch, Closed
  <2>2. CASE r # q
    <3>1. place'[r] = place[r] /\ mem'[r] = mem[r] /\ (r \in leaving' => r \in leaving)
      BY <1>3, <2>2 DEF Expire, Removed, TypeOK
    <3> QED BY <1>0, <1>3, <3>1 DEF Expire, RecordOK, Archived, InChan, InBatch, QueueUp, Stays
  <2> QED BY <2>1, <2>2
<1>4. ASSUME NEW q \in Requests, Leave(q)
      PROVE  RecordOK(r)'
  BY <1>0, <1>4, ArchivedMoves DEF Leave, RecordOK, InBatch, QueueUp, Stays
<1>5. CASE Take
  <2>1. ~arch'.done
    BY <1>5 DEF Take, TypeOK, Batches
  <2> QED BY <1>0, <1>5, <2>1, ArchivedMoves DEF Take, RecordOK, QueueUp, Stays
<1>6. CASE Commit
  <2>1. persisted'[r] = (persisted[r] \/ InBatch(r))
    BY <1>6 DEF Commit, Marked
  <2>2. InBatch(r)' <=> InBatch(r)
    BY <1>6 DEF Commit, InBatch, TypeOK, Batches
  <2>3. InBatch(r) => HasRow(r)'
    BY <1>0, <1>6 DEF Commit, HasRow, RecordOK, Archived, Closed
  <2> QED BY <1>0, <1>6, <2>1, <2>2, <2>3 DEF Commit, RecordOK, Archived, InChan, QueueUp, Stays
<1>7. CASE Confirm
  <2>1. ~InBatch(r)' /\ (Archived(r)' => Archived(r))
    BY <1>7 DEF Confirm, InBatch, Archived, InChan
  <2>2. place'[r] = place[r] \/ (place[r] = "archiving" /\ place'[r] = "out" /\ persisted[r])
    BY <1>0, <1>7 DEF Confirm, RecordOK
  <2> QED BY <1>0, <1>7, <2>1, <2>2 DEF Confirm, RecordOK, QueueUp, Stays
<1>8. CASE InsertFails
  <2>1. ~arch'.done /\ (arch'.batch = arch.batch \/ arch'.batch = <<>>)
    BY <1>8 DEF InsertFails, TypeOK, Batches
  <2>2. Archived(r)' => Archived(r)
    BY <1>8, <2>1 DEF InsertFails, InBatch, Archived, InChan
  <2> QED BY <1>0, <1>8, <2>1, <2>2 DEF InsertFails, RecordOK, QueueUp, Stays
<1> QED BY <1>1, <1>2, <1>3, <1>4, <1>5, <1>6, <1>7, <1>8, Zenon DEF Archiver

LEMMA RecordProcessor ==
  ASSUME HandOver, NEW r \in Requests, EventProcessor
  PROVE  RecordOK(r)'
<1>1. Stays(r) /\ RecordOK(r)
  BY StaysProcessor DEF HandOver
<1>2. UNCHANGED <<phase, handler, place, mem, persisted, leaving, archiveChan, arch>>
  BY DEF EventProcessor, Receive, Tick, WriteEvent, WriteFails, Abort, SeeCancelled, LastFlush
<1> QED BY <1>1, <1>2 DEF RecordOK, Archived, InChan, InBatch, QueueUp, Stays

LEMMA RecordClose ==
  ASSUME HandOver, NEW r \in Requests, Close
  PROVE  RecordOK(r)'
<1> USE DEF HandOver
<1>0. Stays(r) /\ RecordOK(r)
  BY StaysClose
<1>1. CASE Cancel
  BY <1>0, <1>1 DEF Cancel, RecordOK, Archived, InChan, InBatch, QueueUp, Stays
<1>2. CASE ClosePool
  <2>1. ~QueueUp' /\ (InBatch(r)' <=> InBatch(r)) /\ (InChan(r)' <=> InChan(r))
    BY <1>2 DEF ClosePool, QueueUp, InBatch, InChan
  <2>2. CASE place[r] = "active"
    <3>1. place'[r] = "out" /\ mem'[r].status = "cancelled" /\ Started(r)
      BY <1>0, <1>2, <2>2 DEF ClosePool, TypeOK, Contents, RecordOK
    <3> QED BY <1>0, <1>2, <2>1, <3>1 DEF ClosePool, RecordOK, Stays, Archived, Closed
  <2>3. CASE place[r] # "active"
    BY <1>0, <1>2, <2>1, <2>3 DEF ClosePool, RecordOK, Stays, Archived, Active
  <2> QED BY <2>2, <2>3
<1>3. CASE CloseArchive
  BY <1>0, <1>3 DEF CloseArchive, RecordOK, Archived, InChan, InBatch, QueueUp, Stays
<1>4. CASE Closes
  BY <1>0, <1>4 DEF Closes, RecordOK, Archived, InChan, InBatch, QueueUp, Stays
<1> QED BY <1>1, <1>2, <1>3, <1>4 DEF Close

LEMMA RecordStep == HandOver /\ Next => \A r \in Requests : RecordOK(r)'
BY RecordHandler, RecordOthers, RecordProcessor, RecordClose, Zenon DEF Next

\* Only Start touches the notes in memory other than by adding to them.
LEMMA NotesKept ==
  ASSUME HandOver, Next, NEW r \in Requests, Started(r)
  PROVE  mem[r].notes \subseteq mem'[r].notes
<1> USE DEF HandOver
<1>1. mem[r] \in Contents
  BY DEF TypeOK
<1>2. ASSUME NEW q \in Requests, Handler(q)
      PROVE  mem[r].notes \subseteq mem'[r].notes
  <2>1. ASSUME NEW o \in Outcomes, Start(q, o)
        PROVE  mem'[r] = mem[r]
    BY <2>1 DEF Start, TypeOK
  <2>2. CASE RecordTokens(q)
    <3>1. [mem[r] EXCEPT !.tokens = TRUE].notes = mem[r].notes
      BY <1>1 DEF Contents
    <3>2. mem' = mem \/ mem' = [mem EXCEPT ![q].tokens = TRUE]
      BY <2>2 DEF RecordTokens
    <3>3. DOMAIN mem = Requests
      BY DEF TypeOK
    <3> QED BY <3>1, <3>2, <3>3
  <2>3. CASE Finalize(q)
    BY <2>3 DEF Finalize, Finalized, TypeOK
  <2>4. CASE Move(q) \/ FinalEvent(q)
    BY <2>4 DEF Move, FinalEvent
  <2> QED BY <1>2, <2>1, <2>2, <2>3, <2>4 DEF Handler
<1>3. ASSUME NEW u \in Updates, Apply(u)
      PROVE  mem[r].notes \subseteq mem'[r].notes
  <2> DEFINE c == [mem[u[1]] EXCEPT !.notes = mem[u[1]].notes \cup {u[2]}]
  <2>1. u[1] \in Requests /\ mem[u[1]] \in Contents
    BY EventTypes DEF TypeOK
  <2>2. mem[u[1]].notes \subseteq c.notes
    BY <2>1 DEF Contents
  <2>3. UNCHANGED mem \/ mem' = [mem EXCEPT ![u[1]] = c]
    BY <1>3 DEF Apply
  <2> HIDE DEF c
  <2> QED BY <2>1, <2>2, <2>3 DEF TypeOK
<1>4. ASSUME NEW q \in Requests, Expire(q)
      PROVE  mem[r].notes \subseteq mem'[r].notes
  <2>1. [mem[r] EXCEPT !.status = "timeout"].notes = mem[r].notes
    BY <1>1 DEF Contents
  <2> QED BY <1>4, <2>1 DEF Expire, TypeOK
<1>5. CASE ClosePool
  <2>1. [mem[r] EXCEPT !.status = "cancelled"].notes = mem[r].notes
    BY <1>1 DEF Contents
  <2> QED BY <1>5, <2>1 DEF ClosePool, TypeOK
<1>6. CASE \/ Archiver \/ EventProcessor \/ Cancel \/ CloseArchive \/ Closes
           \/ (\E q \in Requests : Leave(q)) \/ (\E u \in Updates : LookUp(u))
  <2>1. UNCHANGED mem
    BY <1>6 DEF Archiver, Take, Commit, Confirm, InsertFails, EventProcessor, Receive, Tick,
                WriteEvent, WriteFails, Abort, SeeCancelled, LastFlush, Cancel, CloseArchive,
                Closes, Leave, LookUp
  <2> QED BY <2>1
<1> QED BY <1>2, <1>3, <1>4, <1>5, <1>6, Zenon DEF Next, Close

LEMMA UpdateStep ==
  ASSUME HandOver, Next, NEW u \in Updates
  PROVE  UpdateOK(u)'
<1> USE DEF HandOver
<1> DEFINE r == u[1]
<1>1. r \in Requests /\ UpdateOK(u) /\ Stays(r)
  BY NextStays, EventTypes
<1>2. Started(r) => mem[r].notes \subseteq mem'[r].notes
  BY <1>1, NotesKept
<1>3. CASE LookUp(u) \/ Apply(u)
  <2>1. CASE LookUp(u)
    <3>1. update'[u] \in {"found", "sent"} /\ Started(r)
      BY <2>1 DEF LookUp, TypeOK
    <3> QED BY <1>1, <3>1 DEF UpdateOK, Stays
  <2>2. CASE Apply(u)
    <3>1. Started(r)
      BY <1>1, <2>2 DEF UpdateOK, Apply
    <3>2. CASE persisted[r]
      <4>1. update'[u] = "sent"
        BY <2>2, <3>2 DEF Apply, MayWrite, TypeOK
      <4> QED BY <1>1, <3>1, <4>1 DEF UpdateOK, Stays
    <3>3. CASE ~persisted[r]
      <4>1. mem[r] \in Contents
        BY <1>1 DEF TypeOK
      <4> DEFINE c == [mem[r] EXCEPT !.notes = mem[r].notes \cup {u[2]}]
      <4>2. u[2] \in c.notes
        BY <4>1 DEF Contents
      <4>3. mem' = [mem EXCEPT ![r] = c] /\ ~persisted'[r]
        BY <2>2, <3>3 DEF Apply, MayWrite
      <4> HIDE DEF c
      <4>4. u[2] \in mem'[r].notes
        BY <1>1, <4>2, <4>3 DEF TypeOK
      <4> QED BY <1>1, <3>1, <4>3, <4>4 DEF UpdateOK, Stays
    <3> QED BY <3>2, <3>3
  <2> QED BY <1>3, <2>1, <2>2
<1>4. CASE ~(LookUp(u) \/ Apply(u))
  <2>1. update'[u] = update[u]
    <3>1. ASSUME NEW v \in Updates, LookUp(v) \/ Apply(v)
          PROVE  update'[u] = update[u]
      BY <1>4, <3>1 DEF LookUp, Apply, TypeOK
    <3>2. ASSUME \/ Archiver \/ EventProcessor \/ Close
                 \/ \E q \in Requests : Handler(q) \/ Expire(q) \/ Leave(q)
          PROVE  UNCHANGED update
      BY <3>2 DEF Archiver, Take, Commit, Confirm, InsertFails, EventProcessor, Receive, Tick,
                  WriteEvent, WriteFails, Abort, SeeCancelled, LastFlush, Close, Cancel, ClosePool,
                  CloseArchive, Closes, Leave, Expire, Handler, Start, RecordTokens, Move,
                  Finalize, FinalEvent
    <3> QED BY <3>1, <3>2, Zenon DEF Next
  <2>2. CASE Commit
    <3>1. InBatch(r) => row'[r].c.notes = mem[r].notes /\ ~HasRow(r)
      BY <1>1, <2>2 DEF Commit
    <3>2. persisted[r] => HasRow(r)
      BY <1>1 DEF RecordOK
    <3>3. ~InBatch(r) => row'[r] = row[r] /\ (persisted'[r] <=> persisted[r])
      BY <1>1, <2>2 DEF Commit, Marked
    <3>4. mem'[r] = mem[r]
      BY <2>2 DEF Commit
    <3> QED BY <1>1, <2>1, <3>1, <3>2, <3>3, <3>4 DEF UpdateOK, Stays
  <2>3. CASE ~Commit
    <3>1. persisted'[r] = persisted[r]
      BY <2>3 DEF Next, Archiver, Take, Confirm, InsertFails, EventProcessor, Receive, Tick,
                  WriteEvent, WriteFails, Abort, SeeCancelled, LastFlush, Close, Cancel, ClosePool,
                  CloseArchive, Closes, Leave, Expire, Handler, Start, RecordTokens, Move,
                  Finalize, FinalEvent, LookUp, Apply
    <3> QED BY <1>1, <1>2, <2>1, <2>3, <3>1 DEF UpdateOK, Stays
  <2> QED BY <2>2, <2>3
<1> QED BY <1>3, <1>4

\* Where the events come from.
LEMMA SentByQueue ==
  ASSUME TypeOK, NEW x \in Events, Queue(x), UNCHANGED ev, NEW e \in Events, Sent(e)'
  PROVE  Sent(e) \/ (e = x /\ QueueUp)
<1>1. CASE UNCHANGED eventChan
  BY <1>1 DEF Sent
<1>2. CASE QueueUp /\ eventChan' = Append(eventChan, x)
  <2>1. eventChan \in Seq(Events)
    BY DEF TypeOK
  <2>2. \A i \in 1..Len(eventChan') :
          (i \in 1..Len(eventChan) /\ eventChan'[i] = eventChan[i]) \/ eventChan'[i] = x
    BY <1>2, <2>1
  <2> QED BY <1>2, <2>2 DEF Sent
<1> QED BY <1>1, <1>2 DEF Queue

LEMMA SentByProcessor ==
  ASSUME TypeOK, EventProcessor, NEW e \in Events, Sent(e)'
  PROVE  Sent(e)
<1>1. ev \in Processors /\ ev.batch \in Seq(Events) /\ eventChan \in Seq(Events)
  BY DEF TypeOK, Processors
<1>2. CASE Receive
  <2> DEFINE b == Append(ev.batch, Head(eventChan))
  <2>1. ev'.batch = b /\ eventChan' = Tail(eventChan) /\ eventChan # <<>>
    BY <1>1, <1>2 DEF Receive, Processors
  <2>2. Head(eventChan) = eventChan[1] /\ 1 \in 1..Len(eventChan)
    BY <1>1, <2>1
  <2>3. \A i \in 1..Len(b) : (i \in 1..Len(ev.batch) /\ b[i] = ev.batch[i]) \/ b[i] = eventChan[1]
    BY <1>1, <2>2
  <2>4. \A i \in 1..Len(eventChan') : i + 1 \in 1..Len(eventChan) /\ eventChan'[i] = eventChan[i + 1]
    BY <1>1, <2>1
  <2> HIDE DEF b
  <2> QED BY <2>1, <2>2, <2>3, <2>4 DEF Sent
<1>3. CASE ~Receive
  <2>1. UNCHANGED eventChan
    BY <1>3 DEF EventProcessor, Tick, WriteEvent, WriteFails, Abort, SeeCancelled, LastFlush
  <2>2. FlushOver(ev).batch \in {ev.batch, <<>>}
    BY DEF FlushOver
  <2>3. Advanced.batch \in {ev.batch, <<>>}
    BY <1>1, <2>2 DEF Advanced, Processors
  <2>4. (ev' = Advanced \/ ev' = FlushOver(ev)) => ev'.batch \in {ev.batch, <<>>}
    BY <2>2, <2>3
  <2>5. CASE WriteEvent \/ WriteFails
    <3>1. ev' = Advanced
      BY <2>5 DEF WriteEvent, WriteFails
    <3> QED BY <2>1, <2>4, <3>1 DEF Sent
  <2>6. CASE Abort
    <3>1. [ev EXCEPT !.at = 1, !.tries = ev.tries + 1].batch = ev.batch
      BY <1>1 DEF Processors
    <3>2. ev'.batch \in {ev.batch, <<>>}
      BY <2>4, <2>6, <3>1 DEF Abort
    <3> QED BY <2>1, <3>2 DEF Sent
  <2>7. CASE Tick \/ SeeCancelled \/ LastFlush
    <3>1. ev'.batch = ev.batch
      BY <1>1, <2>7 DEF Tick, SeeCancelled, LastFlush, Processors
    <3> QED BY <2>1, <3>1 DEF Sent
  <2> QED BY <1>3, <2>5, <2>6, <2>7 DEF EventProcessor
<1> QED BY <1>2, <1>3

LEMMA NoteStep ==
  ASSUME HandOver, Next, NEW e \in Events, Sent(e)'
  PROVE  NoteOK(e)'
<1> USE DEF HandOver
<1>1. e.req \in Requests
  BY DEF Events
<1>2. Stays(e.req) /\ RecordOK(e.req) /\ RecordOK(e.req)'
  BY <1>1, NextStays, RecordStep
<1>3. Sent(e) => NoteOK(e)'
  <2> SUFFICES ASSUME Sent(e), e.op = "note"
               PROVE  Started(e.req)' /\ (place'[e.req] # "none" /\ mem'[e.req].status # "timeout"
                                          => HasRow(e.req)')
    BY DEF NoteOK
  <2>1. NoteOK(e)
    OBVIOUS
  <2> QED BY <1>2, <2>1 DEF NoteOK, Stays
<1>4. ASSUME e.op # "note"
      PROVE  NoteOK(e)'
  BY <1>4 DEF NoteOK
<1>5. ASSUME NEW u \in Updates, LookUp(u) \/ Apply(u)
      PROVE  Sent(e) \/ NoteOK(e)'
  <2>1. u[1] \in Requests /\ UpdateOK(u) /\ NoteEvent(u) \in Events /\ NoteEvent(u).req = u[1]
    BY EventTypes DEF NoteEvent
  <2>2. CASE Queue(NoteEvent(u)) /\ ~Listed(u[1])
    <3>1. Sent(e) \/ (e = NoteEvent(u) /\ QueueUp)
      BY <1>5, <2>1, <2>2, SentByQueue DEF LookUp, Apply
    <3>2. ASSUME e = NoteEvent(u), QueueUp
          PROVE  NoteOK(e)'
      <4>1. Started(e.req) /\ place[e.req] \in {"none", "out"}
        BY <1>5, <2>1, <2>2, <3>2 DEF LookUp, Apply, UpdateOK, Listed, QueueUp, PoolUp, TypeOK
      <4>2. UNCHANGED <<place, row, mem>> \/ UNCHANGED <<place, row, persisted>>
        BY <1>5 DEF LookUp, Apply
      <4>3. mem[e.req].status = "timeout" => mem'[e.req].status = "timeout"
        BY <1>2, <4>1 DEF Stays
      <4> QED BY <1>2, <3>2, <4>1, <4>2, <4>3 DEF NoteOK, RecordOK, Stays
    <3> QED BY <3>1, <3>2
  <2>3. CASE Queue(NoteEvent(u)) /\ persisted[u[1]] /\ Apply(u)
    <3>1. Sent(e) \/ e = NoteEvent(u)
      BY <2>1, <2>3, SentByQueue DEF Apply
    <3>2. ASSUME e = NoteEvent(u)
          PROVE  NoteOK(e)'
      <4>1. Started(e.req) /\ HasRow(e.req)
        BY <1>2, <2>1, <2>3, <3>2 DEF Apply, UpdateOK, RecordOK
      <4> QED BY <1>2, <4>1 DEF NoteOK, Stays
    <3> QED BY <3>1, <3>2
  <2>4. CASE UNCHANGED eventChan
    BY <1>5, <2>4 DEF LookUp, Apply, Sent
  <2> QED BY <1>5, <2>2, <2>3, <2>4 DEF LookUp, Apply, MayWrite
<1>6. ASSUME NEW q \in Requests, Handler(q), e.op = "note"
      PROVE  Sent(e)
  <2>1. handler[q].outcome \in Outcomes \cup {"none"} /\ handler[q].next \in Nat \ {0}
    BY DEF TypeOK
  <2>2. ASSUME NEW x \in Events, x.op # "note", Queue(x), UNCHANGED ev
        PROVE  Sent(e)
    BY <1>6, <2>2, SentByQueue
  <2>3. ASSUME NEW o \in Outcomes, Start(q, o)
        PROVE  Sent(e)
    <3>1. StartEvent(q) \in Events /\ StartEvent(q).op = "start"
      BY EventTypes DEF StartEvent
    <3>2. CASE Queue(StartEvent(q))
      BY <2>2, <2>3, <3>1, <3>2 DEF Start
    <3>3. CASE UNCHANGED eventChan
      BY <2>3, <3>3 DEF Start, Sent
    <3> QED BY <2>3, <3>2, <3>3 DEF Start
  <2>4. ASSUME RecordTokens(q) \/ FinalEvent(q)
        PROVE  Sent(e)
    <3>1. EventOf(q, NextCall(q)) \in Events /\ EventOf(q, NextCall(q)).op # "note"
      BY <2>1, <2>4, CallsOfHandler DEF RecordTokens, FinalEvent, Finishing, EventOf
    <3>2. CASE Queue(EventOf(q, NextCall(q)))
      BY <2>2, <2>4, <3>1, <3>2 DEF RecordTokens, FinalEvent
    <3>3. CASE UNCHANGED eventChan
      BY <2>4, <3>3 DEF RecordTokens, FinalEvent, Sent
    <3> QED BY <2>4, <3>2, <3>3 DEF RecordTokens, FinalEvent
  <2>5. CASE Move(q) \/ Finalize(q)
    BY <2>5 DEF Move, Finalize, Sent
  <2> QED BY <1>6, <2>3, <2>4, <2>5 DEF Handler
<1>7. CASE EventProcessor
  BY <1>3, <1>7, SentByProcessor
<1>8. CASE Archiver \/ Close \/ \E q \in Requests : Expire(q) \/ Leave(q)
  <2>1. UNCHANGED <<eventChan, ev>>
    BY <1>8 DEF Archiver, Take, Commit, Confirm, InsertFails, Close, Cancel, ClosePool,
                CloseArchive, Closes, Leave, Expire
  <2> QED BY <1>3, <2>1 DEF Sent
<1> QED BY <1>3, <1>4, <1>5, <1>6, <1>7, <1>8, Zenon DEF Next

LEMMA HandOverStep == HandOver /\ [Next]_vars => HandOver'
<1>1. ASSUME HandOver, Next
      PROVE  HandOver'
  <2>1. TypeOK'
    BY <1>1, TypeStep DEF HandOver
  <2>2. \A r \in Requests : RecordOK(r)'
    BY <1>1, RecordStep
  <2>3. \A u \in Updates : UpdateOK(u)'
    BY <1>1, UpdateStep
  <2>4. \A e \in Events : Sent(e)' => NoteOK(e)'
    BY <1>1, NoteStep
  <2> QED BY <2>1, <2>2, <2>3, <2>4 DEF HandOver
<1>2. ASSUME HandOver, UNCHANGED vars
      PROVE  HandOver'
  <2>1. TypeOK'
    BY <1>2, TypeStep DEF HandOver
  <2> QED BY <1>2, <2>1 DEF HandOver, vars, RecordOK, UpdateOK, NoteOK, Sent, Started, HasRow,
                            Archived, InChan, InBatch, QueueUp
<1> QED BY <1>1, <1>2

\* An update that the pool accepted is in the row once its request is marked as
\* inserted: no interleaving of HotPool.Update and batchInsert loses it.
THEOREM BarrierHolds == Spec => []CommitBarrier
<1>1. HandOver => CommitBarrier
  BY DEF HandOver, CommitBarrier, UpdateOK
<1> QED BY <1>1, HandOverInit, HandOverStep, PTL DEF Spec

\* An update that the pool refused is sent after the insert of its row, unless
\* the request was given up for its age.
THEOREM RefusedHaveRow == Spec => []SentUpdatesHaveRow
<1>1. HandOver => SentUpdatesHaveRow
  <2> SUFFICES ASSUME HandOver, NEW u \in Updates, Queued(NoteEvent(u)), place[u[1]] # "none",
                      mem[u[1]].status # "timeout"
               PROVE  HasRow(u[1])
    BY DEF SentUpdatesHaveRow
  <2>1. NoteEvent(u) \in Events /\ NoteEvent(u).op = "note" /\ NoteEvent(u).req = u[1]
    BY EventTypes DEF NoteEvent
  <2>2. Sent(NoteEvent(u))
    BY DEF Queued, Sent
  <2>3. NoteOK(NoteEvent(u))
    BY <2>1, <2>2 DEF HandOver
  <2> QED BY <2>1, <2>3 DEF NoteOK
<1> QED BY <1>1, HandOverInit, HandOverStep, PTL DEF Spec

-----------------------------------------------------------------------------
(* One copy of a request on its way to the archiver.                        *)

Distinct(s) == \A i, j \in 1..Len(s) : s[i] = s[j] => i = j
Coming(r)   == ~arch.done /\ InBatch(r)
Waits(r)    == r \in leaving \/ InChan(r) \/ Coming(r)

\* A request has no row while the pool still has to finish it or it waits for its
\* insert, and it waits in one place.
WithoutRow(r) ==
  /\ HasRow(r) => Started(r)
  /\ place[r] = "active" \/ InFinalizer(r) => ~HasRow(r)
  /\ Waits(r) => ~HasRow(r) /\ place[r] \in {"archiving", "out"}
  /\ r \in leaving => ~InChan(r) /\ ~Coming(r)
  /\ InChan(r) => ~Coming(r)

\* A start event is that of a request the pool never took.
StartOK(e) == e.op = "start" => Started(e.req) /\ place[e.req] = "none"

OneCopy ==
  /\ HandOver
  /\ Distinct(archiveChan)
  /\ ~arch.done => Distinct(arch.batch)
  /\ \A r \in Requests : WithoutRow(r)
  /\ \A e \in Events : Sent(e) => StartOK(e)

LEMMA OneCopyInit == Init => OneCopy
<1> SUFFICES ASSUME Init
             PROVE  OneCopy
  OBVIOUS
<1>1. HandOver
  BY HandOverInit
<1>2. \A r \in Requests : WithoutRow(r)
  BY DEF Init, WithoutRow, Waits, Coming, InChan, InBatch, InFinalizer, HasRow, NoRow, Empty
<1>3. \A e \in Events : ~Sent(e)
  BY DEF Init, Sent
<1>4. Distinct(archiveChan) /\ Distinct(arch.batch)
  BY DEF Init, Distinct
<1> QED BY <1>1, <1>2, <1>3, <1>4 DEF OneCopy

\* A request that waits has been filled in.
LEMMA WaitsClosed ==
  ASSUME OneCopy, NEW r \in Requests
  PROVE  /\ Waits(r) => mem[r].status \in Closed
         /\ InFinalizer(r) \/ place[r] = "active" => ~Waits(r)
<1>1. RecordOK(r) /\ WithoutRow(r) /\ Open \notin Closed
  BY DEF OneCopy, HandOver, Open, Closed
<1> QED BY <1>1 DEF RecordOK, Waits, Coming, Archived, WithoutRow, InFinalizer

\* A step that leaves a request and its copies alone.
LEMMA WithoutRowKept ==
  ASSUME NEW r \in Requests, WithoutRow(r), Started(r) => Started(r)', HasRow(r)' => HasRow(r),
         place'[r] = place[r], InFinalizer(r)' => InFinalizer(r),
         r \in leaving' <=> r \in leaving, InChan(r)' <=> InChan(r), Coming(r)' => Coming(r)
  PROVE  WithoutRow(r)'
BY DEF WithoutRow, Waits

LEMMA SendOne ==
  ASSUME TypeOK, NEW q \in Requests, SendToArchive(q), ~InChan(q), Distinct(archiveChan)
  PROVE  /\ Distinct(archiveChan')
         /\ \A r \in Requests : InChan(r)' => InChan(r) \/ r = q
         /\ \A r \in Requests \ {q} : InChan(r)' <=> InChan(r)
<1>1. CASE UNCHANGED archiveChan
  BY <1>1 DEF InChan
<1>2. CASE archiveChan' = Append(archiveChan, q)
  <2> DEFINE s == archiveChan
             t == Append(s, q)
  <2>1. s \in Seq(Requests) /\ Len(s) \in Nat /\ Len(t) = Len(s) + 1 /\ t[Len(s) + 1] = q
    BY DEF TypeOK
  <2>2. \A i \in 1..Len(s) : i \in 1..Len(t) /\ t[i] = s[i] /\ s[i] # q
    BY <2>1 DEF InChan
  <2>3. \A i \in 1..Len(t) : i \in 1..Len(s) \/ i = Len(s) + 1
    BY <2>1
  <2> HIDE DEF t
  <2>4. Distinct(t)
    BY <2>1, <2>2, <2>3 DEF Distinct
  <2>5. \A r \in Requests : (\E i \in 1..Len(t) : t[i] = r) => InChan(r) \/ r = q
    BY <2>1, <2>2, <2>3 DEF InChan
  <2>6. \A r \in Requests : InChan(r) => \E i \in 1..Len(t) : t[i] = r
    BY <2>2 DEF InChan
  <2>7. archiveChan' = t
    BY <1>2 DEF t
  <2> QED BY <2>4, <2>5, <2>6, <2>7 DEF InChan
<1> QED BY <1>1, <1>2 DEF SendToArchive

\* Rows come from the archiver and from start events.
LEMMA RowByProcessor ==
  ASSUME OneCopy, EventProcessor, NEW r \in Requests, HasRow(r)'
  PROVE  HasRow(r) \/ (Started(r) /\ place[r] = "none")
<1>1. TypeOK /\ (ev.at > 0 => ev.at \in 1..Len(ev.batch) /\ ev.batch[ev.at] \in Events)
  BY DEF OneCopy, HandOver, TypeOK, Processors
<1>2. UNCHANGED row \/ (ev.at > 0 /\ Write(ev.batch[ev.at]))
  BY DEF EventProcessor, Receive, Tick, WriteEvent, WriteFails, Abort, SeeCancelled, LastFlush,
         Flushing
<1>3. ASSUME ev.at > 0, Write(ev.batch[ev.at])
      PROVE  HasRow(r) \/ (Started(r) /\ place[r] = "none")
  <2> DEFINE e == ev.batch[ev.at]
  <2>1. e \in Events /\ Sent(e)
    BY <1>1, <1>3 DEF Sent
  <2>2. StartOK(e) /\ e.req \in Requests
    BY <2>1 DEF OneCopy, Events
  <2>3. row' = [row EXCEPT ![e.req] = Written(e)]
    BY <1>3 DEF Write
  <2> HIDE DEF e
  <2>4. e.op # "start" /\ ~HasRow(e.req) => Written(e) = row[e.req]
    BY DEF Written
  <2>5. row'[r] = IF r = e.req THEN Written(e) ELSE row[r]
    BY <1>1, <2>2, <2>3 DEF TypeOK
  <2> QED BY <2>2, <2>4, <2>5 DEF StartOK, HasRow
<1> QED BY <1>2, <1>3 DEF HasRow

LEMMA CopyHandler ==
  ASSUME OneCopy, NEW q \in Requests, Handler(q)
  PROVE  Distinct(archiveChan') /\ \A r \in Requests : WithoutRow(r)'
<1> USE DEF OneCopy
<1>0. /\ TypeOK /\ HandOver /\ RecordOK(q) /\ WithoutRow(q)
      /\ \A r \in Requests : WithoutRow(r) /\ Stays(r)
  BY StaysHandler DEF HandOver
<1>1. ASSUME NEW o \in Outcomes, Start(q, o)
      PROVE  Distinct(archiveChan') /\ \A r \in Requests : WithoutRow(r)'
  <2>1. ~Started(q) /\ place[q] = "none" /\ Started(q)'
    <3>1. o # "none"
      BY TrackingAssumption
    <3> QED BY <1>0, <1>1, <3>1 DEF Start, Started, RecordOK, TypeOK
  <2>2. ASSUME NEW r \in Requests
        PROVE  /\ HasRow(r)' <=> HasRow(r)
               /\ InChan(r)' <=> InChan(r)
               /\ Coming(r)' <=> Coming(r)
    BY <1>1 DEF Start, HasRow, InChan, Coming, InBatch
  <2>3. ~Waits(q) /\ ~Waits(q)' /\ ~HasRow(q)
    BY <1>0, <1>1, <2>1, <2>2 DEF WithoutRow, Waits, Start
  <2>4. place'[q] \in {"none", "active"}
    BY <1>0, <1>1, <2>1 DEF Start, TypeOK
  <2>5. WithoutRow(q)'
    BY <2>1, <2>2, <2>3, <2>4 DEF WithoutRow, Waits, InFinalizer
  <2>6. ASSUME NEW r \in Requests \ {q}
        PROVE  WithoutRow(r)'
    <3>1. place'[r] = place[r] /\ mem'[r] = mem[r] /\ leaving' = leaving
      BY <1>0, <1>1 DEF Start, TypeOK
    <3>2. InFinalizer(r)' => InFinalizer(r)
      BY <3>1 DEF InFinalizer
    <3> QED BY <1>0, <2>2, <3>1, <3>2, WithoutRowKept DEF Stays
  <2> QED BY <1>1, <2>5, <2>6 DEF Start, Distinct
<1>2. CASE RecordTokens(q)
  <2>1. \A r \in Requests : mem'[r].status = mem[r].status
    <3>1. mem[q] \in Contents
      BY <1>0 DEF TypeOK
    <3>2. [mem[q] EXCEPT !.tokens = TRUE].status = mem[q].status
      BY <3>1 DEF Contents
    <3> QED BY <1>0, <1>2, <3>2 DEF RecordTokens, TypeOK
  <2>2. UNCHANGED <<place, row, leaving, archiveChan, arch>>
    BY <1>2 DEF RecordTokens
  <2>3. \A r \in Requests : WithoutRow(r)'
    BY <1>0, <2>1, <2>2 DEF WithoutRow, Waits, InFinalizer, HasRow, InChan, Coming, InBatch, Stays
  <2> QED BY <2>2, <2>3
<1>3. CASE Move(q)
  <2>1. UNCHANGED <<mem, row, leaving, archiveChan, arch>>
    BY <1>3 DEF Move
  <2>2. \A r \in Requests : place'[r] = IF r = q THEN "archiving" ELSE place[r]
    BY <1>0, <1>3 DEF Move, TypeOK
  <2>3. place[q] = "active"
    BY <1>3 DEF Move
  <2>4. \A r \in Requests : WithoutRow(r)'
    BY <1>0, <2>1, <2>2, <2>3
       DEF WithoutRow, Waits, InFinalizer, HasRow, InChan, Coming, InBatch, Stays
  <2> QED BY <2>1, <2>4
<1>4. CASE Finalize(q)
  <2>1. ~Waits(q) /\ ~HasRow(q) /\ place[q] = "archiving"
    BY <1>0, <1>4, WaitsClosed DEF Finalize, InFinalizer, WithoutRow
  <2>2. /\ Distinct(archiveChan')
        /\ \A r \in Requests \ {q} : InChan(r)' <=> InChan(r)
    BY <1>0, <1>4, <2>1, SendOne DEF Finalize, Waits
  <2>3. UNCHANGED <<row, leaving, arch, place>>
    BY <1>4 DEF Finalize
  <2>4. mem'[q].status \in Closed
    <3>1. handler[q].outcome \in Outcomes \cup {"none"} /\ handler[q].next \in Nat \ {0}
      BY <1>0 DEF TypeOK
    <3>2. NextCall(q).status \in Closed
      BY <1>4, <3>1, CallsOfHandler DEF Finalize, Finishing
    <3> QED BY <1>0, <1>4, <3>2 DEF Finalize, Finalized, TypeOK
  <2>5. WithoutRow(q)'
    <3>1. ~InFinalizer(q)'
      BY <2>4 DEF InFinalizer, Open, Closed
    <3> QED BY <1>0, <2>1, <2>3, <3>1 DEF WithoutRow, Waits, HasRow, Coming, InBatch
  <2>6. ASSUME NEW r \in Requests \ {q}
        PROVE  WithoutRow(r)'
    <3>1. mem'[r] = mem[r]
      BY <1>0, <1>4 DEF Finalize, TypeOK
    <3>2. /\ InFinalizer(r)' <=> InFinalizer(r)
          /\ HasRow(r)' <=> HasRow(r)
          /\ Coming(r)' <=> Coming(r)
      BY <2>3, <3>1 DEF InFinalizer, HasRow, Coming, InBatch
    <3> QED BY <1>0, <2>2, <2>3, <3>2, WithoutRowKept DEF Stays
  <2> QED BY <2>2, <2>5, <2>6
<1>5. CASE FinalEvent(q)
  <2>1. UNCHANGED <<place, mem, row, leaving, archiveChan, arch>>
    BY <1>5 DEF FinalEvent
  <2>2. \A r \in Requests : WithoutRow(r)'
    BY <1>0, <2>1 DEF WithoutRow, Waits, InFinalizer, HasRow, InChan, Coming, InBatch, Stays
  <2> QED BY <2>1, <2>2
<1> QED BY <1>1, <1>2, <1>3, <1>4, <1>5 DEF Handler

LEMMA CopyOthers ==
  ASSUME OneCopy, \/ \E u \in Updates : LookUp(u) \/ Apply(u)
                  \/ \E q \in Requests : Expire(q) \/ Leave(q)
  PROVE  Distinct(archiveChan') /\ \A r \in Requests : WithoutRow(r)'
<1> USE DEF OneCopy
<1>0. TypeOK /\ HandOver /\ \A r \in Requests : WithoutRow(r) /\ Stays(r) /\ RecordOK(r)
  BY StaysOthers DEF HandOver
<1>1. ASSUME NEW u \in Updates, LookUp(u) \/ Apply(u)
      PROVE  Distinct(archiveChan') /\ \A r \in Requests : WithoutRow(r)'
  <2>1. UNCHANGED <<place, row, leaving, archiveChan, arch>>
    BY <1>1 DEF LookUp, Apply
  <2>2. \A r \in Requests : mem'[r].status = mem[r].status
    <3>1. u[1] \in Requests /\ mem[u[1]] \in Contents
      BY <1>0, EventTypes DEF TypeOK
    <3> DEFINE c == [mem[u[1]] EXCEPT !.notes = mem[u[1]].notes \cup {u[2]}]
    <3>2. c.status = mem[u[1]].status
      BY <3>1 DEF Contents
    <3>3. UNCHANGED mem \/ mem' = [mem EXCEPT ![u[1]] = c]
      BY <1>1 DEF LookUp, Apply
    <3> HIDE DEF c
    <3> QED BY <1>0, <3>2, <3>3 DEF TypeOK
  <2>3. \A r \in Requests : WithoutRow(r)'
    BY <1>0, <2>1, <2>2 DEF WithoutRow, Waits, InFinalizer, HasRow, InChan, Coming, InBatch, Stays
  <2> QED BY <2>1, <2>3
<1>2. ASSUME NEW q \in Requests, Expire(q)
      PROVE  Distinct(archiveChan') /\ \A r \in Requests : WithoutRow(r)'
  <2>1. UNCHANGED <<row, archiveChan, arch>> /\ leaving' = leaving \cup {q} /\ place[q] = "active"
    BY <1>2 DEF Expire
  <2>2. place'[q] = "out" /\ \A r \in Requests \ {q} : place'[r] = place[r] /\ mem'[r] = mem[r]
    BY <1>0, <1>2 DEF Expire, Removed, TypeOK
  <2>3. ~Waits(q) /\ ~HasRow(q)
    BY <1>0, <2>1, WaitsClosed DEF WithoutRow
  <2>4. \A r \in Requests : WithoutRow(r)'
    BY <1>0, <2>1, <2>2, <2>3
       DEF WithoutRow, Waits, InFinalizer, HasRow, InChan, Coming, InBatch, Stays
  <2> QED BY <2>1, <2>4
<1>3. ASSUME NEW q \in Requests, Leave(q)
      PROVE  Distinct(archiveChan') /\ \A r \in Requests : WithoutRow(r)'
  <2>1. UNCHANGED <<row, arch, place, mem>> /\ leaving' = leaving \ {q} /\ q \in leaving
    BY <1>3 DEF Leave
  <2>2. ~InChan(q) /\ ~Coming(q) /\ ~HasRow(q) /\ place[q] \in {"archiving", "out"} /\ ~InFinalizer(q)
    BY <1>0, <2>1, WaitsClosed DEF WithoutRow, Waits
  <2>3. /\ Distinct(archiveChan')
        /\ \A r \in Requests \ {q} : InChan(r)' <=> InChan(r)
    BY <1>0, <1>3, <2>2, SendOne DEF Leave
  <2>4. \A r \in Requests : /\ InFinalizer(r)' <=> InFinalizer(r)
                            /\ HasRow(r)' <=> HasRow(r)
                            /\ Coming(r)' <=> Coming(r)
    BY <2>1 DEF InFinalizer, HasRow, Coming, InBatch
  <2>5. WithoutRow(q)'
    BY <2>1, <2>2, <2>4 DEF WithoutRow, Waits
  <2>6. ASSUME NEW r \in Requests \ {q}
        PROVE  WithoutRow(r)'
    BY <1>0, <2>1, <2>3, <2>4, WithoutRowKept DEF Stays
  <2> QED BY <2>3, <2>5, <2>6
<1> QED BY <1>1, <1>2, <1>3

\* The next request of the channel joins the batch.
LEMMA TakeOne ==
  ASSUME TypeOK, Take, Distinct(archiveChan), Distinct(arch.batch), NEW q \in Requests,
         q = Head(archiveChan), ~InBatch(q)
  PROVE  /\ Distinct(archiveChan') /\ Distinct(arch'.batch)
         /\ InChan(q) /\ ~InChan(q)'
         /\ \A r \in Requests \ {q} : (InChan(r)' <=> InChan(r)) /\ (InBatch(r)' <=> InBatch(r))
<1> DEFINE c == archiveChan
           b == arch.batch
           n == Len(b)
<1>1. /\ c \in Seq(Requests) /\ Len(c) \in Nat /\ Len(c) > 0 /\ q = c[1]
      /\ b \in Seq(Requests) /\ n \in Nat
  BY DEF Take, TypeOK, Batches
<1>2. archiveChan' = Tail(c) /\ arch'.batch = Append(b, q)
  BY DEF Take, TypeOK, Batches
<1>3. /\ Len(Tail(c)) = Len(c) - 1
      /\ \A i \in 1..Len(Tail(c)) : i + 1 \in 1..Len(c) /\ Tail(c)[i] = c[i + 1]
      /\ \A i \in 1..Len(c) : i # 1 => i - 1 \in 1..Len(Tail(c)) /\ Tail(c)[i - 1] = c[i]
  BY <1>1
<1>4. /\ Len(Append(b, q)) = n + 1 /\ Append(b, q)[n + 1] = q
      /\ \A i \in 1..n : Append(b, q)[i] = b[i] /\ b[i] # q
  BY <1>1 DEF InBatch
<1>5. Distinct(archiveChan') /\ InChan(q) /\ ~InChan(q)'
  <2>1. InChan(q)
    BY <1>1 DEF InChan
  <2>2. ~InChan(q)'
    BY <1>1, <1>2, <1>3 DEF Distinct, InChan
  <2>3. Distinct(archiveChan')
    BY <1>1, <1>2, <1>3 DEF Distinct
  <2> QED BY <2>1, <2>2, <2>3
<1>6. Distinct(arch'.batch)
  BY <1>1, <1>2, <1>4 DEF Distinct
<1>7. ASSUME NEW r \in Requests \ {q}
      PROVE  (InChan(r)' <=> InChan(r)) /\ (InBatch(r)' <=> InBatch(r))
  <2>1. InChan(r)' => InChan(r)
    BY <1>2, <1>3 DEF InChan
  <2>2. InChan(r) => InChan(r)'
    BY <1>1, <1>2, <1>3 DEF InChan
  <2>3. InBatch(r)' <=> InBatch(r)
    <3>1. \A i \in 1..n + 1 : i \in 1..n \/ i = n + 1
      BY <1>1
    <3>2. \A i \in 1..n : i \in 1..n + 1
      BY <1>1
    <3> QED BY <1>2, <1>4, <3>1, <3>2 DEF InBatch
  <2> QED BY <2>1, <2>2, <2>3
<1> QED BY <1>5, <1>6, <1>7

LEMMA CopyArchiver ==
  ASSUME OneCopy, Archiver
  PROVE  /\ Distinct(archiveChan') /\ (~arch'.done => Distinct(arch'.batch))
         /\ \A r \in Requests : WithoutRow(r)'
<1> USE DEF OneCopy
<1>0. TypeOK /\ HandOver /\ \A r \in Requests : WithoutRow(r) /\ Stays(r) /\ RecordOK(r)
  BY StaysOthers DEF HandOver
<1>1. CASE Take
  <2>0. PICK q \in Requests : q = Head(archiveChan)
    BY <1>0, <1>1 DEF Take, TypeOK
  <2>1. q = archiveChan[1] /\ 1 \in 1..Len(archiveChan) /\ ~arch.done /\ ~arch'.done
    BY <1>0, <1>1, <2>0 DEF Take, TypeOK, Batches
  <2>2. UNCHANGED <<place, mem, row, leaving>>
    BY <1>1 DEF Take
  <2>3. InChan(q) /\ ~InBatch(q) /\ q \notin leaving
    <3>1. InChan(q)
      BY <2>1 DEF InChan
    <3> QED BY <1>0, <2>1, <3>1 DEF WithoutRow, Coming
  <2>4. /\ Distinct(archiveChan') /\ Distinct(arch'.batch) /\ ~InChan(q)'
        /\ \A r \in Requests \ {q} : (InChan(r)' <=> InChan(r)) /\ (InBatch(r)' <=> InBatch(r))
    BY <1>0, <1>1, <2>0, <2>1, <2>3, TakeOne
  <2>5. \A r \in Requests : (InFinalizer(r)' <=> InFinalizer(r)) /\ (HasRow(r)' <=> HasRow(r))
    BY <2>2 DEF InFinalizer, HasRow
  <2>6. WithoutRow(q)'
    BY <1>0, <2>1, <2>2, <2>3, <2>4, <2>5 DEF WithoutRow, Waits, Stays
  <2>7. ASSUME NEW r \in Requests \ {q}
        PROVE  WithoutRow(r)'
    <3>1. Coming(r)' => Coming(r)
      BY <2>1, <2>4 DEF Coming
    <3> QED BY <1>0, <2>2, <2>4, <2>5, <3>1, WithoutRowKept DEF Stays
  <2> QED BY <2>4, <2>6, <2>7
<1>2. CASE Commit
  <2>1. UNCHANGED <<place, mem, leaving, archiveChan>> /\ ~arch.done
    BY <1>2 DEF Commit
  <2>2. arch'.done /\ arch'.batch = arch.batch
    BY <1>0, <1>2 DEF Commit, TypeOK, Batches
  <2>3. ASSUME NEW r \in Requests
        PROVE  WithoutRow(r)'
    <3>1. (InFinalizer(r)' <=> InFinalizer(r)) /\ (InChan(r)' <=> InChan(r)) /\ ~Coming(r)'
      BY <2>1, <2>2 DEF InFinalizer, InChan, Coming
    <3>2. CASE InBatch(r)
      <4>1. Coming(r) /\ Started(r)
        BY <1>0, <2>1, <3>2 DEF Coming, RecordOK, Archived
      <4>2. ~InFinalizer(r) /\ place[r] # "active"
        BY <4>1, WaitsClosed DEF Waits
      <4> QED BY <1>0, <2>1, <3>1, <4>1, <4>2 DEF WithoutRow, Waits, Stays
    <3>3. CASE ~InBatch(r)
      <4>1. HasRow(r)' <=> HasRow(r)
        BY <1>2, <3>3 DEF Commit, HasRow
      <4> QED BY <1>0, <2>1, <3>1, <4>1, WithoutRowKept DEF Stays
    <3> QED BY <3>2, <3>3
  <2> QED BY <2>1, <2>2, <2>3
<1>3. CASE Confirm
  <2>1. UNCHANGED <<mem, row, leaving, archiveChan>> /\ arch'.batch = <<>>
    BY <1>3 DEF Confirm
  <2>2. \A r \in Requests : place'[r] = place[r] \/ (place[r] = "archiving" /\ place'[r] = "out")
    BY <1>3 DEF Confirm
  <2>3. \A r \in Requests : ~Coming(r)' /\ (InChan(r)' <=> InChan(r))
    BY <2>1 DEF Coming, InBatch, InChan
  <2>4. \A r \in Requests : WithoutRow(r)'
    BY <1>0, <2>1, <2>2, <2>3 DEF WithoutRow, Waits, InFinalizer, HasRow, Stays
  <2>5. Distinct(arch'.batch)
    BY <2>1 DEF Distinct
  <2> QED BY <2>1, <2>4, <2>5
<1>4. CASE InsertFails
  <2>1. UNCHANGED <<place, mem, row, leaving, archiveChan>> /\ ~arch.done
    BY <1>4 DEF InsertFails
  <2>2. arch'.batch = arch.batch \/ arch'.batch = <<>>
    BY <1>0, <1>4 DEF InsertFails, TypeOK, Batches
  <2>3. \A r \in Requests : (Coming(r)' => Coming(r)) /\ (InChan(r)' <=> InChan(r))
    BY <2>1, <2>2 DEF Coming, InBatch, InChan
  <2>4. \A r \in Requests : WithoutRow(r)'
    BY <1>0, <2>1, <2>3 DEF WithoutRow, Waits, InFinalizer, HasRow, Stays
  <2>5. Distinct(arch'.batch)
    BY <2>1, <2>2 DEF Distinct
  <2> QED BY <2>1, <2>4, <2>5
<1> QED BY <1>1, <1>2, <1>3, <1>4 DEF Archiver

LEMMA CopyProcessor ==
  ASSUME OneCopy, EventProcessor
  PROVE  \A r \in Requests : WithoutRow(r)'
<1> SUFFICES ASSUME NEW r \in Requests
             PROVE  WithoutRow(r)'
  OBVIOUS
<1>1. WithoutRow(r) /\ Stays(r) /\ (place[r] # "none" => Started(r))
  BY StaysProcessor DEF OneCopy, HandOver, RecordOK
<1>2. UNCHANGED <<handler, place, mem, leaving, archiveChan, arch>>
  BY DEF EventProcessor, Receive, Tick, WriteEvent, WriteFails, Abort, SeeCancelled, LastFlush
<1>3. HasRow(r)' => HasRow(r) \/ (Started(r) /\ place[r] = "none")
  BY RowByProcessor
<1> QED BY <1>1, <1>2, <1>3
        DEF WithoutRow, Waits, InFinalizer, InChan, Coming, InBatch, Stays

LEMMA CopyClose ==
  ASSUME OneCopy, Close
  PROVE  \A r \in Requests : WithoutRow(r)'
<1> SUFFICES ASSUME NEW r \in Requests
             PROVE  WithoutRow(r)'
  OBVIOUS
<1>1. TypeOK /\ WithoutRow(r) /\ Stays(r)
  BY StaysClose DEF OneCopy, HandOver
<1>2. UNCHANGED <<row, archiveChan, arch>>
  BY DEF Close, Cancel, ClosePool, CloseArchive, Closes
<1>3. CASE ClosePool
  <2>1. /\ leaving' = leaving \cup Active
        /\ place'[r] = IF place[r] = "active" THEN "out" ELSE place[r]
        /\ place[r] # "active" => mem'[r] = mem[r]
    BY <1>3 DEF ClosePool
  <2>2. place[r] = "active" => ~Waits(r)
    BY WaitsClosed
  <2> QED BY <1>1, <1>2, <2>1, <2>2
          DEF WithoutRow, Waits, Active, InFinalizer, HasRow, InChan, Coming, InBatch, Stays
<1>4. CASE Cancel \/ CloseArchive \/ Closes
  <2>1. UNCHANGED <<place, mem, leaving>>
    BY <1>4 DEF Cancel, CloseArchive, Closes
  <2> QED BY <1>1, <1>2, <2>1
          DEF WithoutRow, Waits, InFinalizer, HasRow, InChan, Coming, InBatch, Stays
<1> QED BY <1>3, <1>4 DEF Close

LEMMA StartStep ==
  ASSUME OneCopy, Next, NEW e \in Events, Sent(e)'
  PROVE  StartOK(e)'
<1>0. TypeOK /\ HandOver /\ e.req \in Requests
  BY DEF OneCopy, HandOver, Events
<1>1. Stays(e.req)
  BY <1>0, NextStays
<1>2. Sent(e) => StartOK(e)'
  BY <1>1 DEF OneCopy, StartOK, Stays
<1>3. ASSUME NEW u \in Updates, LookUp(u) \/ Apply(u)
      PROVE  Sent(e) \/ StartOK(e)'
  <2>1. NoteEvent(u) \in Events /\ NoteEvent(u).op = "note"
    BY EventTypes DEF NoteEvent
  <2>2. CASE Queue(NoteEvent(u))
    BY <1>0, <1>3, <2>1, <2>2, SentByQueue DEF LookUp, Apply, StartOK
  <2>3. CASE UNCHANGED eventChan
    BY <1>3, <2>3 DEF LookUp, Apply, Sent
  <2> QED BY <1>3, <2>2, <2>3 DEF LookUp, Apply
<1>4. ASSUME NEW q \in Requests, Handler(q)
      PROVE  Sent(e) \/ StartOK(e)'
  <2>1. handler[q].outcome \in Outcomes \cup {"none"} /\ handler[q].next \in Nat \ {0}
    BY <1>0 DEF TypeOK
  <2>2. ASSUME NEW o \in Outcomes, Start(q, o)
        PROVE  Sent(e) \/ StartOK(e)'
    <3>1. StartEvent(q) \in Events /\ StartEvent(q).req = q
      BY EventTypes DEF StartEvent
    <3>2. CASE Queue(StartEvent(q)) /\ UNCHANGED place
      <4>1. Sent(e) \/ e = StartEvent(q)
        BY <1>0, <2>2, <3>1, <3>2, SentByQueue DEF Start
      <4>2. place[q] = "none"
        BY <1>0, <2>2 DEF Start, HandOver, RecordOK
      <4>3. Started(q)'
        <5>1. o # "none"
          BY TrackingAssumption
        <5> QED BY <1>0, <2>2, <5>1 DEF Start, Started, TypeOK
      <4> QED BY <3>1, <3>2, <4>1, <4>2, <4>3 DEF StartOK
    <3>3. CASE UNCHANGED eventChan
      BY <2>2, <3>3 DEF Start, Sent
    <3> QED BY <2>2, <3>2, <3>3 DEF Start
  <2>3. ASSUME RecordTokens(q) \/ FinalEvent(q)
        PROVE  Sent(e) \/ StartOK(e)'
    <3>1. EventOf(q, NextCall(q)) \in Events /\ EventOf(q, NextCall(q)).op # "start"
      BY <2>1, <2>3, CallsOfHandler DEF RecordTokens, FinalEvent, Finishing, EventOf
    <3>2. CASE Queue(EventOf(q, NextCall(q)))
      BY <1>0, <2>3, <3>1, <3>2, SentByQueue DEF RecordTokens, FinalEvent, StartOK
    <3>3. CASE UNCHANGED eventChan
      BY <2>3, <3>3 DEF RecordTokens, FinalEvent, Sent
    <3> QED BY <2>3, <3>2, <3>3 DEF RecordTokens, FinalEvent
  <2>4. CASE Move(q) \/ Finalize(q)
    BY <2>4 DEF Move, Finalize, Sent
  <2> QED BY <1>4, <2>2, <2>3, <2>4 DEF Handler
<1>5. CASE EventProcessor
  BY <1>0, <1>2, <1>5, SentByProcessor
<1>6. CASE Archiver \/ Close \/ \E q \in Requests : Expire(q) \/ Leave(q)
  <2>1. UNCHANGED <<eventChan, ev>>
    BY <1>6 DEF Archiver, Take, Commit, Confirm, InsertFails, Close, Cancel, ClosePool,
                CloseArchive, Closes, Leave, Expire
  <2> QED BY <1>2, <2>1 DEF Sent
<1> QED BY <1>2, <1>3, <1>4, <1>5, <1>6, Zenon DEF Next

LEMMA OneCopyStep == OneCopy /\ [Next]_vars => OneCopy'
<1>1. ASSUME OneCopy, Next
      PROVE  OneCopy'
  <2>1. HandOver'
    BY <1>1, HandOverStep DEF OneCopy
  <2>2. \A e \in Events : Sent(e)' => StartOK(e)'
    BY <1>1, StartStep
  <2>3. \A r \in Requests : WithoutRow(r)'
    BY <1>1, CopyHandler, CopyOthers, CopyArchiver, CopyProcessor, CopyClose, Zenon DEF Next
  <2>4. CASE Archiver
    BY <1>1, <2>1, <2>2, <2>3, <2>4, CopyArchiver DEF OneCopy
  <2>5. CASE UNCHANGED arch
    <3>1. Distinct(archiveChan)'
      <4>1. CASE \/ \E q \in Requests : Handler(q) \/ Expire(q) \/ Leave(q)
                 \/ \E u \in Updates : LookUp(u) \/ Apply(u)
        BY <1>1, <4>1, CopyHandler, CopyOthers, Zenon DEF Distinct
      <4>2. CASE EventProcessor \/ Close
        <5>1. UNCHANGED archiveChan
          BY <4>2 DEF EventProcessor, Receive, Tick, WriteEvent, WriteFails, Abort, SeeCancelled,
                      LastFlush, Close, Cancel, ClosePool, CloseArchive, Closes
        <5> QED BY <1>1, <5>1 DEF OneCopy
      <4>3. CASE Archiver
        BY <1>1, <4>3, CopyArchiver
      <4> QED BY <1>1, <4>1, <4>2, <4>3, Zenon DEF Next
    <3> QED BY <1>1, <2>1, <2>2, <2>3, <2>5, <3>1 DEF OneCopy
  <2>6. Archiver \/ UNCHANGED arch
    BY <1>1 DEF Next, Handler, Start, RecordTokens, Move, Finalize, FinalEvent, Expire, Leave,
                LookUp, Apply, EventProcessor, Receive, Tick, WriteEvent, WriteFails, Abort,
                SeeCancelled, LastFlush, Close, Cancel, ClosePool, CloseArchive, Closes
  <2> QED BY <2>4, <2>5, <2>6
<1>2. ASSUME OneCopy, UNCHANGED vars
      PROVE  OneCopy'
  <2>1. HandOver'
    BY <1>2, HandOverStep DEF OneCopy
  <2>2. UNCHANGED <<handler, place, mem, row, leaving, archiveChan, arch, eventChan, ev>>
    BY <1>2 DEF vars
  <2>3. \A r \in Requests : WithoutRow(r)'
    BY <1>2, <2>2 DEF OneCopy, WithoutRow, Waits, Coming, InChan, InBatch, InFinalizer, HasRow,
                      Started
  <2>4. \A e \in Events : Sent(e)' => StartOK(e)'
    BY <1>2, <2>2 DEF OneCopy, Sent, StartOK, Started
  <2> QED BY <1>2, <2>1, <2>2, <2>3, <2>4 DEF OneCopy
<1> QED BY <1>1, <1>2

LEMMA CopiesIn ==
  ASSUME NEW s \in Seq(Requests), Distinct(s), NEW r \in Requests
  PROVE  Cardinality({i \in 1..Len(s) : s[i] = r}) = IF \E i \in 1..Len(s) : s[i] = r THEN 1 ELSE 0
<1>1. CASE \E i \in 1..Len(s) : s[i] = r
  <2>1. PICK k \in 1..Len(s) : s[k] = r
    BY <1>1
  <2>2. {i \in 1..Len(s) : s[i] = r} = {k}
    BY <2>1 DEF Distinct
  <2> QED BY <1>1, <2>2, FS_Singleton
<1>2. CASE ~\E i \in 1..Len(s) : s[i] = r
  <2>1. {i \in 1..Len(s) : s[i] = r} = {}
    BY <1>2
  <2> QED BY <1>2, <2>1, FS_EmptySet
<1> QED BY <1>1, <1>2

\* A request is on its way to the archiver in one copy, and in none once it has a row:
\* no batch fails because of a request that another one has inserted.
THEOREM OneArchival == Spec => []ArchivedOnce
<1>1. OneCopy => ArchivedOnce
  <2> SUFFICES ASSUME OneCopy, NEW r \in Requests
               PROVE  Copies(r) <= (IF HasRow(r) THEN 0 ELSE 1)
    BY DEF ArchivedOnce
  <2> DEFINE inChan  == Cardinality({i \in 1..Len(archiveChan) : archiveChan[i] = r})
             inBatch == Cardinality({i \in 1..Len(arch.batch) : arch.batch[i] = r})
  <2>1. archiveChan \in Seq(Requests) /\ arch.batch \in Seq(Requests) /\ arch.done \in BOOLEAN
    BY DEF OneCopy, HandOver, TypeOK, Batches
  <2>2. inChan = IF InChan(r) THEN 1 ELSE 0
    BY <2>1, CopiesIn DEF OneCopy, InChan
  <2>3. ~arch.done => inBatch = IF InBatch(r) THEN 1 ELSE 0
    BY <2>1, CopiesIn DEF OneCopy, InBatch
  <2>4. Copies(r) = inChan + (IF arch.done THEN 0 ELSE inBatch) + (IF r \in leaving THEN 1 ELSE 0)
    BY DEF Copies
  <2> HIDE DEF inChan, inBatch
  <2>5. (IF arch.done THEN 0 ELSE inBatch) = IF Coming(r) THEN 1 ELSE 0
    BY <2>1, <2>3 DEF Coming
  <2>6. Waits(r) => ~HasRow(r)
    BY DEF OneCopy, WithoutRow
  <2>7. Copies(r) = IF Waits(r) THEN 1 ELSE 0
    <3>1. (r \in leaving => ~InChan(r) /\ ~Coming(r)) /\ (InChan(r) => ~Coming(r))
      BY DEF OneCopy, WithoutRow
    <3>2. CASE r \in leaving
      BY <2>2, <2>4, <2>5, <3>1, <3>2 DEF Waits
    <3>3. CASE InChan(r)
      BY <2>2, <2>4, <2>5, <3>1, <3>3 DEF Waits
    <3>4. CASE r \notin leaving /\ ~InChan(r)
      <4>1. Waits(r) <=> Coming(r)
        BY <3>4 DEF Waits
      <4>2. Copies(r) = 0 + (IF Coming(r) THEN 1 ELSE 0) + 0
        BY <2>2, <2>4, <2>5, <3>4
      <4> QED BY <4>1, <4>2
    <3> QED BY <3>2, <3>3, <3>4
  <2>8. CASE Waits(r)
    BY <2>6, <2>7, <2>8
  <2>9. CASE ~Waits(r)
    BY <2>7, <2>9
  <2> QED BY <2>8, <2>9
<1> QED BY <1>1, OneCopyInit, OneCopyStep, PTL DEF Spec

-----------------------------------------------------------------------------
(* The refinement.  As long as the tracker is not closed, RequestTracking     *)
(* implements RequestRecord: no interleaving of the pool, the archiver and    *)
(* the event queue shows a reader a record that RequestRecord does not allow. *)
(* First its inductive invariant.                                             *)

StatusOK(r) ==
  /\ ~Started(r) => mem[r].status = "none" /\ ~HasRow(r)
  /\ Started(r) => /\ mem[r].status \in {"none", Open, "timeout", FinalStatus(r)}
                   /\ row[r].c.status \in {"none", Open, "timeout", FinalStatus(r)}

\* Which copy of a record is the current one.
CopyOK(r) ==
  /\ ~HasRow(r) => row[r].c = Empty
  /\ place[r] # "none" => mem[r].status # "none"
  /\ place[r] = "active" => ~persisted[r]
  /\ place[r] # "none" /\ ~persisted[r] => ~HasRow(r)
  /\ Archived(r) => place[r] \in {"archiving", "out"}

\* The INSERT of an event comes before any other row of its request, and the
\* final events of a request agree on the status.
EventOK(e) ==
  /\ e.op = "start" => Started(e.req) /\ place[e.req] = "none"
  /\ e.op = "final" => Started(e.req) /\ e.status = FinalStatus(e.req)

IsStart(e, r) == e.op = "start" /\ e.req = r
Waiting(i) == i \in 1..Len(ev.batch) /\ ev.at <= i
StartsOnce(r) ==
  /\ \A i, j \in 1..Len(eventChan) :
       IsStart(eventChan[i], r) /\ IsStart(eventChan[j], r) => i = j
  /\ \A i, j \in 1..Len(ev.batch) :
       Waiting(i) /\ Waiting(j) /\ IsStart(ev.batch[i], r) /\ IsStart(ev.batch[j], r) => i = j
  /\ \A i \in 1..Len(eventChan), j \in 1..Len(ev.batch) :
       Waiting(j) => ~(IsStart(eventChan[i], r) /\ IsStart(ev.batch[j], r))
  /\ \A i \in 1..Len(eventChan) : IsStart(eventChan[i], r) => ~HasRow(r)
  /\ \A i \in 1..Len(ev.batch) : Waiting(i) /\ IsStart(ev.batch[i], r) => ~HasRow(r)

Readable ==
  /\ HandOver
  /\ phase = "running" /\ ev.mode = "collect"
  /\ \A r \in Requests : StatusOK(r)
  /\ \A r \in Requests : CopyOK(r)
  /\ \A e \in Events : Sent(e) => EventOK(e)
  /\ \A r \in Requests : StartsOnce(r)

-----------------------------------------------------------------------------
(* It holds initially and every step keeps it.                              *)

LEMMA ReadableInit == Init => Readable
<1> SUFFICES ASSUME Init
             PROVE  Readable
  OBVIOUS
<1>1. HandOver
  BY HandOverInit
<1>2. \A r \in Requests : StatusOK(r)
  <2>1. \A r \in Requests : ~Started(r) /\ mem[r].status = "none" /\ row[r].c.status = "none"
    BY DEF Init, Started, NoRow, Empty
  <2> QED BY <2>1 DEF StatusOK, HasRow
<1>3. \A r \in Requests : CopyOK(r)
  <2>1. \A r \in Requests : place[r] = "none" /\ row[r].c = Empty /\ row[r].c.status = "none"
    BY DEF Init, NoRow, Empty
  <2>2. \A r \in Requests : ~Archived(r)
    BY DEF Init, Archived, InChan, InBatch
  <2> QED BY <2>1, <2>2 DEF CopyOK, HasRow
<1>4. \A e \in Events : ~Sent(e)
  BY DEF Init, Sent
<1>5. \A r \in Requests : StartsOnce(r)
  BY DEF Init, StartsOnce
<1> QED BY <1>1, <1>2, <1>3, <1>4, <1>5 DEF Readable, Init

LEMMA RunningStep ==
  ASSUME "close" \notin Faults, Readable, Next
  PROVE  /\ ~Close /\ ~Abort /\ ~SeeCancelled /\ ~LastFlush
         /\ phase' = "running" /\ ev'.mode = "collect"
         /\ WriteEvent \/ WriteFails => \/ ev' = [ev EXCEPT !.at = ev.at + 1]
                                        \/ ev'.batch = <<>>
<1>1. phase = "running" /\ ev.mode = "collect" /\ ev \in Processors
  BY DEF Readable, HandOver, TypeOK
<1>2. ~Close /\ ~Abort /\ ~SeeCancelled /\ ~LastFlush
  BY <1>1 DEF Close, Cancel, ClosePool, CloseArchive, Closes, Abort, SeeCancelled, LastFlush
<1>3. phase' = "running"
  BY <1>1, <1>2 DEF Next, Handler, Start, RecordTokens, Move, Finalize, FinalEvent, Expire, Leave,
                    LookUp, Apply, Archiver, Take, Commit, Confirm, InsertFails, EventProcessor,
                    Receive, Tick, WriteEvent, WriteFails
<1>4. FlushOver(ev).batch = <<>> /\ FlushOver(ev).mode = "collect"
  BY <1>1 DEF FlushOver
<1>5. [ev EXCEPT !.at = ev.at + 1].mode = "collect"
  <2>1. \A n : [ev EXCEPT !.at = n].mode = "collect"
    BY <1>1 DEF Processors
  <2> QED BY <2>1
<1>6. WriteEvent \/ WriteFails => \/ ev' = [ev EXCEPT !.at = ev.at + 1]
                                  \/ ev' = FlushOver(ev)
  BY DEF WriteEvent, WriteFails, Advanced
<1>7. CASE EventProcessor
  <2>1. Receive \/ Tick => ev'.mode = "collect"
    BY <1>1 DEF Receive, Tick, Processors
  <2>2. WriteEvent \/ WriteFails => ev'.mode = "collect"
    BY <1>4, <1>5, <1>6
  <2>3. ev'.mode = "collect"
    BY <1>2, <1>7, <2>1, <2>2 DEF EventProcessor
  <2> QED BY <1>2, <1>3, <1>4, <1>6, <2>3
<1>8. CASE UNCHANGED ev
  BY <1>1, <1>2, <1>3, <1>4, <1>6, <1>8
<1>9. EventProcessor \/ UNCHANGED ev
  BY <1>2 DEF Next, Handler, Start, RecordTokens, Move, Finalize, FinalEvent, Expire, Leave,
              LookUp, Apply, Archiver, Take, Commit, Confirm, InsertFails
<1> QED BY <1>7, <1>8, <1>9

LEMMA OutcomeStep ==
  ASSUME HandOver, Next, NEW r \in Requests
  PROVE  /\ Started(r) => FinalStatus(r)' = FinalStatus(r)
         /\ ~Started(r) /\ Started(r)' => \E o \in Outcomes : Start(r, o)
<1> USE DEF HandOver
<1>1. ASSUME NEW q \in Requests, Handler(q)
      PROVE  \/ handler'[r].outcome = handler[r].outcome
             \/ ~Started(r) /\ \E o \in Outcomes : Start(r, o)
  <2>1. ASSUME NEW o \in Outcomes, Start(q, o)
        PROVE  \/ handler'[r].outcome = handler[r].outcome
               \/ ~Started(r) /\ Start(r, o)
    BY <2>1 DEF Start, TypeOK
  <2>2. CASE Called(q)
    <3>1. \A n : [handler[q] EXCEPT !.next = n].outcome = handler[q].outcome
      BY DEF TypeOK
    <3> DEFINE h == [handler[q] EXCEPT !.next = handler[q].next + 1]
    <3>2. h.outcome = handler[q].outcome
      BY <3>1
    <3>3. handler' = [handler EXCEPT ![q] = h]
      BY <2>2 DEF Called
    <3> HIDE DEF h
    <3> QED BY <3>2, <3>3 DEF TypeOK
  <2>3. CASE Move(q)
    BY <2>3 DEF Move
  <2> QED BY <1>1, <2>1, <2>2, <2>3 DEF Handler, RecordTokens, Finalize, FinalEvent
<1>2. ASSUME ~\E q \in Requests : Handler(q)
      PROVE  UNCHANGED handler
  BY <1>2 DEF Next, Archiver, Take, Commit, Confirm, InsertFails, EventProcessor, Receive, Tick,
              WriteEvent, WriteFails, Abort, SeeCancelled, LastFlush, Close, Cancel, ClosePool,
              CloseArchive, Closes, Leave, Expire, LookUp, Apply
<1>3. \/ handler'[r].outcome = handler[r].outcome
      \/ ~Started(r) /\ \E o \in Outcomes : Start(r, o)
  BY <1>1, <1>2
<1> QED BY <1>3 DEF FinalStatus, Started

\* What a step does to the row of a request ...
LEMMA WrittenForms ==
  ASSUME TypeOK, NEW e \in Events, NEW r \in Requests, e.req = r
  PROVE  /\ e.op = "start" => Written(e).c.status = Open
         /\ e.op = "start" /\ row[r].c = Empty => Written(e).c = Fresh
         /\ e.op # "start" /\ ~HasRow(r) => Written(e) = row[r]
         /\ e.op \in {"note", "tokens"} /\ HasRow(r)
              => /\ Written(e).c \in Contents /\ Written(e).c.status = row[r].c.status
                 /\ row[r].c.tokens => Written(e).c.tokens
                 /\ row[r].c.notes \subseteq Written(e).c.notes
         /\ e.op = "final" /\ HasRow(r)
              => /\ Written(e).c \in Contents /\ Written(e).c.status = e.status
                 /\ Written(e).c.notes = row[r].c.notes
<1> DEFINE c == row[r].c
<1>1. row[r] \in Rows /\ c \in Contents /\ row[r] = [c |-> row[r].c, cost |-> row[r].cost]
  BY DEF TypeOK, Rows
<1>2. ASSUME e.op = "start"
      PROVE  Written(e).c.status = Open /\ (c = Empty => Written(e).c = Fresh)
  <2>1. [row[r] EXCEPT !.c.status = Open].c = [row[r].c EXCEPT !.status = Open]
    BY <1>1
  <2>2. Written(e).c = [row[r].c EXCEPT !.status = Open]
    BY <1>2, <2>1 DEF Written
  <2>3. [row[r].c EXCEPT !.status = Open].status = Open
    BY <1>1 DEF Contents
  <2>4. [Empty EXCEPT !.status = Open] = Fresh
    BY DEF Fresh
  <2> QED BY <2>2, <2>3, <2>4
<1>3. e.op # "start" /\ ~HasRow(r) => Written(e) = row[r]
  BY DEF Written
<1>4. ASSUME e.op = "note", HasRow(r)
      PROVE  /\ Written(e).c \in Contents /\ Written(e).c.status = c.status
             /\ c.tokens => Written(e).c.tokens
             /\ c.notes \subseteq Written(e).c.notes
  <2> DEFINE n == c.notes \cup e.note
             d == [row[r].c EXCEPT !.notes = n]
  <2>1. Written(e) = [row[r] EXCEPT !.c.notes = n]
    BY <1>4 DEF Written
  <2>2. n \in SUBSET Notes /\ c.notes \subseteq n
    BY <1>1 DEF Contents, Events
  <2> HIDE DEF n
  <2>3. [row[r] EXCEPT !.c.notes = n].c = [row[r].c EXCEPT !.notes = n]
    BY <1>1 DEF Rows
  <2>4. d \in Contents /\ d.status = c.status /\ (c.tokens => d.tokens) /\ d.notes = n
    BY <1>1, <2>2 DEF Contents
  <2> HIDE DEF d
  <2>5. Written(e).c = d
    BY <2>1, <2>3 DEF d
  <2> QED BY <2>2, <2>4, <2>5
<1>5. ASSUME e.op = "tokens", HasRow(r)
      PROVE  /\ Written(e).c \in Contents /\ Written(e).c.status = c.status
             /\ c.tokens => Written(e).c.tokens
             /\ c.notes \subseteq Written(e).c.notes
  <2> DEFINE d == [row[r].c EXCEPT !.tokens = TRUE]
  <2>1. d \in Contents /\ d.status = c.status /\ d.tokens /\ d.notes = c.notes
    BY <1>1 DEF Contents
  <2>2. Written(e).c = d
    BY <1>5 DEF Written
  <2> HIDE DEF d
  <2> QED BY <2>1, <2>2
<1>6. e.op = "final" /\ HasRow(r)
        => /\ Written(e).c \in Contents
           /\ Written(e).c.status = e.status /\ Written(e).c.notes = c.notes
  <2> DEFINE d == [row[r].c EXCEPT !.status = e.status, !.tokens = e.tokens]
  <2>1. e.status \in {Open} \cup Closed /\ e.tokens \in BOOLEAN
    BY DEF Events
  <2>2. d \in Contents /\ d.status = e.status /\ d.notes = c.notes
    BY <1>1, <2>1 DEF Contents
  <2>3. e.op = "final" /\ HasRow(r) => Written(e).c = d
    BY DEF Written
  <2> HIDE DEF d
  <2> QED BY <2>2, <2>3
<1> QED BY <1>2, <1>3, <1>4, <1>5, <1>6

Inserted(r) == Commit /\ InBatch(r) /\ ~HasRow(r) /\ row'[r].c = mem[r] /\ persisted'[r]
Wrote(r, e) == /\ WriteEvent /\ e = ev.batch[ev.at] /\ ev.at \in 1..Len(ev.batch)
               /\ e.req = r /\ row'[r] = Written(e)

LEMMA RowEffects ==
  ASSUME Readable, Next, "close" \notin Faults, NEW r \in Requests
  PROVE  \/ row'[r] = row[r] /\ (persisted'[r] <=> persisted[r])
         \/ Inserted(r)
         \/ \E e \in Events : Wrote(r, e) /\ Sent(e) /\ (persisted'[r] <=> persisted[r])
<1>0. TypeOK
  BY DEF Readable, HandOver
<1>1. CASE Commit
  BY <1>1 DEF Commit, Marked, Inserted
<1>2. CASE WriteEvent
  <2> DEFINE e == ev.batch[ev.at]
  <2>1. ev.at \in 1..Len(ev.batch) /\ e \in Events /\ Sent(e)
    BY <1>0, <1>2 DEF WriteEvent, Flushing, TypeOK, Processors, Sent
  <2>2. row' = [row EXCEPT ![e.req] = Written(e)] /\ UNCHANGED persisted
    BY <1>2 DEF WriteEvent, Write
  <2>3. e.req = r => row'[r] = Written(e)
    BY <1>0, <2>2 DEF TypeOK
  <2>4. e.req # r => row'[r] = row[r]
    BY <1>0, <2>2 DEF TypeOK
  <2> HIDE DEF e
  <2>5. CASE e.req = r
    BY <1>2, <2>1, <2>2, <2>3, <2>5 DEF Wrote, e
  <2>6. CASE e.req # r
    BY <2>2, <2>4, <2>6
  <2> QED BY <2>5, <2>6
<1>3. ASSUME ~Commit, ~WriteEvent
      PROVE  UNCHANGED <<row, persisted>>
  <2>1. ~Close /\ ~Abort
    BY RunningStep
  <2> QED BY <1>3, <2>1 DEF Next, Archiver, Take, Confirm, InsertFails, EventProcessor, Receive,
                 Tick, WriteFails, SeeCancelled, LastFlush, Leave, Expire, Handler, Start,
                 RecordTokens, Move, Finalize, FinalEvent, LookUp, Apply
<1> QED BY <1>1, <1>2, <1>3

\* ... and to the copy in memory.
LEMMA MemEffects ==
  ASSUME Readable, Next, "close" \notin Faults, NEW r \in Requests
  PROVE  \/ mem'[r] = mem[r]
         \/ (\E o \in Outcomes : Start(r, o)) /\ mem'[r] = Fresh /\ place'[r] = "active"
         \/ /\ RecordTokens(r) /\ place[r] # "none" /\ ~persisted[r]
            /\ mem'[r] = [status |-> mem[r].status, tokens |-> TRUE, notes |-> mem[r].notes]
         \/ Finalize(r) /\ mem'[r] = Finalized(r)
         \/ \E u \in Updates :
              /\ Apply(u) /\ u[1] = r /\ ~persisted[r]
              /\ mem'[r] = [status |-> mem[r].status, tokens |-> mem[r].tokens,
                            notes |-> mem[r].notes \cup {u[2]}]
         \/ /\ Expire(r)
            /\ mem'[r] = [status |-> "timeout", tokens |-> mem[r].tokens, notes |-> mem[r].notes]
<1>0. TypeOK /\ mem[r] \in Contents
  BY DEF Readable, HandOver, TypeOK
<1>1. ASSUME NEW q \in Requests, NEW o \in Outcomes, Start(q, o), mem'[r] # mem[r]
      PROVE  q = r /\ mem'[r] = Fresh /\ place'[r] = "active"
  BY <1>0, <1>1 DEF Start, TypeOK
<1>2. ASSUME NEW q \in Requests, RecordTokens(q), mem'[r] # mem[r]
      PROVE  /\ q = r /\ place[r] # "none" /\ ~persisted[r]
             /\ mem'[r] = [status |-> mem[r].status, tokens |-> TRUE, notes |-> mem[r].notes]
  <2>1. q = r /\ Listed(r) /\ ~persisted[r] /\ mem'[r] = [mem[r] EXCEPT !.tokens = TRUE]
    <3>1. Listed(q) /\ ~persisted[q] /\ mem' = [mem EXCEPT ![q].tokens = TRUE]
      BY <1>2 DEF RecordTokens
    <3>2. DOMAIN mem = Requests
      BY <1>0 DEF TypeOK
    <3> QED BY <1>2, <3>1, <3>2
  <2> QED BY <1>0, <2>1 DEF Listed, Contents
<1>3. ASSUME NEW q \in Requests, Finalize(q), mem'[r] # mem[r]
      PROVE  q = r /\ mem'[r] = Finalized(r)
  BY <1>0, <1>3 DEF Finalize, TypeOK
<1>4. ASSUME NEW u \in Updates, Apply(u), mem'[r] # mem[r]
      PROVE  /\ u[1] = r /\ ~persisted[r]
             /\ mem'[r] = [status |-> mem[r].status, tokens |-> mem[r].tokens,
                           notes |-> mem[r].notes \cup {u[2]}]
  <2> DEFINE c == [mem[u[1]] EXCEPT !.notes = mem[u[1]].notes \cup {u[2]}]
  <2>1. ~persisted[u[1]] /\ mem' = [mem EXCEPT ![u[1]] = c]
    BY <1>4 DEF Apply, MayWrite
  <2>2. u[1] = r /\ mem'[r] = c
    BY <1>0, <1>4, <2>1 DEF TypeOK
  <2>3. c = [status |-> mem[r].status, tokens |-> mem[r].tokens, notes |-> mem[r].notes \cup {u[2]}]
    BY <1>0, <2>2 DEF Contents
  <2> QED BY <2>1, <2>2, <2>3
<1>5. ASSUME NEW q \in Requests, Expire(q), mem'[r] # mem[r]
      PROVE  /\ q = r
             /\ mem'[r] = [status |-> "timeout", tokens |-> mem[r].tokens, notes |-> mem[r].notes]
  <2>1. q = r /\ mem'[r] = [mem[r] EXCEPT !.status = "timeout"]
    BY <1>0, <1>5 DEF Expire, TypeOK
  <2> QED BY <1>0, <2>1 DEF Contents
<1>6. ASSUME \/ Archiver \/ EventProcessor
             \/ \E q \in Requests : Leave(q) \/ Move(q) \/ FinalEvent(q)
             \/ \E u \in Updates : LookUp(u)
      PROVE  UNCHANGED mem
  BY <1>6 DEF Archiver, Take, Commit, Confirm, InsertFails, EventProcessor, Receive, Tick, WriteEvent,
              WriteFails, Abort, SeeCancelled, LastFlush, Leave, Move, FinalEvent, LookUp
<1>7. ~Close
  BY RunningStep
<1> SUFFICES ASSUME mem'[r] # mem[r]
             PROVE  \/ (\E o \in Outcomes : Start(r, o)) /\ mem'[r] = Fresh /\ place'[r] = "active"
                    \/ /\ RecordTokens(r) /\ place[r] # "none" /\ ~persisted[r]
                       /\ mem'[r] = [status |-> mem[r].status, tokens |-> TRUE,
                                     notes |-> mem[r].notes]
                    \/ Finalize(r) /\ mem'[r] = Finalized(r)
                    \/ \E u \in Updates :
                         /\ Apply(u) /\ u[1] = r /\ ~persisted[r]
                         /\ mem'[r] = [status |-> mem[r].status, tokens |-> mem[r].tokens,
                                       notes |-> mem[r].notes \cup {u[2]}]
                    \/ /\ Expire(r)
                       /\ mem'[r] = [status |-> "timeout", tokens |-> mem[r].tokens,
                                     notes |-> mem[r].notes]
  OBVIOUS
<1>8. CASE \E u \in Updates : Apply(u)
  BY <1>4, <1>8
<1>9. CASE \E q \in Requests : Expire(q)
  BY <1>5, <1>9
<1>10. CASE \E q \in Requests : Handler(q)
  <2>1. PICK q \in Requests : Handler(q)
    BY <1>10
  <2> QED BY <1>1, <1>2, <1>3, <1>6, <2>1 DEF Handler
<1> QED BY <1>6, <1>7, <1>8, <1>9, <1>10, Zenon DEF Next

LEMMA PlaceEffects ==
  ASSUME Readable, Next, "close" \notin Faults, NEW r \in Requests
  PROVE  \/ place'[r] = place[r]
         \/ (\E o \in Outcomes : Start(r, o)) /\ mem'[r] = Fresh /\ place'[r] = "active"
         \/ Move(r) /\ place[r] = "active" /\ place'[r] = "archiving"
         \/ Expire(r) /\ place[r] = "active" /\ place'[r] = "out"
         \/ Confirm /\ place[r] = "archiving" /\ place'[r] = "out" /\ persisted[r]
<1>0. TypeOK /\ RecordOK(r)
  BY DEF Readable, HandOver
<1>1. ASSUME NEW q \in Requests, Handler(q), place'[r] # place[r]
      PROVE  \/ (\E o \in Outcomes : Start(r, o)) /\ mem'[r] = Fresh /\ place'[r] = "active"
             \/ Move(r) /\ place[r] = "active" /\ place'[r] = "archiving"
  <2>1. ASSUME NEW o \in Outcomes, Start(q, o)
        PROVE  q = r /\ mem'[r] = Fresh /\ place'[r] = "active"
    BY <1>0, <1>1, <2>1 DEF Start, TypeOK
  <2>2. CASE Move(q)
    BY <1>0, <1>1, <2>2 DEF Move, TypeOK
  <2>3. CASE RecordTokens(q) \/ Finalize(q) \/ FinalEvent(q)
    BY <1>1, <2>3 DEF RecordTokens, Finalize, FinalEvent
  <2> QED BY <1>1, <2>1, <2>2, <2>3 DEF Handler
<1>2. ASSUME NEW q \in Requests, Expire(q), place'[r] # place[r]
      PROVE  Expire(r) /\ place[r] = "active" /\ place'[r] = "out"
  BY <1>0, <1>2 DEF Expire, Removed, TypeOK
<1>3. ASSUME Confirm, place'[r] # place[r]
      PROVE  place[r] = "archiving" /\ place'[r] = "out" /\ persisted[r]
  BY <1>0, <1>3 DEF Confirm, RecordOK
<1>4. ASSUME \/ Take \/ Commit \/ InsertFails \/ EventProcessor
             \/ \E q \in Requests : Leave(q)
             \/ \E u \in Updates : LookUp(u) \/ Apply(u)
      PROVE  UNCHANGED place
  BY <1>4 DEF Take, Commit, InsertFails, EventProcessor, Receive, Tick, WriteEvent, WriteFails, Abort,
              SeeCancelled, LastFlush, Leave, LookUp, Apply
<1>5. ~Close
  BY RunningStep
<1>6. CASE \E q \in Requests : Handler(q)
  <2>1. PICK q \in Requests : Handler(q)
    BY <1>6
  <2> QED BY <1>1, <2>1
<1>7. CASE \E q \in Requests : Expire(q)
  <2>1. PICK q \in Requests : Expire(q)
    BY <1>7
  <2> QED BY <1>2, <2>1
<1>8. CASE Confirm
  BY <1>3, <1>8
<1> QED BY <1>4, <1>5, <1>6, <1>7, <1>8, Zenon DEF Next, Archiver

\* A handler's final status, and what follows from a step of a request's own.
LEMMA OwnSteps ==
  ASSUME Readable, Next, "close" \notin Faults, NEW r \in Requests
  PROVE  /\ Finalize(r) => /\ Finalized(r).status = FinalStatus(r)
                           /\ Finalized(r).status \in Closed
                           /\ Started(r) /\ place[r] = "archiving" /\ mem[r].status = Open
         /\ RecordTokens(r) => Started(r)
         /\ \A u \in Updates : Apply(u) /\ u[1] = r => Started(r)
         /\ Expire(r) => Started(r) /\ place[r] = "active" /\ mem[r].status = Open
         /\ \A o \in Outcomes : Start(r, o) => /\ ~Started(r) /\ Started(r)' /\ place[r] = "none"
                                               /\ ~HasRow(r) /\ ~persisted[r] /\ UNCHANGED row
                                               /\ mem[r].status = "none"
<1>0. TypeOK /\ RecordOK(r) /\ StatusOK(r) /\ \A u \in Updates : UpdateOK(u)
  BY DEF Readable, HandOver
<1>1. Finalize(r) => /\ Finalized(r).status = FinalStatus(r)
                     /\ Finalized(r).status \in Closed
                     /\ Started(r) /\ place[r] = "archiving" /\ mem[r].status = Open
  <2> SUFFICES ASSUME Finalize(r)
               PROVE  /\ Finalized(r).status = FinalStatus(r)
                      /\ Finalized(r).status \in Closed
                      /\ Started(r) /\ place[r] = "archiving" /\ mem[r].status = Open
    OBVIOUS
  <2>1. handler[r].outcome \in Outcomes \cup {"none"} /\ handler[r].next \in Nat \ {0}
    BY <1>0 DEF TypeOK
  <2>2. NextCall(r).status = FinalStatus(r) /\ NextCall(r).status \in Closed
    BY <2>1, CallsOfHandler DEF Finalize, Finishing
  <2> QED BY <2>2 DEF Finalize, Finishing, InFinalizer, Finalized
<1>2. RecordTokens(r) => Started(r)
  BY DEF RecordTokens
<1>3. \A u \in Updates : Apply(u) /\ u[1] = r => Started(r)
  BY <1>0 DEF Apply, UpdateOK
<1>4. Expire(r) => Started(r) /\ place[r] = "active" /\ mem[r].status = Open
  BY <1>0 DEF Expire, RecordOK
<1>5. ASSUME NEW o \in Outcomes, Start(r, o)
      PROVE  /\ ~Started(r) /\ Started(r)' /\ place[r] = "none"
             /\ ~HasRow(r) /\ ~persisted[r] /\ UNCHANGED row
             /\ mem[r].status = "none"
  <2>1. o # "none"
    BY TrackingAssumption
  <2>2. Started(r)'
    BY <1>0, <1>5, <2>1 DEF Start, Started, TypeOK
  <2> QED BY <1>0, <1>5, <2>2 DEF Start, RecordOK, StatusOK
<1> QED BY <1>1, <1>2, <1>3, <1>4, <1>5

LEMMA StatusStep ==
  ASSUME Readable, Next, "close" \notin Faults, NEW r \in Requests
  PROVE  StatusOK(r)'
<1>0. /\ TypeOK /\ HandOver /\ RecordOK(r) /\ StatusOK(r) /\ Stays(r)
      /\ \A e \in Events : Sent(e) => EventOK(e)
  BY NextStays DEF Readable, HandOver
<1>1. CASE ~Started(r)'
  <2>1. ~Started(r)
    BY <1>0, <1>1 DEF Stays
  <2>2. mem'[r] = mem[r]
    BY <1>1, <2>1, MemEffects, OwnSteps
  <2>3. row'[r] = row[r]
    <3>1. ~Inserted(r)
      BY <1>0, <2>1 DEF Inserted, RecordOK, Archived
    <3>2. ASSUME NEW e \in Events, Wrote(r, e), Sent(e)
          PROVE  row'[r] = row[r]
      <4>1. e.op # "start" /\ e.req = r /\ ~HasRow(r)
        BY <1>0, <2>1, <3>2 DEF EventOK, Wrote, StatusOK
      <4> QED BY <1>0, <3>2, <4>1, WrittenForms DEF Wrote
    <3> QED BY <3>1, <3>2, RowEffects
  <2> QED BY <1>0, <1>1, <2>1, <2>2, <2>3 DEF StatusOK, HasRow
<1>2. CASE Started(r)' /\ ~Started(r)
  <2>1. PICK o \in Outcomes : Start(r, o)
    BY <1>0, <1>2, OutcomeStep
  <2>3. mem'[r] = mem[r] \/ mem'[r] = Fresh
    BY <1>2, MemEffects, OwnSteps
  <2>4. mem[r].status = "none" /\ ~HasRow(r) /\ row'[r] = row[r]
    BY <2>1, OwnSteps
  <2>2. mem'[r].status \in {"none", Open} /\ row'[r].c.status = "none"
    BY <2>3, <2>4, FreshType DEF HasRow
  <2> QED BY <1>2, <2>2 DEF StatusOK
<1>3. CASE Started(r)' /\ Started(r)
  <2>1. FinalStatus(r)' = FinalStatus(r)
    BY <1>0, <1>3, OutcomeStep
  <2>2. mem'[r].status \in {"none", Open, "timeout", FinalStatus(r)}
    <3>1. mem'[r].status \in {mem[r].status, "timeout", FinalStatus(r)}
      <4>1. ~\E o \in Outcomes : Start(r, o)
        BY <1>3, OwnSteps
      <4>2. Finalize(r) => Finalized(r).status = FinalStatus(r)
        BY OwnSteps
      <4>3. CASE mem'[r] = mem[r]
        BY <4>3
      <4>4. CASE mem'[r] = [status |-> mem[r].status, tokens |-> TRUE, notes |-> mem[r].notes]
        BY <4>4
      <4>5. CASE Finalize(r) /\ mem'[r] = Finalized(r)
        BY <4>2, <4>5
      <4>6. CASE mem'[r] = [status |-> "timeout", tokens |-> mem[r].tokens, notes |-> mem[r].notes]
        BY <4>6
      <4>7. ASSUME NEW u \in Updates,
                   mem'[r] = [status |-> mem[r].status, tokens |-> mem[r].tokens,
                              notes |-> mem[r].notes \cup {u[2]}]
            PROVE  mem'[r].status \in {mem[r].status, "timeout", FinalStatus(r)}
        BY <4>7
      <4> QED BY <4>1, <4>3, <4>4, <4>5, <4>6, <4>7, MemEffects
    <3> QED BY <1>0, <1>3, <3>1 DEF StatusOK
  <2>3. row'[r].c.status \in {"none", Open, "timeout", FinalStatus(r)}
    <3>1. CASE row'[r] = row[r]
      BY <1>0, <1>3, <3>1 DEF StatusOK
    <3>2. CASE Inserted(r)
      BY <1>0, <1>3, <3>2 DEF StatusOK, Inserted
    <3>3. ASSUME NEW e \in Events, Wrote(r, e), Sent(e)
          PROVE  row'[r].c.status \in {"none", Open, "timeout", FinalStatus(r)}
      <4>1. e.req = r /\ row'[r] = Written(e) /\ EventOK(e)
        BY <1>0, <3>3 DEF Wrote
      <4>2. Written(e).c.status \in {Open, row[r].c.status, FinalStatus(r)}
        <5>1. e.op \in {"start", "note", "tokens", "final"}
          BY DEF Events
        <5>2. CASE e.op # "start" /\ ~HasRow(r)
          BY <1>0, <4>1, <5>2, WrittenForms
        <5>3. CASE e.op = "start"
          BY <1>0, <4>1, <5>3, WrittenForms
        <5>4. CASE e.op \in {"note", "tokens"} /\ HasRow(r)
          BY <1>0, <4>1, <5>4, WrittenForms
        <5>5. CASE e.op = "final" /\ HasRow(r)
          BY <1>0, <4>1, <5>5, WrittenForms DEF EventOK
        <5> QED BY <5>1, <5>2, <5>3, <5>4, <5>5
      <4> QED BY <1>0, <1>3, <4>1, <4>2 DEF StatusOK
    <3> QED BY <3>1, <3>2, <3>3, RowEffects
  <2> QED BY <1>3, <2>1, <2>2, <2>3 DEF StatusOK
<1> QED BY <1>1, <1>2, <1>3

LEMMA ArchivedEffects ==
  ASSUME Readable, Next, "close" \notin Faults, NEW r \in Requests, Archived(r)'
  PROVE  Archived(r) \/ Finalize(r) \/ Expire(r)
<1>0. TypeOK /\ ~Close
  BY RunningStep DEF Readable, HandOver
<1>1. ASSUME NEW q \in Requests, Finalize(q)
      PROVE  Archived(r) \/ Finalize(r)
  <2>1. InChan(r)' => InChan(r) \/ r = q
    BY <1>0, <1>1 DEF Finalize, SendToArchive, InChan, TypeOK
  <2> QED BY <1>1, <2>1 DEF Finalize, Archived, InBatch
<1>2. ASSUME NEW q \in Requests, Expire(q)
      PROVE  Archived(r) \/ Expire(r)
  BY <1>2 DEF Expire, Archived, InChan, InBatch
<1>3. CASE Confirm \/ InsertFails
  <2>1. arch'.batch \in {arch.batch, <<>>} /\ UNCHANGED <<leaving, archiveChan>>
    BY <1>0, <1>3 DEF Confirm, InsertFails, TypeOK, Batches
  <2> QED BY <2>1 DEF Archived, InChan, InBatch
<1>4. CASE Commit
  <2>1. arch'.batch = arch.batch /\ UNCHANGED <<leaving, archiveChan>>
    BY <1>0, <1>4 DEF Commit, TypeOK, Batches
  <2> QED BY <2>1 DEF Archived, InChan, InBatch
<1>5. CASE Take \/ \E q \in Requests : Leave(q)
  BY <1>0, <1>5, ArchivedMoves
<1>6. CASE UNCHANGED <<leaving, archiveChan, arch>>
  BY <1>6 DEF Archived, InChan, InBatch
<1>7. \/ EventProcessor
      \/ \E q \in Requests : \/ \E o \in Outcomes : Start(q, o)
                             \/ RecordTokens(q) \/ Move(q) \/ FinalEvent(q)
      \/ \E u \in Updates : LookUp(u) \/ Apply(u)
      => UNCHANGED <<leaving, archiveChan, arch>>
  BY DEF EventProcessor, Receive, Tick, WriteEvent, WriteFails, Abort, SeeCancelled, LastFlush,
         Start, RecordTokens, Move, FinalEvent, LookUp, Apply
<1> QED BY <1>0, <1>1, <1>2, <1>3, <1>4, <1>5, <1>6, <1>7, Zenon DEF Next, Handler, Archiver

LEMMA CopyStep ==
  ASSUME Readable, Next, "close" \notin Faults, NEW r \in Requests
  PROVE  CopyOK(r)'
<1>0. /\ TypeOK /\ HandOver /\ RecordOK(r) /\ StatusOK(r) /\ CopyOK(r) /\ Stays(r)
      /\ \A e \in Events : Sent(e) => EventOK(e)
  BY NextStays DEF Readable, HandOver
<1>1. ASSUME ~HasRow(r)
      PROVE  \/ row'[r] = row[r] \/ HasRow(r)'
  <2>1. Inserted(r) => HasRow(r)'
    BY <1>0 DEF Inserted, RecordOK, Archived, HasRow, Closed
  <2>2. ASSUME NEW e \in Events, Wrote(r, e)
        PROVE  row'[r] = row[r] \/ HasRow(r)'
    <3>1. e.op = "start" => row'[r].c.status = Open
      BY <1>0, <2>2, WrittenForms DEF Wrote
    <3>2. e.op # "start" => row'[r] = row[r]
      BY <1>0, <1>1, <2>2, WrittenForms DEF Wrote
    <3> QED BY <3>1, <3>2 DEF HasRow, Open
  <2> QED BY <2>1, <2>2, RowEffects
<1>2. (~HasRow(r) => row[r].c = Empty)'
  BY <1>0, <1>1 DEF CopyOK, Stays
<1>3. (place[r] # "none" => mem[r].status # "none")'
  <2>1. Fresh.status = Open /\ (Finalize(r) => Finalized(r).status \in Closed)
    BY FreshType, OwnSteps
  <2>2. mem'[r].status # "none" \/ mem'[r].status = mem[r].status
    <3>1. CASE mem'[r] = mem[r] \/ mem'[r] = Fresh \/ (Finalize(r) /\ mem'[r] = Finalized(r))
      BY <2>1, <3>1 DEF Open, Closed
    <3>2. CASE mem'[r] = [status |-> mem[r].status, tokens |-> TRUE, notes |-> mem[r].notes]
      BY <3>2
    <3>3. CASE mem'[r] = [status |-> "timeout", tokens |-> mem[r].tokens, notes |-> mem[r].notes]
      BY <3>3
    <3>4. ASSUME NEW u \in Updates,
                 mem'[r] = [status |-> mem[r].status, tokens |-> mem[r].tokens,
                            notes |-> mem[r].notes \cup {u[2]}]
          PROVE  mem'[r].status = mem[r].status
      BY <3>4
    <3> QED BY <3>1, <3>2, <3>3, <3>4, MemEffects
  <2>3. place'[r] # "none" => place[r] # "none" \/ mem'[r] = Fresh
    BY PlaceEffects
  <2> QED BY <1>0, <2>1, <2>2, <2>3 DEF CopyOK, Open
<1>4. (place[r] = "active" => ~persisted[r])'
  <2>1. place'[r] = "active" => ~persisted[r] /\ ~Inserted(r)
    <3>1. Inserted(r) => place'[r] = place[r] /\ place[r] # "active" /\ Started(r)
      BY <1>0 DEF Inserted, Commit, CopyOK, Archived, RecordOK
    <3>2. place'[r] = "active" => place[r] = "active" \/ \E o \in Outcomes : Start(r, o)
      BY PlaceEffects
    <3> QED BY <1>0, <3>1, <3>2, OwnSteps DEF CopyOK
  <2> QED BY <2>1, RowEffects
<1>5. (place[r] # "none" /\ ~persisted[r] => ~HasRow(r))'
  <2> SUFFICES ASSUME place'[r] # "none", ~persisted'[r]
               PROVE  ~HasRow(r)'
    OBVIOUS
  <2>1. ~Inserted(r)
    BY DEF Inserted
  <2>2. ~persisted[r]
    BY <2>1, RowEffects
  <2>3. CASE \E o \in Outcomes : Start(r, o)
    BY <2>3, OwnSteps DEF HasRow
  <2>4. CASE place[r] # "none"
    <3>1. ~HasRow(r)
      BY <1>0, <2>2, <2>4 DEF CopyOK
    <3>2. ASSUME NEW e \in Events, Wrote(r, e), Sent(e)
          PROVE  row'[r] = row[r]
      <4>1. e.op # "start"
        BY <1>0, <2>4, <3>2 DEF EventOK, Wrote
      <4> QED BY <1>0, <3>1, <3>2, <4>1, WrittenForms DEF Wrote
    <3>3. row'[r] = row[r]
      BY <2>1, <3>2, RowEffects
    <3> QED BY <3>1, <3>3 DEF HasRow
  <2> QED BY <2>3, <2>4, PlaceEffects
<1>6. (Archived(r) => place[r] \in {"archiving", "out"})'
  <2> SUFFICES ASSUME Archived(r)'
               PROVE  place'[r] \in {"archiving", "out"}
    OBVIOUS
  <2>1. CASE Archived(r)
    <3>1. place[r] \in {"archiving", "out"}
      BY <1>0, <2>1 DEF CopyOK
    <3> QED BY <3>1, PlaceEffects, OwnSteps
  <2>2. CASE Finalize(r)
    BY <2>2, OwnSteps DEF Finalize
  <2>3. CASE Expire(r)
    BY <1>0, <2>3 DEF Expire, Removed, TypeOK
  <2> QED BY <2>1, <2>2, <2>3, ArchivedEffects
<1> QED BY <1>2, <1>3, <1>4, <1>5, <1>6 DEF CopyOK

\* Every queued event is one of three kinds; an INSERT is queued by the start of
\* a request that the pool does not take.
Queues(x) ==
  \/ \E q \in Requests, o \in Outcomes :
       Start(q, o) /\ x = StartEvent(q) /\ UNCHANGED place
  \/ \E q \in Requests :
       /\ RecordTokens(q) \/ FinalEvent(q)
       /\ x = EventOf(q, NextCall(q)) /\ NextCall(q).op \in {"tokens", "final"}
       /\ NextCall(q).op = "final" => NextCall(q).status = FinalStatus(q)
  \/ \E u \in Updates : (LookUp(u) \/ Apply(u)) /\ x = NoteEvent(u)

LEMMA QueueEffects ==
  ASSUME Readable, Next, "close" \notin Faults
  PROVE  \/ UNCHANGED <<eventChan, ev>>
         \/ EventProcessor
         \/ \E x \in Events : Queues(x) /\ Queue(x) /\ UNCHANGED <<ev, row>>
<1>0. TypeOK /\ ~Close
  BY RunningStep DEF Readable, HandOver
<1>1. ASSUME NEW q \in Requests, Handler(q)
      PROVE  \/ UNCHANGED <<eventChan, ev>>
             \/ \E x \in Events : Queues(x) /\ Queue(x) /\ UNCHANGED <<ev, row>>
  <2>1. handler[q].outcome \in Outcomes \cup {"none"} /\ handler[q].next \in Nat \ {0}
    BY <1>0 DEF TypeOK
  <2>2. ASSUME NEW o \in Outcomes, Start(q, o), eventChan' # eventChan
        PROVE  Queues(StartEvent(q)) /\ Queue(StartEvent(q)) /\ UNCHANGED <<ev, row>>
    BY <2>2 DEF Start, Queues
  <2>3. ASSUME RecordTokens(q) \/ FinalEvent(q), eventChan' # eventChan
        PROVE  /\ EventOf(q, NextCall(q)) \in Events /\ Queues(EventOf(q, NextCall(q)))
               /\ Queue(EventOf(q, NextCall(q))) /\ UNCHANGED <<ev, row>>
    <3>1. CallsLeft(q) /\ NextCall(q).op \in {"tokens", "final"}
      BY <2>3 DEF RecordTokens, FinalEvent, Finishing
    <3>2. /\ EventOf(q, NextCall(q)) \in Events
          /\ NextCall(q).op = "final" => NextCall(q).status = FinalStatus(q)
      BY <2>1, <3>1, CallsOfHandler
    <3>3. Queues(EventOf(q, NextCall(q)))
      BY <2>3, <3>1, <3>2 DEF Queues
    <3> QED BY <2>3, <3>2, <3>3 DEF RecordTokens, FinalEvent
  <2>4. CASE Move(q) \/ Finalize(q)
    BY <2>4 DEF Move, Finalize
  <2>5. \A o \in Outcomes : Start(q, o) => UNCHANGED ev
    BY DEF Start
  <2>6. RecordTokens(q) \/ FinalEvent(q) => UNCHANGED ev
    BY DEF RecordTokens, FinalEvent
  <2>7. StartEvent(q) \in Events
    BY EventTypes
  <2> QED BY <1>1, <2>2, <2>3, <2>4, <2>5, <2>6, <2>7 DEF Handler
<1>2. ASSUME NEW u \in Updates, LookUp(u) \/ Apply(u)
      PROVE  \/ UNCHANGED <<eventChan, ev>>
             \/ \E x \in Events : Queues(x) /\ Queue(x) /\ UNCHANGED <<ev, row>>
  <2>1. NoteEvent(u) \in Events /\ Queues(NoteEvent(u))
    BY <1>2, EventTypes DEF Queues
  <2> QED BY <1>2, <2>1 DEF LookUp, Apply
<1>3. Archiver \/ (\E q \in Requests : Expire(q) \/ Leave(q)) => UNCHANGED <<eventChan, ev>>
  BY DEF Archiver, Take, Commit, Confirm, InsertFails, Expire, Leave
<1> QED BY <1>0, <1>1, <1>2, <1>3, Zenon DEF Next

LEMMA EventStep ==
  ASSUME Readable, Next, "close" \notin Faults, NEW e \in Events, Sent(e)'
  PROVE  EventOK(e)'
<1> DEFINE r == e.req
<1>0. /\ TypeOK /\ HandOver /\ r \in Requests /\ RecordOK(r) /\ Stays(r)
      /\ \A d \in Events : Sent(d) => EventOK(d)
      /\ Started(r) => FinalStatus(r)' = FinalStatus(r)
  <2>1. r \in Requests
    BY DEF Events
  <2> QED BY <2>1, NextStays, OutcomeStep DEF Readable, HandOver
<1>1. CASE Sent(e)
  <2>1. EventOK(e)
    BY <1>0, <1>1
  <2> QED BY <1>0, <2>1 DEF EventOK, Stays
<1>2. ASSUME Queues(e)
      PROVE  EventOK(e)'
  <2>1. ASSUME NEW q \in Requests, NEW o \in Outcomes, Start(q, o), e = StartEvent(q), UNCHANGED place
        PROVE  EventOK(e)'
    <3>1. r = q /\ e.op = "start"
      BY <2>1 DEF StartEvent
    <3>2. Started(r)' /\ place'[r] = "none"
      BY <2>1, <3>1, OwnSteps
    <3> QED BY <3>1, <3>2 DEF EventOK
  <2>2. ASSUME NEW q \in Requests, RecordTokens(q) \/ FinalEvent(q), e = EventOf(q, NextCall(q)),
               NextCall(q).op \in {"tokens", "final"},
               NextCall(q).op = "final" => NextCall(q).status = FinalStatus(q)
        PROVE  EventOK(e)'
    <3>1. r = q /\ e.op \in {"tokens", "final"} /\ (e.op = "final" => e.status = FinalStatus(r))
      BY <2>2 DEF EventOf
    <3>2. Started(r)
      BY <2>2, <3>1 DEF RecordTokens, FinalEvent, Finishing
    <3> QED BY <1>0, <3>1, <3>2 DEF EventOK, Stays
  <2>3. ASSUME NEW u \in Updates, e = NoteEvent(u)
        PROVE  EventOK(e)'
    BY <2>3 DEF EventOK, NoteEvent
  <2> QED BY <1>2, <2>1, <2>2, <2>3 DEF Queues
<1>3. CASE UNCHANGED <<eventChan, ev>>
  <2>1. Sent(e)
    BY <1>3 DEF Sent
  <2> QED BY <1>1, <2>1
<1>4. CASE EventProcessor
  <2>1. Sent(e)
    BY <1>0, <1>4, SentByProcessor
  <2> QED BY <1>1, <2>1
<1>5. ASSUME NEW x \in Events, Queues(x), Queue(x), UNCHANGED ev
      PROVE  EventOK(e)'
  <2>1. Sent(e) \/ e = x
    BY <1>0, <1>5, SentByQueue
  <2> QED BY <1>1, <1>2, <1>5, <2>1
<1> QED BY <1>3, <1>4, <1>5, QueueEffects

\* An INSERT is queued at the end, when the request has neither a row nor
\* another INSERT queued.
LEMMA OnceQueue ==
  ASSUME Readable, Next, "close" \notin Faults, NEW x \in Events, Queues(x), Queue(x),
         UNCHANGED <<ev, row>>, NEW r \in Requests
  PROVE  StartsOnce(r)'
<1>0. /\ TypeOK /\ StartsOnce(r) /\ RecordOK(r)
      /\ \A e \in Events : Sent(e) => EventOK(e)
  BY DEF Readable, HandOver
<1>1. IsStart(x, r) => ~HasRow(r) /\ \A e \in Events : Sent(e) => ~IsStart(e, r)
  <2> SUFFICES ASSUME IsStart(x, r)
               PROVE  ~HasRow(r) /\ \A e \in Events : Sent(e) => ~IsStart(e, r)
    OBVIOUS
  <2>1. PICK q \in Requests, o \in Outcomes : Start(q, o) /\ x = StartEvent(q)
    BY DEF Queues, IsStart, EventOf, NoteEvent
  <2>2. q = r
    BY <2>1 DEF IsStart, StartEvent
  <2>3. ~HasRow(r) /\ ~Started(r)
    BY <2>1, <2>2, OwnSteps
  <2> QED BY <1>0, <2>3 DEF EventOK, IsStart
<1>2. CASE UNCHANGED eventChan
  BY <1>0, <1>2 DEF StartsOnce, Waiting, HasRow
<1>3. CASE eventChan' = Append(eventChan, x)
  <2> DEFINE n == Len(eventChan)
  <2>1. /\ eventChan \in Seq(Events) /\ n \in Nat /\ Len(eventChan') = n + 1
        /\ \A i \in 1..n : eventChan'[i] = eventChan[i]
        /\ eventChan'[n + 1] = x
    BY <1>0, <1>3 DEF TypeOK
  <2>2. \A i \in 1..Len(eventChan') : i \in 1..n \/ i = n + 1
    BY <2>1
  <2>3. ev \in Processors /\ ev.batch \in Seq(Events)
    BY <1>0 DEF TypeOK, Processors
  <2>4. \A i \in 1..n : IsStart(x, r) => ~IsStart(eventChan[i], r)
    BY <1>1, <2>1 DEF Sent
  <2>5. \A i \in 1..Len(ev.batch) : IsStart(x, r) => ~IsStart(ev.batch[i], r)
    BY <1>1, <2>3 DEF Sent
  <2> HIDE DEF n
  <2>6. \A i, j \in 1..Len(eventChan') :
          IsStart(eventChan'[i], r) /\ IsStart(eventChan'[j], r) => i = j
    <3> SUFFICES ASSUME NEW i \in 1..Len(eventChan'), NEW j \in 1..Len(eventChan'),
                        IsStart(eventChan'[i], r), IsStart(eventChan'[j], r)
                 PROVE  i = j
      OBVIOUS
    <3>1. CASE i \in 1..n /\ j \in 1..n
      BY <1>0, <2>1, <3>1 DEF StartsOnce, n
    <3>2. CASE i = n + 1 \/ j = n + 1
      BY <2>1, <2>2, <2>4, <3>2
    <3> QED BY <2>2, <3>1, <3>2
  <2>7. \A i \in 1..Len(eventChan'), j \in 1..Len(ev.batch) :
          Waiting(j) => ~(IsStart(eventChan'[i], r) /\ IsStart(ev.batch[j], r))
    <3> SUFFICES ASSUME NEW i \in 1..Len(eventChan'), NEW j \in 1..Len(ev.batch), Waiting(j),
                        IsStart(eventChan'[i], r), IsStart(ev.batch[j], r)
                 PROVE  FALSE
      OBVIOUS
    <3>1. CASE i \in 1..n
      BY <1>0, <2>1, <3>1 DEF StartsOnce, n
    <3>2. CASE i = n + 1
      BY <2>1, <2>5, <3>2
    <3> QED BY <2>2, <3>1, <3>2
  <2>8. \A i \in 1..Len(eventChan') : IsStart(eventChan'[i], r) => ~HasRow(r)
    BY <1>0, <1>1, <2>1, <2>2 DEF StartsOnce, n
  <2>9. (\A i : Waiting(i)' <=> Waiting(i)) /\ (HasRow(r)' <=> HasRow(r))
    BY DEF Waiting, HasRow
  <2> QED BY <1>0, <2>6, <2>7, <2>8, <2>9 DEF StartsOnce
<1> QED BY <1>2, <1>3 DEF Queue

LEMMA OnceProcessor ==
  ASSUME Readable, Next, "close" \notin Faults, EventProcessor, NEW r \in Requests
  PROVE  StartsOnce(r)'
<1>0. /\ TypeOK /\ StartsOnce(r) /\ ev \in Processors /\ ev.batch \in Seq(Events)
      /\ ev.at \in Nat /\ Len(ev.batch) \in Nat /\ eventChan \in Seq(Events)
  BY DEF Readable, HandOver, TypeOK, Processors
<1>1. CASE Receive
  <2> DEFINE b == Append(ev.batch, Head(eventChan))
             m == Len(ev.batch)
  <2>1. ev'.batch = b /\ eventChan' = Tail(eventChan) /\ eventChan # <<>> /\ ev.at = 0
        /\ UNCHANGED row
    BY <1>0, <1>1 DEF Receive, Processors
  <2>2. /\ Len(b) = m + 1 /\ b[m + 1] = eventChan[1] /\ 1 \in 1..Len(eventChan)
        /\ \A i \in 1..m : b[i] = ev.batch[i] /\ Waiting(i)
    BY <1>0, <2>1 DEF Waiting
  <2>3. \A i \in 1..Len(b) : i \in 1..m \/ i = m + 1
    BY <1>0, <2>2
  <2>4. \A i \in 1..Len(eventChan') : i + 1 \in 1..Len(eventChan) /\ i + 1 # 1
                                      /\ eventChan'[i] = eventChan[i + 1]
    BY <1>0, <2>1
  <2>5. HasRow(r)' <=> HasRow(r)
    BY <2>1 DEF HasRow
  <2> HIDE DEF b
  <2>6. \A i, j \in 1..Len(eventChan') :
          IsStart(eventChan'[i], r) /\ IsStart(eventChan'[j], r) => i = j
    <3> SUFFICES ASSUME NEW i \in 1..Len(eventChan'), NEW j \in 1..Len(eventChan'),
                        IsStart(eventChan'[i], r), IsStart(eventChan'[j], r)
                 PROVE  i = j
      OBVIOUS
    <3>1. i + 1 = j + 1
      BY <1>0, <2>4 DEF StartsOnce
    <3> QED BY <3>1
  <2>7. \A i, j \in 1..Len(b) : IsStart(b[i], r) /\ IsStart(b[j], r) => i = j
    <3> SUFFICES ASSUME NEW i \in 1..Len(b), NEW j \in 1..Len(b),
                        IsStart(b[i], r), IsStart(b[j], r)
                 PROVE  i = j
      OBVIOUS
    <3>1. CASE i \in 1..m /\ j \in 1..m
      BY <1>0, <2>2, <3>1 DEF StartsOnce
    <3>2. CASE i = m + 1 /\ j = m + 1
      BY <3>2
    <3>3. CASE i \in 1..m /\ j = m + 1
      BY <1>0, <2>2, <3>3 DEF StartsOnce
    <3>4. CASE i = m + 1 /\ j \in 1..m
      BY <1>0, <2>2, <3>4 DEF StartsOnce
    <3> QED BY <2>3, <3>1, <3>2, <3>3, <3>4
  <2>8. \A i \in 1..Len(eventChan'), j \in 1..Len(b) :
          ~(IsStart(eventChan'[i], r) /\ IsStart(b[j], r))
    <3> SUFFICES ASSUME NEW i \in 1..Len(eventChan'), NEW j \in 1..Len(b),
                        IsStart(eventChan'[i], r), IsStart(b[j], r)
                 PROVE  FALSE
      OBVIOUS
    <3>1. CASE j \in 1..m
      BY <1>0, <2>2, <2>4, <3>1 DEF StartsOnce
    <3>2. CASE j = m + 1
      BY <1>0, <2>2, <2>4, <3>2 DEF StartsOnce
    <3> QED BY <2>3, <3>1, <3>2
  <2>9. \A i \in 1..Len(eventChan') : IsStart(eventChan'[i], r) => ~HasRow(r)
    BY <1>0, <2>4 DEF StartsOnce
  <2>10. \A i \in 1..Len(b) : IsStart(b[i], r) => ~HasRow(r)
    BY <1>0, <2>2, <2>3 DEF StartsOnce
  <2> QED BY <2>1, <2>5, <2>6, <2>7, <2>8, <2>9, <2>10 DEF StartsOnce
<1>2. CASE Tick
  <2>1. ev'.batch = ev.batch /\ ev.at = 0 /\ UNCHANGED <<eventChan, row>>
    BY <1>0, <1>2 DEF Tick, Processors
  <2>2. \A i \in 1..Len(ev.batch) : Waiting(i)
    BY <1>0, <2>1 DEF Waiting
  <2> QED BY <1>0, <2>1, <2>2 DEF StartsOnce, HasRow
<1>3. CASE WriteEvent \/ WriteFails
  <2>1. /\ ev.at > 0 /\ UNCHANGED eventChan
        /\ ev'.batch = <<>> \/ (ev'.batch = ev.batch /\ ev'.at = ev.at + 1)
    <3>1. \A n : [ev EXCEPT !.at = n].batch = ev.batch /\ [ev EXCEPT !.at = n].at = n
      BY <1>0 DEF Processors
    <3>2. ev' = [ev EXCEPT !.at = ev.at + 1] \/ ev'.batch = <<>>
      BY <1>3, RunningStep
    <3> QED BY <1>3, <3>1, <3>2 DEF WriteEvent, WriteFails, Flushing
  <2>2. \A i \in 1..Len(ev'.batch) : Waiting(i)' => /\ i \in 1..Len(ev.batch) /\ Waiting(i)
                                                    /\ i # ev.at /\ ev'.batch[i] = ev.batch[i]
    BY <1>0, <2>1 DEF Waiting
  <2>3. CASE HasRow(r)' <=> HasRow(r)
    BY <1>0, <2>1, <2>2, <2>3 DEF StartsOnce
  <2>4. CASE ~HasRow(r) /\ HasRow(r)'
    <3>1. PICK e \in Events : Wrote(r, e)
      <4>1. ~Inserted(r)
        <5>1. ev.at <= Len(ev.batch)
          BY <1>0 DEF TypeOK
        <5>2. ev.batch # <<>> /\ ev.at + 1 # ev.at
          BY <1>0, <2>1, <5>1
        <5>3. ev' # ev
          BY <2>1, <5>2
        <5> QED BY <5>3 DEF Inserted, Commit
      <4> QED BY <2>4, <4>1, RowEffects DEF HasRow
    <3>2. IsStart(ev.batch[ev.at], r) /\ ev.at \in 1..Len(ev.batch) /\ Waiting(ev.at)
      <4>1. e.op = "start"
        BY <1>0, <2>4, <3>1, WrittenForms DEF Wrote, HasRow
      <4> QED BY <1>0, <3>1, <4>1 DEF Wrote, IsStart, Waiting
    <3>3. \A i \in 1..Len(eventChan) : ~IsStart(eventChan[i], r)
      BY <1>0, <3>2 DEF StartsOnce
    <3>4. \A i \in 1..Len(ev'.batch) : Waiting(i)' => ~IsStart(ev'.batch[i], r)
      BY <1>0, <2>2, <3>2 DEF StartsOnce
    <3> QED BY <2>1, <3>3, <3>4 DEF StartsOnce
  <2>5. HasRow(r) => HasRow(r)'
    BY NextStays DEF Readable, Stays
  <2> QED BY <2>3, <2>4, <2>5
<1> QED BY <1>1, <1>2, <1>3, RunningStep DEF EventProcessor

LEMMA OnceStep ==
  ASSUME Readable, Next, "close" \notin Faults, NEW r \in Requests
  PROVE  StartsOnce(r)'
<1>0. /\ TypeOK /\ StartsOnce(r) /\ CopyOK(r)
      /\ \A e \in Events : Sent(e) => EventOK(e)
  BY DEF Readable, HandOver
<1>1. CASE UNCHANGED <<eventChan, ev>> /\ ~EventProcessor
  <2>1. CASE row'[r] = row[r]
    BY <1>0, <1>1, <2>1 DEF StartsOnce, Waiting, HasRow
  <2>2. CASE Inserted(r)
    <3>1. place[r] # "none"
      BY <1>0, <2>2 DEF Inserted, CopyOK, Archived
    <3>2. \A e \in Events : Sent(e) => ~IsStart(e, r)
      BY <1>0, <3>1 DEF EventOK, IsStart
    <3>3. eventChan \in Seq(Events) /\ ev.batch \in Seq(Events)
      BY <1>0 DEF TypeOK, Processors
    <3>4. /\ \A i \in 1..Len(eventChan) : ~IsStart(eventChan[i], r)
          /\ \A i \in 1..Len(ev.batch) : ~IsStart(ev.batch[i], r)
      BY <3>2, <3>3 DEF Sent
    <3> QED BY <1>1, <3>4 DEF StartsOnce
  <2>3. ~\E e \in Events : Wrote(r, e)
    BY <1>1 DEF Wrote, EventProcessor
  <2> QED BY <2>1, <2>2, <2>3, RowEffects
<1>2. CASE EventProcessor
  BY <1>2, OnceProcessor
<1>3. ASSUME NEW x \in Events, Queues(x), Queue(x), UNCHANGED <<ev, row>>
      PROVE  StartsOnce(r)'
  BY <1>3, OnceQueue
<1> QED BY <1>1, <1>2, <1>3, QueueEffects

LEMMA ReadableStep ==
  ASSUME "close" \notin Faults
  PROVE  Readable /\ [Next]_vars => Readable'
<1>1. ASSUME Readable, Next
      PROVE  Readable'
  <2>1. HandOver'
    BY <1>1, HandOverStep DEF Readable
  <2>2. phase' = "running" /\ ev'.mode = "collect"
    BY <1>1, RunningStep
  <2>3. \A r \in Requests : StatusOK(r)' /\ CopyOK(r)' /\ StartsOnce(r)'
    BY <1>1, StatusStep, CopyStep, OnceStep
  <2>4. \A e \in Events : Sent(e)' => EventOK(e)'
    BY <1>1, EventStep
  <2> QED BY <2>1, <2>2, <2>3, <2>4 DEF Readable
<1>2. ASSUME Readable, UNCHANGED vars
      PROVE  Readable'
  <2>1. HandOver'
    BY <1>2, HandOverStep DEF Readable
  <2> QED BY <1>2, <2>1 DEF Readable, vars, StatusOK, CopyOK, EventOK, Sent, StartsOnce, Waiting,
                            Started, HasRow, FinalStatus, Archived, InChan, InBatch
<1> QED BY <1>1, <1>2

-----------------------------------------------------------------------------
(* The refinement.                                                          *)

Rec(r) == IF place[r] # "none" /\ ~persisted[r] THEN mem[r] ELSE row[r].c
Shown(r) == (Listed(r) /\ ~persisted[r]) \/ HasRow(r)
Same(r) == Rec(r)' = Rec(r) /\ (Shown(r)' <=> Shown(r))

\* The changes of one record that RequestRecord allows.
Opened(q) == Rec(q).status = "none" /\ Rec(q)' = Fresh /\ Shown(q)'
Updated(q) == /\ Rec(q).status # "none" /\ Rec(q)' \in Contents
              /\ Rec(q)'.status = Rec(q).status
              /\ Rec(q).tokens => Rec(q)'.tokens
              /\ Rec(q).notes \subseteq Rec(q)'.notes
              /\ Shown(q)' <=> Shown(q)
ClosedNow(q) == /\ Rec(q)' \in Contents /\ Rec(q)'.status \in Closed
                /\ Rec(q).status \in {Open, "timeout", Rec(q)'.status}
                /\ Rec(q)'.notes = Rec(q).notes
                /\ Shown(q)' <=> Shown(q)
GivenUp(q) == /\ Rec(q).status = Open
              /\ Rec(q)' = [status |-> "timeout", tokens |-> Rec(q).tokens, notes |-> Rec(q).notes]
              /\ ~Shown(q)'

LEMMA Bars ==
  /\ recBar = [r \in Requests |-> Rec(r)]
  /\ shownBar = {r \in Requests : Shown(r)}
  /\ recBar' = [r \in Requests |-> Rec(r)']
  /\ shownBar' = {r \in Requests : Shown(r)'}
BY DEF recBar, shownBar, Rec, Shown

LEMMA OneRecord ==
  ASSUME NEW q \in Requests, \A r \in Requests \ {q} : Same(r),
         Same(q) \/ Opened(q) \/ Updated(q) \/ ClosedNow(q) \/ GivenUp(q)
  PROVE  [RR!Next]_(RR!vars)
<1>1. recBar' = [recBar EXCEPT ![q] = Rec(q)'] /\ recBar[q] = Rec(q)
  BY Bars DEF Same
<1>2. \A r \in Requests \ {q} : r \in shownBar' <=> r \in shownBar
  BY Bars DEF Same
<1>3. shownBar \subseteq Requests /\ shownBar' \subseteq Requests
      /\ (q \in shownBar <=> Shown(q)) /\ (q \in shownBar' <=> Shown(q)')
  BY Bars
<1>4. (Shown(q)' <=> Shown(q)) => shownBar' = shownBar
  BY <1>2, <1>3
<1>5. CASE Same(q)
  <2>1. recBar' = recBar
    BY <1>1, <1>5, Bars DEF Same
  <2> QED BY <1>4, <1>5, <2>1 DEF RR!vars, Same
<1>6. CASE Opened(q)
  <2>1. shownBar' = shownBar \cup {q}
    BY <1>2, <1>3, <1>6 DEF Opened
  <2>2. Fresh = [RR!Absent EXCEPT !.status = "open"]
    BY DEF Fresh, Empty, Open, RR!Absent
  <2>3. RR!Open(q)
    BY <1>1, <1>6, <2>1, <2>2 DEF Opened, RR!Open
  <2> QED BY <2>3 DEF RR!Next
<1>7. CASE Updated(q)
  <2>1. shownBar' = shownBar
    BY <1>4, <1>7 DEF Updated
  <2>2. Contents = RR!Contents
    BY DEF Contents, Open, Closed, RR!Contents, RR!States, RR!ClosedStates
  <2>3. RR!Update(q)
    BY <1>1, <1>7, <2>1, <2>2 DEF Updated, RR!Update
  <2> QED BY <2>3 DEF RR!Next
<1>8. CASE ClosedNow(q)
  <2>1. shownBar' = shownBar
    BY <1>4, <1>8 DEF ClosedNow
  <2>2. Rec(q)' = [status |-> Rec(q)'.status, tokens |-> Rec(q)'.tokens, notes |-> Rec(q).notes]
        /\ Rec(q)'.tokens \in BOOLEAN
    BY <1>8 DEF ClosedNow, Contents
  <2>3. Rec(q)'.status \in RR!ClosedStates /\ recBar[q].status \in {"open", "timeout", Rec(q)'.status}
    BY <1>1, <1>8 DEF ClosedNow, Closed, Open, RR!ClosedStates
  <2>4. RR!Close(q)
    BY <1>1, <2>1, <2>2, <2>3 DEF RR!Close
  <2> QED BY <2>4 DEF RR!Next
<1>9. CASE GivenUp(q)
  <2>1. shownBar' = shownBar \ {q}
    BY <1>2, <1>3, <1>9 DEF GivenUp
  <2>2. RR!GiveUp(q)
    BY <1>1, <1>9, <2>1 DEF GivenUp, RR!GiveUp, Open
  <2> QED BY <2>2 DEF RR!Next
<1> QED BY <1>5, <1>6, <1>7, <1>8, <1>9

LEMMA Unchanged ==
  ASSUME phase = "running", phase' = "running", NEW r \in Requests,
         row'[r] = row[r], mem'[r] = mem[r], place'[r] = place[r], persisted'[r] <=> persisted[r]
  PROVE  Same(r)
BY DEF Same, Rec, Shown, Listed, PoolUp, HasRow

LEMMA StepRecord ==
  ASSUME Readable, Next, "close" \notin Faults
  PROVE  [RR!Next]_(RR!vars)
<1>0. /\ TypeOK /\ phase = "running" /\ phase' = "running"
      /\ \A r \in Requests : Listed(r) <=> place[r] \in {"active", "archiving"}
      /\ \A r \in Requests : Listed(r)' <=> place'[r] \in {"active", "archiving"}
      /\ \A r \in Requests : RecordOK(r) /\ StatusOK(r) /\ CopyOK(r) /\ CopyOK(r)'
  BY RunningStep, CopyStep DEF Readable, HandOver, Listed, PoolUp
<1>1. ASSUME \A r \in Requests : Same(r)
      PROVE  [RR!Next]_(RR!vars)
  <2>1. recBar' = recBar /\ shownBar' = shownBar
    BY <1>1, Bars DEF Same
  <2> QED BY <2>1 DEF RR!vars
<1>2. CASE UNCHANGED <<row, mem, place, persisted>>
  BY <1>0, <1>1, <1>2, Unchanged
<1>3. CASE \E u \in Updates : LookUp(u)
  <2>1. UNCHANGED <<row, mem, place, persisted>>
    BY <1>3 DEF LookUp
  <2> QED BY <1>2, <2>1
<1>4. ASSUME NEW q \in Requests, Handler(q)
      PROVE  [RR!Next]_(RR!vars)
  <2>1. ASSUME NEW o \in Outcomes, Start(q, o)
        PROVE  [RR!Next]_(RR!vars)
    <3>1. \A r \in Requests \ {q} : Same(r)
      BY <1>0, <2>1, Unchanged DEF Start, TypeOK
    <3>2. ~HasRow(q) /\ ~persisted[q] /\ place[q] = "none" /\ UNCHANGED <<row, persisted>>
      BY <2>1, OwnSteps DEF Start
    <3>3. CASE place'[q] = place[q]
      <4>1. Same(q)
        BY <1>0, <3>2, <3>3 DEF Same, Rec, Shown, HasRow
      <4> QED BY <3>1, <4>1, OneRecord
    <3>4. CASE place'[q] = "active" /\ mem'[q] = Fresh
      <4>1. Opened(q)
        BY <1>0, <3>2, <3>4 DEF Opened, Rec, Shown, HasRow
      <4> QED BY <3>1, <4>1, OneRecord
    <3> QED BY <1>0, <2>1, <3>3, <3>4 DEF Start, TypeOK
  <2>2. CASE RecordTokens(q)
    <3>1. \A r \in Requests \ {q} : Same(r)
      BY <1>0, <2>2, Unchanged DEF RecordTokens, TypeOK
    <3>2. UNCHANGED <<row, place, persisted>>
      BY <2>2 DEF RecordTokens
    <3>3. CASE UNCHANGED mem
      BY <1>2, <3>2, <3>3
    <3>4. CASE Listed(q) /\ ~persisted[q] /\ mem' = [mem EXCEPT ![q].tokens = TRUE]
      <4> DEFINE c == [mem[q] EXCEPT !.tokens = TRUE]
      <4>1. mem[q] \in Contents /\ mem[q].status # "none" /\ place[q] # "none"
        BY <1>0, <3>4 DEF TypeOK, CopyOK
      <4>2. c \in Contents /\ c.status = mem[q].status /\ c.tokens /\ c.notes = mem[q].notes
        BY <4>1 DEF Contents
      <4>3. mem'[q] = c
        BY <1>0, <3>4 DEF TypeOK
      <4> HIDE DEF c
      <4>4. Rec(q) = mem[q] /\ Rec(q)' = c
        BY <3>2, <3>4, <4>1, <4>3 DEF Rec
      <4>5. Shown(q)' <=> Shown(q)
        BY <1>0, <3>2 DEF Shown, HasRow
      <4>6. Updated(q)
        BY <4>1, <4>2, <4>4, <4>5 DEF Updated
      <4> QED BY <3>1, <4>6, OneRecord
    <3> QED BY <2>2, <3>3, <3>4 DEF RecordTokens
  <2>3. CASE Move(q)
    <3>1. \A r \in Requests \ {q} : Same(r)
      BY <1>0, <2>3, Unchanged DEF Move, TypeOK
    <3>2. Same(q)
      BY <1>0, <2>3 DEF Move, Same, Rec, Shown, HasRow, TypeOK
    <3> QED BY <3>1, <3>2, OneRecord
  <2>4. CASE Finalize(q)
    <3>1. \A r \in Requests \ {q} : Same(r)
      BY <1>0, <2>4, Unchanged DEF Finalize, TypeOK
    <3>2. UNCHANGED <<row, place, persisted>> /\ mem'[q] = Finalized(q)
      BY <1>0, <2>4 DEF Finalize, TypeOK
    <3>3. Finalized(q).status \in Closed /\ place[q] = "archiving" /\ mem[q].status = Open
      BY <2>4, OwnSteps
    <3>4. Shown(q)' <=> Shown(q)
      BY <1>0, <3>2 DEF Shown, HasRow
    <3>5. CASE persisted[q]
      <4>1. Same(q)
        BY <3>2, <3>4, <3>5 DEF Same, Rec
      <4> QED BY <3>1, <4>1, OneRecord
    <3>6. CASE ~persisted[q]
      <4>1. Rec(q) = mem[q] /\ Rec(q)' = Finalized(q)
        BY <3>2, <3>3, <3>6 DEF Rec
      <4>2. Finalized(q) \in Contents /\ Finalized(q).notes = mem[q].notes
        <5>1. TypeOK'
          BY TypeStep DEF Readable, HandOver
        <5>2. mem'[q] \in Contents
          BY <5>1 DEF TypeOK
        <5> QED BY <3>2, <5>2 DEF Finalized
      <4>3. ClosedNow(q)
        BY <3>3, <3>4, <4>1, <4>2 DEF ClosedNow
      <4> QED BY <3>1, <4>3, OneRecord
    <3> QED BY <3>5, <3>6
  <2>5. CASE FinalEvent(q)
    <3>1. UNCHANGED <<row, mem, place, persisted>>
      BY <2>5 DEF FinalEvent
    <3> QED BY <1>2, <3>1
  <2> QED BY <1>4, <2>1, <2>2, <2>3, <2>4, <2>5 DEF Handler
<1>5. ASSUME NEW u \in Updates, Apply(u)
      PROVE  [RR!Next]_(RR!vars)
  <2> DEFINE q == u[1]
  <2>1. q \in Requests /\ UNCHANGED <<row, place, persisted>>
    BY <1>5, EventTypes DEF Apply
  <2>2. CASE UNCHANGED mem
    BY <1>2, <2>1, <2>2
  <2>3. CASE ~persisted[q] /\ mem' = [mem EXCEPT ![q].notes = mem[q].notes \cup {u[2]}]
    <3> DEFINE c == [mem[q] EXCEPT !.notes = mem[q].notes \cup {u[2]}]
    <3>1. mem[q] \in Contents /\ u[2] \in Notes
      BY <1>0, <2>1, EventTypes DEF TypeOK
    <3>2. /\ c \in Contents /\ c.status = mem[q].status
          /\ mem[q].tokens => c.tokens
          /\ mem[q].notes \subseteq c.notes
      <4>1. \A n \in SUBSET Notes : LET d == [mem[q] EXCEPT !.notes = n]
                                    IN  /\ d \in Contents /\ d.status = mem[q].status
                                        /\ mem[q].tokens => d.tokens
                                        /\ d.notes = n
        BY <3>1 DEF Contents
      <4>2. mem[q].notes \cup {u[2]} \in SUBSET Notes
        BY <3>1 DEF Contents
      <4> QED BY <4>1, <4>2
    <3>3. mem'[q] = c /\ \A r \in Requests \ {q} : mem'[r] = mem[r]
      BY <1>0, <2>1, <2>3 DEF TypeOK
    <3> HIDE DEF c
    <3>4. \A r \in Requests \ {q} : Same(r)
      BY <1>0, <2>1, <3>3, Unchanged
    <3>5. Shown(q)' <=> Shown(q)
      BY <1>0, <2>1 DEF Shown, HasRow
    <3>6. CASE place[q] = "none"
      <4>1. Same(q)
        BY <2>1, <3>5, <3>6 DEF Same, Rec
      <4> QED BY <2>1, <3>4, <4>1, OneRecord
    <3>7. CASE place[q] # "none"
      <4>1. Rec(q) = mem[q] /\ Rec(q)' = c /\ mem[q].status # "none"
        BY <1>0, <2>1, <2>3, <3>3, <3>7 DEF Rec, CopyOK
      <4>2. Updated(q)
        BY <3>2, <3>5, <4>1 DEF Updated
      <4> QED BY <2>1, <3>4, <4>2, OneRecord
    <3> QED BY <3>6, <3>7
  <2> QED BY <1>5, <2>2, <2>3 DEF Apply, MayWrite
<1>6. ASSUME NEW q \in Requests, Expire(q)
      PROVE  [RR!Next]_(RR!vars)
  <2>1. \A r \in Requests \ {q} : Same(r)
    BY <1>0, <1>6, Unchanged DEF Expire, Removed, TypeOK
  <2>2. /\ place[q] = "active" /\ place'[q] = "out" /\ UNCHANGED <<row, persisted>>
        /\ ~persisted[q] /\ ~HasRow(q) /\ mem[q].status = Open
    BY <1>0, <1>6 DEF Expire, Removed, TypeOK, CopyOK, RecordOK
  <2>3. mem'[q] = [status |-> "timeout", tokens |-> mem[q].tokens, notes |-> mem[q].notes]
    <3>1. \A c \in Contents : [c EXCEPT !.status = "timeout"]
                                = [status |-> "timeout", tokens |-> c.tokens, notes |-> c.notes]
      BY DEF Contents
    <3> QED BY <1>0, <1>6, <3>1 DEF Expire, TypeOK
  <2>4. Rec(q) = mem[q] /\ Rec(q)' = mem'[q] /\ ~Shown(q)'
    BY <1>0, <2>2 DEF Rec, Shown, HasRow
  <2>5. GivenUp(q)
    BY <2>2, <2>3, <2>4 DEF GivenUp
  <2> QED BY <2>1, <2>5, OneRecord
<1>7. ASSUME NEW q \in Requests, Leave(q)
      PROVE  [RR!Next]_(RR!vars)
  <2>1. UNCHANGED <<row, mem, place, persisted>>
    BY <1>7 DEF Leave
  <2> QED BY <1>2, <2>1
<1>8. CASE Archiver
  <2>1. CASE Take \/ InsertFails
    <3>1. UNCHANGED <<row, mem, place, persisted>>
      BY <2>1 DEF Take, InsertFails
    <3> QED BY <1>2, <3>1
  <2>2. CASE Confirm
    <3>1. ASSUME NEW r \in Requests
          PROVE  Same(r)
      <4>1. UNCHANGED <<row, mem, persisted>>
        BY <2>2 DEF Confirm
      <4>2. CASE place'[r] = place[r]
        BY <1>0, <4>1, <4>2, Unchanged
      <4>3. CASE place[r] = "archiving" /\ place'[r] = "out" /\ persisted[r]
        BY <1>0, <4>1, <4>3 DEF Same, Rec, Shown, HasRow
      <4> QED BY <1>0, <2>2, <4>2, <4>3 DEF Confirm, RecordOK
    <3> QED BY <1>1, <3>1
  <2>3. CASE Commit
    <3> DEFINE R == {r \in Requests : InBatch(r) /\ place[r] = "out"}
    <3>1. UNCHANGED <<mem, place>>
      BY <2>3 DEF Commit
    <3>2. ASSUME NEW r \in Requests, ~InBatch(r)
          PROVE  Same(r)
      <4>1. row'[r] = row[r] /\ (persisted'[r] <=> persisted[r])
        BY <2>3, <3>2 DEF Commit, Marked
      <4> QED BY <1>0, <3>1, <4>1, Unchanged
    <3>3. ASSUME NEW r \in Requests, InBatch(r)
          PROVE  /\ Rec(r)' = Rec(r) /\ Rec(r) = mem[r] /\ Shown(r)'
                 /\ Shown(r) <=> place[r] # "out"
                 /\ place[r] = "out" => mem[r].status = "timeout"
      <4>1. /\ ~HasRow(r) /\ row'[r].c = mem[r] /\ persisted'[r] /\ ~persisted[r]
            /\ place[r] \in {"archiving", "out"} /\ mem[r].status \in Closed
        BY <1>0, <2>3, <3>3 DEF Commit, Marked, RecordOK, CopyOK, Archived
      <4>2. HasRow(r)'
        BY <4>1 DEF HasRow, Closed
      <4>3. place[r] = "out" => mem[r].status = "timeout"
        BY <1>0, <4>1 DEF RecordOK, QueueUp
      <4> QED BY <1>0, <4>1, <4>2, <4>3 DEF Rec, Shown
    <3>4. recBar' = recBar
      BY <3>2, <3>3, Bars DEF Same
    <3>5. shownBar' = shownBar \cup R
      BY <3>2, <3>3, Bars DEF Same
    <3>6. \A r \in R : recBar[r].status = "timeout"
      BY <3>3, Bars
    <3>7. RR!Show(R)
      BY <3>4, <3>5, <3>6 DEF RR!Show
    <3>8. R \in SUBSET Requests
      OBVIOUS
    <3> QED BY <3>7, <3>8 DEF RR!Next
  <2> QED BY <1>8, <2>1, <2>2, <2>3 DEF Archiver
<1>9. CASE EventProcessor
  <2>1. CASE Receive \/ Tick \/ WriteFails
    <3>1. UNCHANGED <<row, mem, place, persisted>>
      BY <2>1 DEF Receive, Tick, WriteFails
    <3> QED BY <1>2, <3>1
  <2>2. CASE WriteEvent
    <3>0. PICK e \in Events : e = ev.batch[ev.at] /\ ev.at \in 1..Len(ev.batch) /\ Sent(e)
      BY <1>0, <2>2 DEF WriteEvent, Flushing, TypeOK, Processors, Sent
    <3>8. PICK q \in Requests : e.req = q
      BY DEF Events
    <3>1. ev.at \in 1..Len(ev.batch) /\ e \in Events /\ Sent(e) /\ q \in Requests
      BY <3>0
    <3>2. UNCHANGED <<mem, place, persisted>> /\ row' = [row EXCEPT ![q] = Written(e)]
      BY <2>2, <3>0, <3>8 DEF WriteEvent, Write
    <3>3. row'[q] = Written(e) /\ \A r \in Requests \ {q} : row'[r] = row[r]
      BY <1>0, <3>1, <3>2 DEF TypeOK
    <3>4. /\ EventOK(e) /\ StartsOnce(q)
          /\ row[q].c \in Contents /\ TypeOK'
      BY <1>0, <3>1, TypeStep DEF Readable, HandOver, TypeOK, Rows
    <3>5. Written(e).c \in Contents
      BY <3>1, <3>3, <3>4 DEF TypeOK, Rows
    <3>6. e.op = "start" => ~HasRow(q)
      BY <1>0, <3>0, <3>4, <3>8 DEF StartsOnce, Waiting, IsStart, TypeOK, Processors
    <3>7. \A r \in Requests \ {q} : Same(r)
      BY <1>0, <3>2, <3>3, Unchanged
    <3>9. CASE e.op # "start" /\ ~HasRow(q)
      <4>1. row'[q] = row[q]
        BY <1>0, <3>1, <3>3, <3>8, <3>9, WrittenForms
      <4>2. Same(q)
        BY <1>0, <3>1, <3>2, <4>1, Unchanged
      <4> QED BY <3>1, <3>7, <4>2, OneRecord
    <3>10. CASE e.op = "start"
      <4>1. ~HasRow(q) /\ row[q].c = Empty /\ place[q] = "none" /\ row'[q].c = Fresh
        BY <1>0, <3>1, <3>3, <3>4, <3>6, <3>8, <3>10, WrittenForms DEF CopyOK, EventOK
      <4>2. Rec(q).status = "none" /\ Rec(q)' = Fresh /\ HasRow(q)'
        BY <3>2, <4>1, FreshType DEF Rec, HasRow, Open
      <4>3. Opened(q)
        BY <4>2 DEF Opened, Shown
      <4> QED BY <3>1, <3>7, <4>3, OneRecord
    <3>11. CASE e.op # "start" /\ HasRow(q)
      <4>1. HasRow(q)' /\ (Shown(q)' <=> Shown(q))
        <5>1. HasRow(q)'
          BY <3>1, <3>11, NextStays DEF Stays, Readable
        <5> QED BY <3>11, <5>1 DEF Shown
      <4>2. CASE place[q] # "none" /\ ~persisted[q]
        <5>1. Same(q)
          BY <3>2, <4>1, <4>2 DEF Same, Rec
        <5> QED BY <3>1, <3>7, <5>1, OneRecord
      <4>3. CASE ~(place[q] # "none" /\ ~persisted[q])
        <5>1. Rec(q) = row[q].c /\ Rec(q)' = Written(e).c
          BY <3>2, <3>3, <4>3 DEF Rec
        <5>2. CASE e.op \in {"note", "tokens"}
          <6>1. Updated(q)
            BY <1>0, <3>1, <3>8, <3>11, <4>1, <5>1, <5>2, WrittenForms DEF Updated, HasRow
          <6> QED BY <3>1, <3>7, <6>1, OneRecord
        <5>3. CASE e.op = "final"
          <6>1. /\ Started(q) /\ e.status = FinalStatus(q)
                /\ row[q].c.status \in {Open, "timeout", FinalStatus(q)}
            BY <1>0, <3>1, <3>4, <3>8, <3>11, <5>3 DEF EventOK, StatusOK, HasRow
          <6>2. FinalStatus(q) \in Closed
            BY DEF FinalStatus, Closed
          <6>3. ClosedNow(q)
            BY <1>0, <3>1, <3>8, <3>11, <4>1, <5>1, <5>3, <6>1, <6>2, WrittenForms DEF ClosedNow
          <6> QED BY <3>1, <3>7, <6>3, OneRecord
        <5>4. e.op \in {"note", "tokens", "final"}
          BY <3>1, <3>11 DEF Events
        <5> QED BY <5>2, <5>3, <5>4
      <4> QED BY <4>2, <4>3
    <3> QED BY <3>9, <3>10, <3>11
  <2> QED BY <1>9, <2>1, <2>2, RunningStep DEF EventProcessor
<1>10. ~Close
  BY RunningStep
<1> QED BY <1>3, <1>4, <1>5, <1>6, <1>7, <1>8, <1>9, <1>10, Zenon DEF Next

\* Without a shutdown, and whatever else fails, a reader who asks the pool first
\* and the database next sees every record change only as RequestRecord says.
THEOREM Implements == ASSUME "close" \notin Faults
                      PROVE  Spec => ImplementsRecord
<1>1. Init => RR!Init
  <2> SUFFICES ASSUME Init
               PROVE  RR!Init
    OBVIOUS
  <2>1. \A r \in Requests : row[r].c = Empty /\ place[r] = "none" /\ ~HasRow(r)
    BY DEF Init, NoRow, Empty, HasRow
  <2>2. Empty = RR!Absent
    BY DEF Empty, RR!Absent
  <2>3. \A r \in Requests : Rec(r) = RR!Absent /\ ~Shown(r)
    BY <2>1, <2>2 DEF Rec, Shown, Listed
  <2> QED BY <2>3, Bars DEF RR!Init
<1>2. Readable /\ [Next]_vars => [RR!Next]_(RR!vars)
  <2>1. ASSUME Readable, UNCHANGED vars
        PROVE  [RR!Next]_(RR!vars)
    BY <2>1 DEF vars, RR!vars, recBar, shownBar, Listed, PoolUp, HasRow
  <2> QED BY <2>1, StepRecord
<1> QED BY <1>1, <1>2, ReadableInit, ReadableStep, PTL DEF Spec, ImplementsRecord, RR!Spec

-----------------------------------------------------------------------------
(* With room for every request: what has ended gets to its row.             *)

Room == Cardinality(Requests) <= PoolSize /\ Cardinality(Requests) <= BufferSize

\* The pool takes every request, and a final event closes.
EventsClose ==
  \A e \in Events : Sent(e) => e.op # "start" /\ (e.op = "final" => e.status \in Closed)

\* Where a request is, by the calls its handler has left; one that is closed in
\* memory waits for its insert or is closed in its row, unless it was closed after
\* the tracker.
Delivered(r) ==
  /\ ~Started(r) => handler[r].next = 1
  /\ phase = "running" /\ Started(r) => place[r] # "none"
  /\ place[r] = "active" => phase \in {"running", "cancelled"}
  /\ place[r] = "active" \/ InFinalizer(r) => CallsLeft(r)
  /\ place[r] = "archiving" => mem[r].status \in {Open} \cup Closed
  /\ place[r] = "out" => mem[r].status \in Closed
  /\ r \in ended => HasEnded(r) /\ place[r] # "none"
  /\ place[r] # "none" /\ mem[r].status \in Closed =>
       \/ Waits(r)
       \/ row[r].c.status \in Closed
       \/ phase = "closed" /\ r \notin ended

\* What the shutdown leaves behind.
Emptied ==
  /\ phase \in {"draining", "closed"} => leaving = {}
  /\ phase = "closed" => archiveChan = <<>> /\ arch.batch = <<>>

Delivery == OneCopy /\ EventsClose /\ Emptied /\ \A r \in Requests : Delivered(r)

\* Where a handler is in its calls.
LEMMA CallsInOrder ==
  ASSUME NEW r \in Requests, handler[r].outcome \in Outcomes, handler[r].next \in Nat \ {0}
  PROVE  /\ handler[r].next = 1 => CallsLeft(r)
         /\ CallsLeft(r) => NextCall(r).op \in {"tokens", "final"}
         /\ CallsLeft(r) /\ NextCall(r).op = "tokens" =>
              /\ handler[r].outcome = "failTokens" /\ handler[r].next = 1
              /\ Len(Calls(handler[r].outcome)) = 2
         /\ CallsLeft(r) /\ NextCall(r).op = "final" /\ handler[r].outcome # "cancelStream" =>
              /\ handler[r].next = Len(Calls(handler[r].outcome))
              /\ handler[r].outcome = "complete" => NextCall(r).tokens = TRUE
              /\ handler[r].outcome = "failTokens" => handler[r].next = 2
<1> DEFINE o == handler[r].outcome
           n == handler[r].next
<1>1. o \in {"complete", "fail", "failTokens", "cancel", "cancelStream"}
  BY TrackingAssumption
<1>2. /\ Tokens.op = "tokens"
      /\ \A s, t : Final(s, t).op = "final"
      /\ \A s : Final(s, TRUE).tokens = TRUE
  BY DEF Tokens, Final
<1>3. CASE o = "complete"
  <2>1. Calls(o) = <<Final("completed", TRUE)>>
    BY <1>3 DEF Calls
  <2>2. Len(Calls(o)) = 1 /\ Calls(o)[1] = Final("completed", TRUE)
    BY <2>1
  <2>3. CallsLeft(r) => n = 1
    BY <2>2 DEF CallsLeft
  <2>4. (n = 1 => NextCall(r) = Final("completed", TRUE))
    BY <2>2 DEF NextCall
  <2>5. n = 1 => CallsLeft(r)
    BY <2>2 DEF CallsLeft
  <2> QED BY <1>2, <1>3, <2>2, <2>3, <2>4, <2>5
<1>4. CASE o = "fail"
  <2>1. Calls(o) = <<Final("failed", FALSE)>>
    BY <1>4 DEF Calls
  <2>2. Len(Calls(o)) = 1 /\ Calls(o)[1] = Final("failed", FALSE)
    BY <2>1
  <2>3. CallsLeft(r) => n = 1
    BY <2>2 DEF CallsLeft
  <2>4. (n = 1 => NextCall(r) = Final("failed", FALSE))
    BY <2>2 DEF NextCall
  <2>5. n = 1 => CallsLeft(r)
    BY <2>2 DEF CallsLeft
  <2> QED BY <1>2, <1>4, <2>2, <2>3, <2>4, <2>5
<1>5. CASE o = "failTokens"
  <2>1. Calls(o) = <<Tokens, Final("failed", FALSE)>>
    BY <1>5 DEF Calls
  <2>2. Len(Calls(o)) = 2 /\ Calls(o)[1] = Tokens /\ Calls(o)[2] = Final("failed", FALSE)
    BY <2>1
  <2>3. CallsLeft(r) => n = 1 \/ n = 2
    BY <2>2 DEF CallsLeft
  <2>4. (n = 1 => NextCall(r) = Tokens) /\ (n = 2 => NextCall(r) = Final("failed", FALSE))
    BY <2>2 DEF NextCall
  <2>5. n = 1 => CallsLeft(r)
    BY <2>2 DEF CallsLeft
  <2> QED BY <1>2, <1>5, <2>2, <2>3, <2>4, <2>5
<1>6. CASE o = "cancel"
  <2>1. Calls(o) = <<Final("cancelled", FALSE)>>
    BY <1>6 DEF Calls
  <2>2. Len(Calls(o)) = 1 /\ Calls(o)[1] = Final("cancelled", FALSE)
    BY <2>1
  <2>3. CallsLeft(r) => n = 1
    BY <2>2 DEF CallsLeft
  <2>4. (n = 1 => NextCall(r) = Final("cancelled", FALSE))
    BY <2>2 DEF NextCall
  <2>5. n = 1 => CallsLeft(r)
    BY <2>2 DEF CallsLeft
  <2> QED BY <1>2, <1>6, <2>2, <2>3, <2>4, <2>5
<1>7. CASE o = "cancelStream"
  <2>1. Calls(o) = <<Final("cancelled", FALSE), Final("cancelled", TRUE)>>
    BY <1>7 DEF Calls
  <2>2. Len(Calls(o)) = 2 /\ Calls(o)[1] = Final("cancelled", FALSE) /\ Calls(o)[2] = Final("cancelled", TRUE)
    BY <2>1
  <2>3. CallsLeft(r) => n = 1 \/ n = 2
    BY <2>2 DEF CallsLeft
  <2>4. (n = 1 => NextCall(r) = Final("cancelled", FALSE)) /\ (n = 2 => NextCall(r) = Final("cancelled", TRUE))
    BY <2>2 DEF NextCall
  <2>5. n = 1 => CallsLeft(r)
    BY <2>2 DEF CallsLeft
  <2> QED BY <1>2, <1>7, <2>2, <2>3, <2>4, <2>5
<1> QED BY <1>1, <1>3, <1>4, <1>5, <1>6, <1>7

\* There is room for one more request in the pool and in the archive channel.
LEMMA PoolHasRoom ==
  ASSUME Room, NEW r \in Requests, place[r] # "active"
  PROVE  Cardinality(Active) < PoolSize
<1>1. IsFiniteSet(Requests) /\ PoolSize \in Nat
  BY TrackingAssumption
<1>2. IsFiniteSet(Requests \ {r}) /\ Cardinality(Requests \ {r}) = Cardinality(Requests) - 1
  BY <1>1, FS_RemoveElement
<1>3. Active \in SUBSET (Requests \ {r})
  BY DEF Active
<1>4. Cardinality(Active) <= Cardinality(Requests \ {r}) /\ IsFiniteSet(Active)
  BY <1>2, <1>3, FS_Subset
<1>5. Cardinality(Active) \in Nat /\ Cardinality(Requests) \in Nat
  BY <1>1, <1>4, FS_CardinalityType
<1> QED BY <1>1, <1>2, <1>4, <1>5 DEF Room

\* Nobody is in the channel twice.
LEMMA ChannelHasRoom ==
  ASSUME Room, TypeOK, Distinct(archiveChan), NEW r \in Requests, ~InChan(r)
  PROVE  HasRoom(archiveChan)
<1> DEFINE c == archiveChan
           S == Requests \ {r}
<1>1. IsFiniteSet(Requests) /\ BufferSize \in Nat /\ c \in Seq(Requests) /\ Len(c) \in Nat
  BY TrackingAssumption DEF TypeOK
<1>2. IsFiniteSet(S) /\ Cardinality(S) = Cardinality(Requests) - 1 /\ Cardinality(Requests) \in Nat
  BY <1>1, FS_RemoveElement, FS_CardinalityType
<1>3. c \in Injection(1..Len(c), S)
  <2>1. c \in [1..Len(c) -> Requests] /\ \A i \in 1..Len(c) : c[i] # r
    BY <1>1 DEF InChan
  <2>2. c \in [1..Len(c) -> S]
    BY <2>1
  <2>3. \A i, j \in 1..Len(c) : c[i] = c[j] => i = j
    BY DEF Distinct
  <2> QED BY <2>2, <2>3 DEF Injection, IsInjective
<1>4. Cardinality(1..Len(c)) <= Cardinality(S)
  BY <1>2, <1>3, FS_Injection
<1>5. Cardinality(1..Len(c)) = Len(c)
  <2>1. \A n \in Nat : Cardinality(1..n) = n
    BY FS_Interval
  <2> QED BY <1>1, <2>1
<1> QED BY <1>1, <1>2, <1>4, <1>5 DEF Room, HasRoom

LEMMA SendArrives ==
  ASSUME Room, TypeOK, Distinct(archiveChan), NEW r \in Requests, ~InChan(r), SendToArchive(r),
         phase # "closed"
  PROVE  InChan(r)'
<1>1. archiveChan' = Append(archiveChan, r)
  BY ChannelHasRoom DEF SendToArchive
<1>2. archiveChan \in Seq(Requests)
  BY DEF TypeOK
<1>3. Len(archiveChan') = Len(archiveChan) + 1 /\ archiveChan'[Len(archiveChan) + 1] = r
      /\ Len(archiveChan) + 1 \in 1..Len(archiveChan')
  BY <1>1, <1>2
<1> QED BY <1>3 DEF InChan

LEMMA DeliveryInit == Init => Delivery
<1> SUFFICES ASSUME Init PROVE Delivery
  OBVIOUS
<1>1. OneCopy
  BY OneCopyInit
<1>2. \A e \in Events : ~Sent(e)
  BY DEF Init, Sent
<1>3. \A r \in Requests : Delivered(r)
  <2> SUFFICES ASSUME NEW r \in Requests PROVE Delivered(r)
    OBVIOUS
  <2>1. place[r] = "none" /\ handler[r].next = 1 /\ ~Started(r) /\ ended = {}
    BY DEF Init, Started
  <2> QED BY <2>1 DEF Delivered, InFinalizer
<1>4. Emptied
  BY DEF Init, Emptied
<1> QED BY <1>1, <1>2, <1>3, <1>4 DEF Delivery, EventsClose

\* A row that is closed stays closed, whatever events come late.
LEMMA RowStaysClosed ==
  ASSUME Delivery, Next, NEW r \in Requests, row[r].c.status \in Closed
  PROVE  row'[r].c.status \in Closed
<1>0. TypeOK /\ HandOver /\ EventsClose
  BY DEF Delivery, OneCopy, HandOver
<1>1. CASE Commit
  <2>1. InBatch(r) => mem[r].status \in Closed
    BY <1>0 DEF HandOver, RecordOK, Archived
  <2>2. row'[r].c = IF InBatch(r) THEN mem[r] ELSE row[r].c
    BY <1>1 DEF Commit
  <2> QED BY <2>1, <2>2
<1>2. CASE EventProcessor
  <2>1. (ev.at > 0 => ev.at \in 1..Len(ev.batch) /\ ev.batch[ev.at] \in Events)
    BY <1>0 DEF TypeOK, Processors
  <2>2. UNCHANGED row \/ (ev.at > 0 /\ Write(ev.batch[ev.at]))
    BY <1>2 DEF EventProcessor, Receive, Tick, WriteEvent, WriteFails, Abort, SeeCancelled,
                LastFlush, Flushing
  <2>3. ASSUME ev.at > 0, Write(ev.batch[ev.at])
        PROVE  row'[r].c.status \in Closed
    <3> DEFINE e == ev.batch[ev.at]
    <3>1. e \in Events /\ Sent(e)
      BY <2>1, <2>3 DEF Sent
    <3>2. row' = [row EXCEPT ![e.req] = Written(e)]
      BY <2>3 DEF Write
    <3> HIDE DEF e
    <3>3. e.req \in Requests /\ e.op \in {"start", "note", "tokens", "final"}
      BY <3>1 DEF Events
    <3>4. e.op # "start" /\ (e.op = "final" => e.status \in Closed)
      BY <1>0, <3>1 DEF EventsClose
    <3>5. row'[r] = IF r = e.req THEN Written(e) ELSE row[r]
      BY <1>0, <3>2, <3>3 DEF TypeOK
    <3>6. CASE r = e.req
      <4>1. HasRow(r)
        BY DEF HasRow, Closed
      <4>2. Written(e).c.status \in {row[r].c.status, e.status} /\ (e.op # "final" => Written(e).c.status = row[r].c.status)
        BY <1>0, <3>1, <3>3, <3>4, <3>6, <4>1, WrittenForms
      <4> QED BY <3>4, <3>5, <3>6, <4>2
    <3> QED BY <3>5, <3>6
  <2> QED BY <2>2, <2>3
<1>3. CASE UNCHANGED row
  BY <1>3
<1>4. Commit \/ EventProcessor \/ UNCHANGED row
  BY DEF Next, Handler, Start, RecordTokens, Move, Finalize, FinalEvent, Expire, Leave, LookUp,
         Apply, Archiver, Take, Confirm, InsertFails, Close, Cancel, ClosePool, CloseArchive, Closes
<1> QED BY <1>1, <1>2, <1>3, <1>4

\* What waits for its insert goes on waiting, or gets its row.
LEMMA WaitsOn ==
  ASSUME Delivery, Next, Room, "write" \notin Faults, NEW r \in Requests, Waits(r)
  PROVE  Waits(r)' \/ row'[r].c.status \in Closed
<1>0. TypeOK /\ HandOver /\ OneCopy /\ RecordOK(r) /\ Distinct(archiveChan) /\ WithoutRow(r)
  BY DEF Delivery, OneCopy, HandOver
<1>1. CASE \E q \in Requests : Finalize(q)
  <2>1. PICK q \in Requests : Finalize(q)
    BY <1>1
  <2>2. ~Waits(q)
    BY <1>0, <2>1, WaitsClosed DEF Finalize
  <2>3. InChan(r) => InChan(r)'
    BY <1>0, <2>1, <2>2, SendOne DEF Finalize, Waits
  <2>4. UNCHANGED <<leaving, arch>>
    BY <2>1 DEF Finalize
  <2> QED BY <2>3, <2>4 DEF Waits, Coming, InBatch
<1>2. CASE \E q \in Requests : Leave(q)
  <2>1. PICK q \in Requests : Leave(q)
    BY <1>2
  <2>2. ~InChan(q) /\ phase # "closed" /\ q \in leaving
    BY <2>1 DEF Leave, Delivery, OneCopy, WithoutRow, Emptied
  <2>3. InChan(q)'
    BY <1>0, <2>1, <2>2, SendArrives DEF Leave
  <2>4. r # q => (InChan(r)' <=> InChan(r))
    BY <1>0, <2>1, <2>2, SendOne DEF Leave
  <2>5. leaving' = leaving \ {q} /\ UNCHANGED arch
    BY <2>1 DEF Leave
  <2> QED BY <2>3, <2>4, <2>5 DEF Waits, Coming, InBatch
<1>3. CASE Take
  <2>0. PICK q \in Requests : q = Head(archiveChan)
    BY <1>0, <1>3 DEF Take, TypeOK
  <2>1. q = archiveChan[1] /\ 1 \in 1..Len(archiveChan) /\ ~arch.done /\ ~arch'.done
    BY <1>0, <1>3, <2>0 DEF Take, TypeOK, Batches
  <2>2. InChan(q) /\ ~InBatch(q)
    <3>1. InChan(q)
      BY <2>1 DEF InChan
    <3> QED BY <1>0, <2>1, <3>1 DEF OneCopy, WithoutRow, Coming
  <2>3. Distinct(arch.batch)
    BY <1>0, <2>1 DEF OneCopy
  <2>4. /\ \A x \in Requests \ {q} : (InChan(x)' <=> InChan(x)) /\ (InBatch(x)' <=> InBatch(x))
    BY <1>0, <1>3, <2>0, <2>2, <2>3, TakeOne
  <2>5. InBatch(q)'
    <3>1. arch'.batch = Append(arch.batch, q) /\ arch.batch \in Seq(Requests)
      BY <1>0, <1>3, <2>0 DEF Take, TypeOK, Batches
    <3>2. Len(arch'.batch) = Len(arch.batch) + 1 /\ arch'.batch[Len(arch.batch) + 1] = q
          /\ Len(arch.batch) + 1 \in 1..Len(arch'.batch)
      BY <3>1
    <3> QED BY <3>2 DEF InBatch
  <2>6. UNCHANGED leaving
    BY <1>3 DEF Take
  <2> QED BY <2>1, <2>4, <2>5, <2>6 DEF Waits, Coming
<1>4. CASE Commit
  <2>1. Coming(r) => row'[r].c = mem[r] /\ mem[r].status \in Closed
    BY <1>0, <1>4 DEF Commit, Coming, RecordOK, Archived
  <2>2. UNCHANGED <<leaving, archiveChan>>
    BY <1>4 DEF Commit
  <2> QED BY <2>1, <2>2 DEF Waits, InChan
<1>5. CASE Confirm
  BY <1>5 DEF Confirm, Waits, Coming, InChan
<1>6. CASE UNCHANGED <<archiveChan, arch>> /\ leaving \subseteq leaving'
  BY <1>6 DEF Waits, Coming, InChan, InBatch
<1>7. \/ \E q \in Requests : Finalize(q) \/ Leave(q)
      \/ Take \/ Commit \/ Confirm
      \/ UNCHANGED <<archiveChan, arch>> /\ leaving \subseteq leaving'
  <2>1. ~InsertFails
    BY DEF InsertFails
  <2>2. CASE \E q \in Requests : Handler(q) \/ Expire(q) \/ Leave(q)
    BY <2>2 DEF Handler, Start, RecordTokens, Move, FinalEvent, Expire
  <2>3. CASE \E u \in Updates : LookUp(u) \/ Apply(u)
    BY <2>3 DEF LookUp, Apply
  <2>4. CASE Archiver
    BY <2>1, <2>4 DEF Archiver
  <2>5. CASE EventProcessor
    BY <2>5 DEF EventProcessor, Receive, Tick, WriteEvent, WriteFails, Abort, SeeCancelled, LastFlush
  <2>6. CASE Close
    BY <2>6 DEF Close, Cancel, ClosePool, CloseArchive, Closes
  <2> QED BY <2>2, <2>3, <2>4, <2>5, <2>6 DEF Next
<1> QED BY <1>1, <1>2, <1>3, <1>4, <1>5, <1>6, <1>7

LEMMA EmptiedStep == Delivery /\ Next => Emptied'
<1> SUFFICES ASSUME Delivery, Next PROVE Emptied'
  OBVIOUS
<1>0. Emptied
  BY DEF Delivery
<1>1. ASSUME NEW q \in Requests, Handler(q)
      PROVE  Emptied'
  <2>1. UNCHANGED <<phase, leaving, arch>> /\ (phase = "closed" => archiveChan' = archiveChan)
    BY <1>1 DEF Handler, Start, RecordTokens, Move, Finalize, FinalEvent, SendToArchive
  <2> QED BY <1>0, <2>1 DEF Emptied
<1>2. CASE \E q \in Requests : Expire(q) \/ Leave(q)
  BY <1>0, <1>2 DEF Expire, Leave, Emptied
<1>3. CASE \E u \in Updates : LookUp(u) \/ Apply(u)
  BY <1>0, <1>3 DEF LookUp, Apply, Emptied
<1>4. CASE Archiver
  BY <1>0, <1>4 DEF Archiver, Take, Commit, Confirm, InsertFails, Emptied
<1>5. CASE EventProcessor
  BY <1>0, <1>5 DEF EventProcessor, Receive, Tick, WriteEvent, WriteFails, Abort, SeeCancelled,
                    LastFlush, Emptied
<1>6. CASE Close
  BY <1>0, <1>6 DEF Close, Cancel, ClosePool, CloseArchive, Closes, Drained, Emptied
<1> QED BY <1>1, <1>2, <1>3, <1>4, <1>5, <1>6, Zenon DEF Next

\* Every way to end makes a call or two.
LEMMA SomeCalls == \A o \in Outcomes : Len(Calls(o)) \in {1, 2}
<1> SUFFICES ASSUME NEW o \in Outcomes PROVE Len(Calls(o)) \in {1, 2}
  OBVIOUS
<1>1. o \in {"complete", "fail", "failTokens", "cancel", "cancelStream"}
  BY TrackingAssumption
<1>2. \A s, t : Len(<<s>>) = 1 /\ Len(<<s, t>>) = 2
  OBVIOUS
<1> QED BY <1>1, <1>2 DEF Calls


LEMMA EventsCloseStep ==
  ASSUME Delivery, Next, Room, NEW e \in Events, Sent(e)'
  PROVE  e.op # "start" /\ (e.op = "final" => e.status \in Closed)
<1> DEFINE Fine == e.op # "start" /\ (e.op = "final" => e.status \in Closed)
<1>0. TypeOK /\ HandOver /\ (Sent(e) => Fine)
  BY DEF Delivery, OneCopy, HandOver, EventsClose
<1>1. ASSUME NEW u \in Updates, LookUp(u) \/ Apply(u)
      PROVE  Sent(e) \/ Fine
  <2>1. NoteEvent(u) \in Events /\ NoteEvent(u).op = "note"
    BY EventTypes DEF NoteEvent
  <2>2. CASE Queue(NoteEvent(u))
    BY <1>0, <1>1, <2>1, <2>2, SentByQueue DEF LookUp, Apply
  <2>3. CASE UNCHANGED eventChan
    BY <1>1, <2>3 DEF LookUp, Apply, Sent
  <2> QED BY <1>1, <2>2, <2>3 DEF LookUp, Apply
<1>2. ASSUME NEW q \in Requests, Handler(q)
      PROVE  Sent(e) \/ Fine
  <2>1. handler[q].outcome \in Outcomes \cup {"none"} /\ handler[q].next \in Nat \ {0}
    BY <1>0 DEF TypeOK
  <2>2. ASSUME NEW o \in Outcomes, Start(q, o)
        PROVE  Sent(e)
    <3>1. StartEvent(q) \in Events
      BY EventTypes
    <3>2. place[q] # "active"
      BY <1>0, <2>2 DEF Start, HandOver, RecordOK
    <3>3. Cardinality(Active) < PoolSize
      BY <3>2, PoolHasRoom
    <3>4. UNCHANGED eventChan \/ (Queue(StartEvent(q)) /\ ~QueueUp)
      BY <2>2, <3>3 DEF Start
    <3>5. CASE Queue(StartEvent(q)) /\ ~QueueUp
      BY <1>0, <2>2, <3>1, <3>5, SentByQueue DEF Start
    <3>6. CASE UNCHANGED eventChan
      BY <2>2, <3>6 DEF Start, Sent
    <3> QED BY <3>4, <3>5, <3>6
  <2>3. ASSUME RecordTokens(q) \/ FinalEvent(q)
        PROVE  Sent(e) \/ Fine
    <3> DEFINE x == EventOf(q, NextCall(q))
    <3>1. /\ x \in Events /\ x.op # "start"
          /\ x.op = "final" => x.status \in Closed
      BY <2>1, <2>3, CallsOfHandler DEF RecordTokens, FinalEvent, Finishing, EventOf
    <3>2. Queue(x) \/ UNCHANGED eventChan
      BY <2>3 DEF RecordTokens, FinalEvent
    <3>3. UNCHANGED ev
      BY <2>3 DEF RecordTokens, FinalEvent
    <3> HIDE DEF x
    <3>4. CASE Queue(x)
      BY <1>0, <3>1, <3>3, <3>4, SentByQueue
    <3>5. CASE UNCHANGED eventChan
      BY <3>3, <3>5 DEF Sent
    <3> QED BY <3>2, <3>4, <3>5
  <2>4. CASE Move(q) \/ Finalize(q)
    BY <2>4 DEF Move, Finalize, Sent
  <2> QED BY <1>2, <2>2, <2>3, <2>4 DEF Handler
<1>3. ASSUME EventProcessor
      PROVE  Sent(e) \/ Fine
  BY <1>0, <1>3, SentByProcessor
<1>4. ASSUME Archiver \/ Close \/ \E q \in Requests : Expire(q) \/ Leave(q)
      PROVE  Sent(e) \/ Fine
  <2>1. UNCHANGED <<eventChan, ev>>
    BY <1>4 DEF Archiver, Take, Commit, Confirm, InsertFails, Close, Cancel, ClosePool,
                CloseArchive, Closes, Leave, Expire
  <2>2. Sent(e)' => Sent(e)
    BY <2>1 DEF Sent
  <2> QED BY <2>2
<1>5. Sent(e) \/ Fine
  BY <1>1, <1>2, <1>3, <1>4, <1>0, Zenon DEF Next
<1> QED BY <1>0, <1>5

\* A step that leaves a request's calls and its place alone.
LEMMA DeliveredKept ==
  ASSUME NEW r \in Requests, Delivered(r), handler'[r] = handler[r], place'[r] = place[r],
         mem'[r].status = mem[r].status, UNCHANGED <<phase, ended>>,
         Waits(r) => Waits(r)' \/ row'[r].c.status \in Closed,
         row[r].c.status \in Closed => row'[r].c.status \in Closed
  PROVE  Delivered(r)'
BY DEF Delivered, Started, InFinalizer, CallsLeft, HasEnded

\* A call of a handler that is still running, which leaves the request in its place.
LEMMA DeliveredCalled ==
  ASSUME NEW r \in Requests, Delivered(r), place'[r] = place[r], mem'[r].status = mem[r].status,
         UNCHANGED <<phase, ended>>, Started(r), Started(r)', r \notin ended,
         CallsLeft(r)' \/ (place[r] # "active" /\ ~InFinalizer(r)'),
         Waits(r) => Waits(r)' \/ row'[r].c.status \in Closed,
         row[r].c.status \in Closed => row'[r].c.status \in Closed
  PROVE  Delivered(r)'
BY DEF Delivered

LEMMA DeliveredHandler ==
  ASSUME Delivery, Next, Room, "write" \notin Faults, NEW q \in Requests, Handler(q)
  PROVE  \A r \in Requests : Delivered(r)'
<1>0. /\ TypeOK /\ HandOver /\ OneCopy /\ Distinct(archiveChan)
      /\ \A r \in Requests : Delivered(r) /\ WithoutRow(r) /\ RecordOK(r)
  BY DEF Delivery, OneCopy, HandOver
<1>1. \A r \in Requests : /\ Waits(r) => Waits(r)' \/ row'[r].c.status \in Closed
                          /\ row[r].c.status \in Closed => row'[r].c.status \in Closed
  BY WaitsOn, RowStaysClosed
<1>2. UNCHANGED <<phase, ended>>
  BY DEF Handler, Start, RecordTokens, Move, Finalize, FinalEvent
<1>3. handler[q].next \in Nat \ {0} /\ handler[q].outcome \in Outcomes \cup {"none"}
  BY <1>0 DEF TypeOK
<1>4. \A r \in Requests \ {q} : /\ handler'[r] = handler[r] /\ place'[r] = place[r]
                                /\ mem'[r] = mem[r]
  BY <1>0 DEF Handler, Start, RecordTokens, Move, Finalize, FinalEvent, Called, TypeOK
<1>5. \A r \in Requests \ {q} : Delivered(r)'
  BY <1>0, <1>1, <1>2, <1>4, DeliveredKept
<1>6. ASSUME NEW o \in Outcomes, Start(q, o)
      PROVE  Delivered(q)'
  <2>1. place[q] = "none" /\ ~Started(q) /\ handler[q].next = 1 /\ q \notin ended
    <3>1. ~Started(q)
      BY <1>6 DEF Start
    <3>2. q \notin ended
      BY <1>0, <3>1 DEF Delivered, HasEnded
    <3> QED BY <1>0, <3>1, <3>2 DEF Delivered, RecordOK, TypeOK
  <2>2. handler'[q].outcome = o /\ handler'[q].next = 1 /\ o # "none"
    <3>1. handler' = [handler EXCEPT ![q].outcome = o]
      BY <1>6 DEF Start
    <3>2. /\ DOMAIN handler = Requests
          /\ handler[q] \in [outcome : Outcomes \cup {"none"}, next : Nat \ {0}]
      BY <1>0 DEF TypeOK
    <3>3. handler'[q] = [handler[q] EXCEPT !.outcome = o]
      BY <3>1, <3>2
    <3>4. o # "none"
      BY TrackingAssumption
    <3> QED BY <2>1, <3>2, <3>3, <3>4
  <2>3. CallsLeft(q)'
    <3>1. Len(Calls(o)) \in {1, 2}
      BY SomeCalls
    <3>2. 1 <= Len(Calls(o))
      BY <3>1
    <3>3. handler'[q].next <= Len(Calls(handler'[q].outcome))
      BY <2>2, <3>2
    <3> QED BY <3>3 DEF CallsLeft
  <2>4. Cardinality(Active) < PoolSize
    BY <2>1, PoolHasRoom
  <2>5. CASE QueueUp
    <3>1. place'[q] = "active" /\ mem'[q].status = Open
      BY <1>0, <1>6, <2>4, <2>5, FreshType DEF Start, TypeOK
    <3>2. Open \notin Closed
      BY DEF Open, Closed
    <3> QED BY <1>2, <2>1, <2>2, <2>3, <2>5, <3>1, <3>2 DEF Delivered, QueueUp, Started
  <2>6. CASE ~QueueUp
    <3>1. place'[q] = "none"
      BY <1>6, <2>1, <2>6 DEF Start
    <3> QED BY <1>2, <2>1, <2>2, <2>6, <3>1 DEF Delivered, QueueUp, Started, InFinalizer
  <2> QED BY <2>5, <2>6
\* A handler that has calls left had not ended.
<1>7. ASSUME Called(q), Started(q), CallsLeft(q)
      PROVE  /\ handler'[q].outcome = handler[q].outcome /\ handler'[q].next = handler[q].next + 1
             /\ handler[q].outcome \in Outcomes /\ q \notin ended /\ Started(q)'
  <2>1. handler'[q].outcome = handler[q].outcome /\ handler'[q].next = handler[q].next + 1
    BY <1>0, <1>7 DEF Called, TypeOK
  <2> QED BY <1>0, <1>3, <1>7, <2>1 DEF Started, Delivered, HasEnded
<1>8. ASSUME RecordTokens(q)
      PROVE  Delivered(q)'
  <2>1. Called(q) /\ Started(q) /\ CallsLeft(q) /\ NextCall(q).op = "tokens"
    BY <1>8 DEF RecordTokens
  <2>2. /\ handler'[q].outcome = handler[q].outcome /\ handler'[q].next = handler[q].next + 1
        /\ handler[q].outcome \in Outcomes /\ q \notin ended /\ Started(q)'
    BY <1>7, <2>1
  <2>3. CallsLeft(q)'
    <3>1. handler[q].next = 1 /\ Len(Calls(handler[q].outcome)) = 2
      BY <1>3, <2>1, <2>2, CallsInOrder
    <3>2. handler'[q].next <= Len(Calls(handler'[q].outcome))
      BY <2>2, <3>1
    <3> QED BY <3>2 DEF CallsLeft
  <2>4. place'[q] = place[q] /\ mem'[q].status = mem[q].status
    <3>1. mem[q] \in Contents
      BY <1>0 DEF TypeOK
    <3>2. [mem[q] EXCEPT !.tokens = TRUE].status = mem[q].status
      BY <3>1 DEF Contents
    <3> QED BY <1>0, <1>8, <3>2 DEF RecordTokens, TypeOK
  <2> QED BY <1>0, <1>1, <1>2, <2>1, <2>2, <2>3, <2>4, DeliveredCalled
<1>9. ASSUME Move(q)
      PROVE  Delivered(q)'
  <2>1. place'[q] = "archiving" /\ mem'[q] = mem[q] /\ handler'[q] = handler[q]
    BY <1>0, <1>9 DEF Move, TypeOK
  <2>2. Started(q) /\ CallsLeft(q) /\ mem[q].status = Open /\ Open \notin Closed
    BY <1>0, <1>9 DEF Move, Finishing, RecordOK, Open, Closed
  <2>3. q \notin ended /\ Started(q)' /\ CallsLeft(q)' /\ place[q] = "active"
    BY <1>0, <1>9, <2>1, <2>2 DEF Delivered, HasEnded, Started, CallsLeft, Move
  <2> QED BY <1>2, <2>1, <2>2, <2>3 DEF Delivered
<1>10. ASSUME Finalize(q)
       PROVE  Delivered(q)'
  <2>1. Called(q) /\ Started(q) /\ CallsLeft(q) /\ InFinalizer(q) /\ NextCall(q).op = "final"
    BY <1>10 DEF Finalize, Finishing
  <2>2. q \notin ended /\ Started(q)'
    BY <1>7, <2>1
  <2>3. mem'[q].status \in Closed /\ place'[q] = "archiving"
    <3>1. NextCall(q).status \in Closed
      BY <1>3, <2>1, CallsOfHandler
    <3> QED BY <1>0, <1>10, <2>1, <3>1 DEF Finalize, Finalized, InFinalizer, TypeOK
  <2>4. phase # "closed" => InChan(q)'
    <3>1. ~InChan(q)
      BY <1>0, <2>1, WaitsClosed DEF Waits
    <3> QED BY <1>0, <1>10, <3>1, SendArrives DEF Finalize
  <2>5. Open \notin Closed
    BY DEF Open, Closed
  <2>6. ~InFinalizer(q)' /\ (phase # "closed" => Waits(q)')
    BY <2>3, <2>4, <2>5 DEF InFinalizer, Waits
  <2> QED BY <1>2, <2>2, <2>3, <2>5, <2>6 DEF Delivered
<1>11. ASSUME FinalEvent(q)
       PROVE  Delivered(q)'
  <2>1. Called(q) /\ Started(q) /\ CallsLeft(q) /\ ~InFinalizer(q) /\ place[q] # "active"
    BY <1>0, <1>11 DEF FinalEvent, Finishing, Delivered, PoolUp
  <2>2. q \notin ended /\ Started(q)'
    BY <1>7, <2>1
  <2>3. place'[q] = place[q] /\ mem'[q] = mem[q]
    BY <1>11 DEF FinalEvent
  <2>4. ~InFinalizer(q)'
    BY <2>1, <2>3 DEF InFinalizer
  <2> QED BY <1>0, <1>1, <1>2, <2>1, <2>2, <2>3, <2>4, DeliveredCalled
<1>12. Delivered(q)'
  BY <1>6, <1>8, <1>9, <1>10, <1>11 DEF Handler
<1> QED BY <1>5, <1>12

\* The other goroutines write notes, or give a request up.
LEMMA DeliveredOthers ==
  ASSUME Delivery, Next, Room, "write" \notin Faults,
         \/ \E u \in Updates : LookUp(u) \/ Apply(u)
         \/ \E q \in Requests : Expire(q) \/ Leave(q)
  PROVE  \A r \in Requests : Delivered(r)'
<1> SUFFICES ASSUME NEW r \in Requests
             PROVE  Delivered(r)'
  OBVIOUS
<1>0. TypeOK /\ HandOver /\ OneCopy /\ Delivered(r) /\ RecordOK(r)
  BY DEF Delivery, OneCopy, HandOver
<1>1. /\ Waits(r) => Waits(r)' \/ row'[r].c.status \in Closed
      /\ row[r].c.status \in Closed => row'[r].c.status \in Closed
  BY WaitsOn, RowStaysClosed
<1>2. UNCHANGED <<phase, ended, handler>>
  BY DEF LookUp, Apply, Expire, Leave
<1>3. ASSUME NEW u \in Updates, LookUp(u) \/ Apply(u)
      PROVE  Delivered(r)'
  <2>1. UNCHANGED place
    BY <1>3 DEF LookUp, Apply
  <2>2. mem'[r].status = mem[r].status
    <3>1. mem[r] \in Contents /\ DOMAIN mem = Requests
      BY <1>0 DEF TypeOK
    <3>2. [mem[r] EXCEPT !.notes = @ \cup {u[2]}].status = mem[r].status
      BY <3>1 DEF Contents
    <3>3. UNCHANGED mem \/ mem' = [mem EXCEPT ![u[1]].notes = @ \cup {u[2]}]
      BY <1>3 DEF LookUp, Apply
    <3> QED BY <3>1, <3>2, <3>3
  <2> QED BY <1>0, <1>1, <1>2, <2>1, <2>2, DeliveredKept
<1>4. ASSUME NEW q \in Requests, Expire(q)
      PROVE  Delivered(r)'
  <2>1. CASE r # q
    BY <1>0, <1>1, <1>2, <1>4, <2>1, DeliveredKept DEF Expire, Removed, TypeOK
  <2>2. CASE r = q
    <3>1. /\ place'[r] = "out" /\ mem'[r].status = "timeout" /\ r \in leaving'
          /\ phase \in {"running", "cancelled"} /\ place[r] = "active"
      BY <1>0, <1>4, <2>2 DEF Expire, Removed, TypeOK, Contents
    <3>2. CallsLeft(r) /\ Started(r)
      BY <1>0, <3>1 DEF Delivered, RecordOK
    <3>3. r \notin ended /\ Started(r)'
      BY <1>0, <1>2, <3>2 DEF Delivered, HasEnded, Started
    <3>4. "timeout" \in Closed /\ Waits(r)'
      BY <3>1 DEF Closed, Waits
    <3>5. ~InFinalizer(r)'
      BY <3>1 DEF InFinalizer
    <3> QED BY <1>2, <3>1, <3>3, <3>4, <3>5 DEF Delivered
  <2> QED BY <2>1, <2>2
<1>5. ASSUME NEW q \in Requests, Leave(q)
      PROVE  Delivered(r)'
  BY <1>0, <1>1, <1>2, <1>5, DeliveredKept DEF Leave
<1> QED BY <1>3, <1>4, <1>5

\* The archiver moves what has its row.
LEMMA DeliveredArchiver ==
  ASSUME Delivery, Next, Room, "write" \notin Faults, Archiver \/ EventProcessor
  PROVE  \A r \in Requests : Delivered(r)'
<1> SUFFICES ASSUME NEW r \in Requests
             PROVE  Delivered(r)'
  OBVIOUS
<1>0. TypeOK /\ HandOver /\ OneCopy /\ Delivered(r) /\ RecordOK(r)
  BY DEF Delivery, OneCopy, HandOver
<1>1. /\ Waits(r) => Waits(r)' \/ row'[r].c.status \in Closed
      /\ row[r].c.status \in Closed => row'[r].c.status \in Closed
  BY WaitsOn, RowStaysClosed
<1>2. UNCHANGED <<phase, ended, handler, mem>>
  BY DEF Archiver, Take, Commit, Confirm, InsertFails, EventProcessor, Receive, Tick, WriteEvent,
         WriteFails, Abort, SeeCancelled, LastFlush
<1>3. CASE UNCHANGED place
  BY <1>0, <1>1, <1>2, <1>3, DeliveredKept
<1>4. CASE Confirm
  <2>1. CASE place'[r] = place[r]
    BY <1>0, <1>1, <1>2, <2>1, DeliveredKept
  <2>2. CASE place'[r] # place[r]
    <3>1. place'[r] = "out" /\ place[r] = "archiving" /\ InBatch(r)
      BY <1>4, <2>2 DEF Confirm
    <3>2. mem[r].status \in Closed /\ Open \notin Closed
      BY <1>0, <3>1 DEF RecordOK, Archived, Open, Closed
    <3>3. Started(r)
      BY <1>0, <3>1 DEF RecordOK
    <3>4. Waits(r)' \/ row'[r].c.status \in Closed \/ (phase = "closed" /\ r \notin ended)
      BY <1>0, <1>1, <3>1, <3>2 DEF Delivered
    <3>5. ~InFinalizer(r)' /\ Started(r)' /\ (HasEnded(r) => HasEnded(r)')
      BY <1>2, <3>1, <3>3 DEF InFinalizer, Started, HasEnded, CallsLeft
    <3> QED BY <1>0, <1>2, <3>1, <3>2, <3>4, <3>5 DEF Delivered
  <2> QED BY <2>1, <2>2
<1>5. Confirm \/ UNCHANGED place
  BY DEF Archiver, Take, Commit, InsertFails, EventProcessor, Receive, Tick, WriteEvent,
         WriteFails, Abort, SeeCancelled, LastFlush
<1> QED BY <1>3, <1>4, <1>5

\* The shutdown: what had ended then is in no map where a call could still reach it.
LEMMA DeliveredClose ==
  ASSUME Delivery, Next, Room, "write" \notin Faults, Close
  PROVE  \A r \in Requests : Delivered(r)'
<1> SUFFICES ASSUME NEW r \in Requests
             PROVE  Delivered(r)'
  OBVIOUS
<1>0. TypeOK /\ HandOver /\ OneCopy /\ Delivered(r) /\ RecordOK(r) /\ Emptied
  BY DEF Delivery, OneCopy, HandOver
<1>1. /\ Waits(r) => Waits(r)' \/ row'[r].c.status \in Closed
      /\ row[r].c.status \in Closed => row'[r].c.status \in Closed
  BY WaitsOn, RowStaysClosed
<1>2. /\ (HasEnded(r)' <=> HasEnded(r)) /\ (Started(r)' <=> Started(r))
      /\ (CallsLeft(r)' <=> CallsLeft(r)) /\ handler' = handler
  BY DEF Close, Cancel, ClosePool, CloseArchive, Closes, HasEnded, Started, CallsLeft
<1>3. CASE Cancel
  <2>1. /\ UNCHANGED <<place, mem>> /\ phase = "running" /\ phase' = "cancelled"
        /\ (r \in ended' <=> HasEnded(r))
    BY <1>3 DEF Cancel
  <2>2. InFinalizer(r)' <=> InFinalizer(r)
    BY <2>1 DEF InFinalizer
  <2>3. HasEnded(r) => place[r] # "none"
    BY <1>0, <2>1 DEF Delivered, HasEnded
  <2> QED BY <1>0, <1>1, <1>2, <2>1, <2>2, <2>3 DEF Delivered
<1>4. CASE ClosePool
  <2>1. phase = "cancelled" /\ phase' = "closing" /\ ended' = ended
    BY <1>4 DEF ClosePool
  <2>2. CASE place[r] = "active"
    <3>1. place'[r] = "out" /\ mem'[r].status = "cancelled" /\ r \in leaving'
      BY <1>0, <1>4, <2>2 DEF ClosePool, TypeOK, Contents, Active
    <3>2. "cancelled" \in Closed /\ Waits(r)' /\ ~InFinalizer(r)'
      BY <3>1 DEF Closed, Waits, InFinalizer
    <3> QED BY <1>0, <1>2, <2>1, <2>2, <3>1, <3>2 DEF Delivered
  <2>3. CASE place[r] # "active"
    <3>1. place'[r] = place[r] /\ mem'[r] = mem[r]
      BY <1>4, <2>3 DEF ClosePool
    <3>2. InFinalizer(r)' <=> InFinalizer(r)
      BY <3>1 DEF InFinalizer
    <3> QED BY <1>0, <1>1, <1>2, <2>1, <2>3, <3>1, <3>2 DEF Delivered
  <2> QED BY <2>2, <2>3
<1>5. CASE CloseArchive \/ Closes
  <2>1. /\ UNCHANGED <<place, mem, ended>> /\ phase \in {"closing", "draining"}
        /\ phase' \in {"draining", "closed"}
    BY <1>5 DEF CloseArchive, Closes
  <2>2. (InFinalizer(r)' <=> InFinalizer(r)) /\ place[r] # "active"
    BY <1>0, <2>1 DEF InFinalizer, Delivered
  <2> QED BY <1>0, <1>1, <1>2, <2>1, <2>2 DEF Delivered
<1> QED BY <1>3, <1>4, <1>5 DEF Close

\* In every step.
LEMMA DeliveryStep ==
  ASSUME Room, "write" \notin Faults
  PROVE  Delivery /\ [Next]_vars => Delivery'
<1> SUFFICES ASSUME Delivery, [Next]_vars PROVE Delivery'
  OBVIOUS
<1>1. CASE UNCHANGED vars
  <2>1. OneCopy'
    BY <1>1, OneCopyStep DEF Delivery
  <2>2. EventsClose'
    BY <1>1 DEF vars, Delivery, EventsClose, Sent, Events, Closed, Open
  <2>3. Emptied'
    BY <1>1 DEF vars, Delivery, Emptied
  <2>4. \A r \in Requests : Delivered(r)'
    BY <1>1 DEF vars, Delivery, Delivered, Started, HasEnded, CallsLeft, InFinalizer, Waits,
                Coming, InChan, InBatch
  <2> QED BY <2>1, <2>2, <2>3, <2>4 DEF Delivery
<1>2. CASE Next
  <2>1. OneCopy'
    BY <1>2, OneCopyStep DEF Delivery
  <2>2. \A e \in Events : Sent(e)' => e.op # "start" /\ (e.op = "final" => e.status \in Closed)
    BY <1>2, EventsCloseStep
  <2>3. Emptied'
    BY <1>2, EmptiedStep
  <2>4. \A r \in Requests : Delivered(r)'
    <3>1. ASSUME NEW q \in Requests, Handler(q)
          PROVE  \A r \in Requests : Delivered(r)'
      BY <1>2, <3>1, DeliveredHandler
    <3> QED BY <1>2, <3>1, DeliveredOthers, DeliveredArchiver, DeliveredClose DEF Next
  <2>5. EventsClose'
    BY <2>2 DEF EventsClose, Events, Closed
  <2> QED BY <2>1, <2>3, <2>4, <2>5 DEF Delivery
<1> QED BY <1>1, <1>2

\* A graceful shutdown loses no request that had ended before it began, whenever it begins
\* and whatever else is under way: the pool, the archive channel and the batches are
\* emptied in an order in which each still has its consumer. It takes room for every
\* request and a database that takes the writes (UsageTracker.Close, HotPool.Close).
THEOREM FinishedIsKept ==
  ASSUME Room, "write" \notin Faults
  PROVE  Init /\ [][Next]_vars => []ShutdownKeepsFinished
<1>1. Init => Delivery
  BY DeliveryInit
<1>2. Delivery /\ [Next]_vars => Delivery'
  BY DeliveryStep
<1>3. Delivery => ShutdownKeepsFinished
  <2> SUFFICES ASSUME Delivery, phase = "closed", NEW r \in ended
               PROVE  row[r].c.status \in Closed
    BY DEF ShutdownKeepsFinished
  <2>1. TypeOK /\ Emptied /\ r \in Requests /\ Delivered(r)
    BY DEF Delivery, OneCopy, HandOver, TypeOK
  <2>2. ~Waits(r)
    BY <2>1 DEF Emptied, Waits, Coming, InChan, InBatch
  <2>3. HasEnded(r) /\ place[r] \in {"archiving", "out"}
    BY <2>1 DEF Delivered, HasEnded, TypeOK
  <2>4. mem[r].status \in Closed
    BY <2>1, <2>3 DEF Delivered, HasEnded, InFinalizer
  <2> QED BY <2>1, <2>2, <2>3, <2>4 DEF Delivered
<1> QED BY <1>1, <1>2, <1>3, PTL

-----------------------------------------------------------------------------
(* Without failures: the tokens get to the row with their cost.             *)

Faultless == "write" \notin Faults /\ "expire" \notin Faults /\ "cancelStream" \notin Outcomes

\* While the tracker runs, the pool serves every call of a handler.
Billed(r) ==
  /\ Started(r) /\ CallsLeft(r) => place[r] = "active" \/ InFinalizer(r)
  /\ handler[r].outcome \in {"complete", "failTokens"} /\ handler[r].next > 1 =>
       mem[r].tokens = TRUE
  /\ HasRow(r) => persisted[r] = TRUE
  /\ persisted[r] = TRUE => row[r].c.tokens = mem[r].tokens /\ row[r].cost = mem[r].tokens

OnlyNotes == \A e \in Events : Sent(e) => e.op = "note"

Billing == Delivery /\ (phase = "running" => OnlyNotes /\ \A r \in Requests : Billed(r))

LEMMA BillingInit == Init => Billing
<1> SUFFICES ASSUME Init PROVE Billing
  OBVIOUS
<1>1. OnlyNotes
  BY DEF Init, Sent, OnlyNotes
<1>2. ASSUME NEW r \in Requests
      PROVE  Billed(r)
  BY <1>2 DEF Init, Billed, Started, NoRow, Empty, HasRow
<1> QED BY <1>1, <1>2, DeliveryInit DEF Billing

\* A step that leaves the tokens of a request alone.
LEMMA BilledKept ==
  ASSUME NEW r \in Requests, Billed(r), handler'[r] = handler[r], place'[r] = place[r],
         mem'[r].status = mem[r].status, mem'[r].tokens = mem[r].tokens,
         persisted'[r] = persisted[r], row'[r].c.status = row[r].c.status,
         row'[r].c.tokens = row[r].c.tokens, row'[r].cost = row[r].cost
  PROVE  Billed(r)'
<1>1. (Started(r)' <=> Started(r)) /\ (CallsLeft(r)' <=> CallsLeft(r))
  BY DEF Started, CallsLeft
<1>2. (InFinalizer(r)' <=> InFinalizer(r)) /\ (HasRow(r)' <=> HasRow(r))
  BY DEF InFinalizer, HasRow
<1> QED BY <1>1, <1>2 DEF Billed

LEMMA BilledHandler ==
  ASSUME Billing, Room, Faultless, NEW q \in Requests, Handler(q), phase = "running"
  PROVE  UNCHANGED <<eventChan, ev>> /\ Billed(q)'
<1>0. /\ TypeOK /\ HandOver /\ OneCopy /\ Delivered(q) /\ WithoutRow(q) /\ RecordOK(q)
      /\ Billed(q) /\ PoolUp /\ QueueUp
  BY DEF Billing, Delivery, OneCopy, HandOver, PoolUp, QueueUp
<1>1. handler[q].next \in Nat \ {0} /\ handler[q].outcome \in Outcomes \cup {"none"}
  BY <1>0 DEF TypeOK
<1>2. UNCHANGED <<persisted, row, ev>> /\ (HasRow(q)' <=> HasRow(q))
  BY DEF Handler, Start, RecordTokens, Move, Finalize, FinalEvent, HasRow
<1>3. persisted[q] = TRUE => HasRow(q)
  BY <1>0 DEF RecordOK
<1>4. mem[q] \in Contents /\ mem[q].tokens \in BOOLEAN
  BY <1>0 DEF TypeOK, Contents
<1>5. ASSUME NEW o \in Outcomes, Start(q, o)
      PROVE  eventChan' = eventChan /\ Billed(q)'
  <2>1. ~Started(q) /\ place[q] = "none" /\ handler[q].next = 1
    <3>1. ~Started(q)
      BY <1>5 DEF Start
    <3> QED BY <1>0, <3>1 DEF Delivered, RecordOK, TypeOK
  <2>2. ~HasRow(q)
    BY <1>0, <2>1 DEF WithoutRow
  <2>3. Cardinality(Active) < PoolSize
    BY <2>1, PoolHasRoom
  <2>4. eventChan' = eventChan /\ place'[q] = "active" /\ handler'[q].next = 1
    BY <1>0, <1>5, <2>1, <2>3 DEF Start, TypeOK
  <2> QED BY <1>2, <1>3, <2>2, <2>4 DEF Billed
<1>6. ASSUME Called(q), Started(q), CallsLeft(q)
      PROVE  /\ handler'[q].outcome = handler[q].outcome /\ handler'[q].next = handler[q].next + 1
             /\ handler[q].outcome \in Outcomes /\ handler[q].outcome # "cancelStream"
             /\ place[q] = "active" \/ InFinalizer(q)
             /\ ~HasRow(q) /\ persisted[q] # TRUE
  BY <1>0, <1>1, <1>3, <1>6 DEF Called, TypeOK, Started, Billed, WithoutRow, Faultless
<1>7. ASSUME RecordTokens(q)
      PROVE  eventChan' = eventChan /\ Billed(q)'
  <2>1. Called(q) /\ Started(q) /\ CallsLeft(q) /\ NextCall(q).op = "tokens"
    BY <1>7 DEF RecordTokens
  <2>2. Listed(q) /\ ~persisted[q]
    BY <1>0, <1>6, <2>1 DEF Listed, InFinalizer, TypeOK
  <2>3. eventChan' = eventChan /\ mem' = [mem EXCEPT ![q].tokens = TRUE] /\ place' = place
    BY <1>7, <2>2 DEF RecordTokens
  <2>4. mem'[q].tokens = TRUE /\ mem'[q].status = mem[q].status
    BY <1>0, <1>4, <2>3 DEF Contents, TypeOK
  <2>5. place'[q] = "active" \/ InFinalizer(q)'
    BY <1>6, <2>1, <2>3, <2>4 DEF InFinalizer
  <2>6. ~HasRow(q)' /\ persisted'[q] # TRUE
    BY <1>2, <1>6, <2>1
  <2> QED BY <2>3, <2>4, <2>5, <2>6 DEF Billed
<1>8. ASSUME Move(q)
      PROVE  eventChan' = eventChan /\ Billed(q)'
  <2>1. eventChan' = eventChan /\ place'[q] = "archiving" /\ mem' = mem /\ handler' = handler
        /\ place[q] = "active"
    BY <1>0, <1>8 DEF Move, TypeOK
  <2>2. InFinalizer(q)'
    BY <1>0, <2>1 DEF InFinalizer, RecordOK
  <2> QED BY <1>0, <1>2, <2>1, <2>2 DEF Billed
<1>9. ASSUME Finalize(q)
      PROVE  eventChan' = eventChan /\ Billed(q)'
  <2>1. Called(q) /\ Started(q) /\ CallsLeft(q) /\ NextCall(q).op = "final"
    BY <1>9 DEF Finalize, Finishing
  <2>2. /\ handler[q].next = Len(Calls(handler[q].outcome))
        /\ handler[q].outcome = "complete" => NextCall(q).tokens = TRUE
        /\ handler[q].outcome = "failTokens" => handler[q].next = 2
    BY <1>1, <1>6, <2>1, CallsInOrder
  <2>3. ~CallsLeft(q)'
    <3>1. handler'[q].next > Len(Calls(handler'[q].outcome))
      BY <1>1, <1>6, <2>1, <2>2
    <3>2. handler'[q].next \in Nat /\ Len(Calls(handler'[q].outcome)) \in Nat
      BY <1>1, <1>6, <2>1, <2>2
    <3> QED BY <3>1, <3>2 DEF CallsLeft
  <2>4. handler[q].outcome \in {"complete", "failTokens"} => mem'[q].tokens = TRUE
    <3>1. mem'[q].tokens = (NextCall(q).tokens \/ mem[q].tokens)
      BY <1>0, <1>9 DEF Finalize, Finalized, TypeOK
    <3>2. ASSUME handler[q].outcome = "failTokens"
          PROVE  mem[q].tokens = TRUE
      <4>1. handler[q].next = 2
        BY <2>2, <3>2, Zenon
      <4>2. handler[q].next > 1
        BY <4>1
      <4> QED BY <1>0, <3>2, <4>2 DEF Billed
    <3> QED BY <2>2, <3>1, <3>2
  <2>5. eventChan' = eventChan
    BY <1>9 DEF Finalize
  <2> QED BY <1>2, <1>6, <2>1, <2>3, <2>4, <2>5 DEF Billed
<1>10. ~FinalEvent(q)
  BY <1>0 DEF FinalEvent, Finishing, Billed
<1> QED BY <1>2, <1>5, <1>7, <1>8, <1>9, <1>10 DEF Handler

LEMMA BilledArchiver ==
  ASSUME Billing, Faultless, NEW r \in Requests, Archiver, phase = "running"
  PROVE  Billed(r)'
<1>0. TypeOK /\ HandOver /\ RecordOK(r) /\ WithoutRow(r) /\ Billed(r)
  BY DEF Billing, Delivery, OneCopy, HandOver
<1>1. CASE Take
  BY <1>0, <1>1, BilledKept DEF Take
<1>2. CASE Commit
  <2>1. UNCHANGED <<handler, place, mem>>
    BY <1>2 DEF Commit
  <2>2. (Started(r)' <=> Started(r)) /\ (CallsLeft(r)' <=> CallsLeft(r))
        /\ (InFinalizer(r)' <=> InFinalizer(r))
    BY <2>1 DEF Started, CallsLeft, InFinalizer
  <2>3. CASE InBatch(r)
    <3>1. row'[r] = [c |-> mem[r], cost |-> mem[r].tokens] /\ persisted'[r] = TRUE
      BY <1>0, <1>2, <2>3 DEF Commit, Marked
    <3>2. row'[r].c.tokens = mem[r].tokens /\ row'[r].cost = mem[r].tokens
      BY <3>1
    <3> QED BY <1>0, <2>1, <2>2, <3>1, <3>2 DEF Billed
  <2>4. CASE ~InBatch(r)
    <3>1. row'[r] = row[r] /\ persisted'[r] = persisted[r]
      BY <1>0, <1>2, <2>4 DEF Commit, Marked, TypeOK
    <3> QED BY <1>0, <2>1, <3>1, BilledKept
  <2> QED BY <2>3, <2>4
<1>3. CASE Confirm
  <2>1. UNCHANGED <<handler, mem, persisted, row>>
    BY <1>3 DEF Confirm
  <2>2. CASE place'[r] = place[r]
    BY <1>0, <2>1, <2>2, BilledKept
  <2>3. CASE place'[r] # place[r]
    <3>1. InBatch(r) /\ place[r] = "archiving"
      BY <1>3, <2>3 DEF Confirm
    <3>2. ~InFinalizer(r) /\ place[r] # "active"
      BY <1>0, <3>1 DEF RecordOK, Archived, InFinalizer, Open, Closed
    <3>3. ~(Started(r) /\ CallsLeft(r))
      BY <1>0, <3>2 DEF Billed
    <3>4. (Started(r)' <=> Started(r)) /\ (CallsLeft(r)' <=> CallsLeft(r))
          /\ (HasRow(r)' <=> HasRow(r))
      BY <2>1 DEF Started, CallsLeft, HasRow
    <3> QED BY <1>0, <2>1, <3>3, <3>4 DEF Billed
  <2> QED BY <2>2, <2>3
<1> QED BY <1>1, <1>2, <1>3 DEF Archiver, InsertFails, Faultless

\* Notes are no concern of the tokens, in the pool and in the row.
LEMMA BilledNotes ==
  ASSUME Billing, Faultless, NEW r \in Requests, phase = "running",
         \/ \E u \in Updates : LookUp(u) \/ Apply(u)
         \/ \E q \in Requests : Expire(q) \/ Leave(q)
         \/ EventProcessor
  PROVE  Billed(r)'
<1>0. TypeOK /\ Billed(r) /\ OnlyNotes
  BY DEF Billing, Delivery, OneCopy, HandOver
<1>1. ASSUME NEW u \in Updates, LookUp(u) \/ Apply(u)
      PROVE  Billed(r)'
  <2>1. UNCHANGED <<handler, place, persisted, row>>
    BY <1>1 DEF LookUp, Apply
  <2>2. mem'[r].status = mem[r].status /\ mem'[r].tokens = mem[r].tokens
    <3>1. mem[r] \in Contents /\ DOMAIN mem = Requests
      BY <1>0 DEF TypeOK
    <3>2. /\ [mem[r] EXCEPT !.notes = @ \cup {u[2]}].status = mem[r].status
          /\ [mem[r] EXCEPT !.notes = @ \cup {u[2]}].tokens = mem[r].tokens
      BY <3>1 DEF Contents
    <3>3. UNCHANGED mem \/ mem' = [mem EXCEPT ![u[1]].notes = @ \cup {u[2]}]
      BY <1>1 DEF LookUp, Apply
    <3> QED BY <3>1, <3>2, <3>3
  <2> QED BY <1>0, <2>1, <2>2, BilledKept
<1>2. ASSUME NEW q \in Requests, Expire(q) \/ Leave(q)
      PROVE  Billed(r)'
  <2>1. UNCHANGED <<handler, place, persisted, row, mem>>
    BY <1>2 DEF Expire, Leave, Faultless
  <2> QED BY <1>0, <2>1, BilledKept
<1>3. ASSUME EventProcessor
      PROVE  Billed(r)'
  <2>1. UNCHANGED <<handler, place, persisted, mem>>
    BY <1>3 DEF EventProcessor, Receive, Tick, WriteEvent, WriteFails, Abort, SeeCancelled,
                LastFlush
  <2>2. UNCHANGED row \/ (ev.at > 0 /\ Write(ev.batch[ev.at]))
    BY <1>3 DEF EventProcessor, Receive, Tick, WriteEvent, WriteFails, Abort, SeeCancelled,
                LastFlush, Flushing
  <2>3. ASSUME ev.at > 0, Write(ev.batch[ev.at])
        PROVE  /\ row'[r].c.status = row[r].c.status /\ row'[r].c.tokens = row[r].c.tokens
               /\ row'[r].cost = row[r].cost
    <3> DEFINE e == ev.batch[ev.at]
    <3>0. ev.at \in 1..Len(ev.batch) /\ e \in Events
      BY <1>0, <2>3 DEF TypeOK, Processors
    <3>1. e \in Events /\ Sent(e)
      BY <3>0 DEF Sent
    <3>2. row' = [row EXCEPT ![e.req] = Written(e)]
      BY <2>3 DEF Write
    <3> HIDE DEF e
    <3>3. e.req \in Requests /\ e.op = "note"
      BY <1>0, <3>1 DEF Events, OnlyNotes
    <3>4. row[r] \in Rows /\ row[r].c \in Contents
      BY <1>0 DEF TypeOK, Rows
    <3>5. Written(e) \in {row[e.req], [row[e.req] EXCEPT !.c.notes = @ \cup e.note]}
      BY <3>3 DEF Written
    <3>6. LET x == [row[r] EXCEPT !.c.notes = @ \cup e.note]
          IN  x.c.status = row[r].c.status /\ x.c.tokens = row[r].c.tokens /\ x.cost = row[r].cost
      BY <3>4 DEF Rows, Contents
    <3>7. row'[r] = IF r = e.req THEN Written(e) ELSE row[r]
      BY <1>0, <3>2, <3>3 DEF TypeOK
    <3> QED BY <3>5, <3>6, <3>7
  <2> QED BY <1>0, <2>1, <2>2, <2>3, BilledKept
<1> QED BY <1>1, <1>2, <1>3

LEMMA OnlyNotesStep ==
  ASSUME Billing, Next, Room, Faultless, phase = "running", phase' = "running", NEW e \in Events,
         Sent(e)'
  PROVE  e.op = "note"
<1>0. TypeOK /\ HandOver /\ (Sent(e) => e.op = "note")
  BY DEF Billing, Delivery, OneCopy, HandOver, OnlyNotes
<1>1. ASSUME NEW u \in Updates, LookUp(u) \/ Apply(u)
      PROVE  e.op = "note"
  <2>1. NoteEvent(u) \in Events /\ NoteEvent(u).op = "note"
    BY EventTypes DEF NoteEvent
  <2>2. CASE Queue(NoteEvent(u))
    BY <1>0, <1>1, <2>1, <2>2, SentByQueue DEF LookUp, Apply
  <2>3. CASE UNCHANGED eventChan
    BY <1>0, <1>1, <2>3 DEF LookUp, Apply, Sent
  <2> QED BY <1>1, <2>2, <2>3 DEF LookUp, Apply
<1>2. ASSUME UNCHANGED <<eventChan, ev>>
      PROVE  e.op = "note"
  BY <1>0, <1>2 DEF Sent
<1>3. ASSUME EventProcessor
      PROVE  e.op = "note"
  BY <1>0, <1>3, SentByProcessor
<1>4. (\E q \in Requests : Handler(q)) => UNCHANGED <<eventChan, ev>>
  BY BilledHandler
<1>5. Archiver \/ Close \/ (\E q \in Requests : Expire(q) \/ Leave(q)) => UNCHANGED <<eventChan, ev>>
  BY DEF Archiver, Take, Commit, Confirm, InsertFails, Close, Cancel, ClosePool,
         CloseArchive, Closes, Leave, Expire
<1> QED BY <1>1, <1>2, <1>3, <1>4, <1>5 DEF Next

LEMMA BillingStep ==
  ASSUME Room, Faultless
  PROVE  Billing /\ [Next]_vars => Billing'
<1> SUFFICES ASSUME Billing, [Next]_vars PROVE Billing'
  OBVIOUS
<1>1. Delivery'
  BY DeliveryStep DEF Billing, Faultless
<1> SUFFICES ASSUME phase' = "running"
             PROVE  OnlyNotes' /\ \A r \in Requests : Billed(r)'
  BY <1>1 DEF Billing
<1>2. CASE UNCHANGED vars
  <2>1. OnlyNotes /\ (OnlyNotes' <=> OnlyNotes)
    BY <1>2 DEF vars, Billing, OnlyNotes, Sent, Events, Open, Closed
  <2>2. \A r \in Requests : Billed(r)'
    BY <1>2, BilledKept DEF vars, Billing
  <2> QED BY <2>1, <2>2
<1>3. CASE Next
  <2>1. phase = "running"
    <3>1. phase' = phase \/ Close
      BY <1>3 DEF Next, Handler, Start, RecordTokens, Move, Finalize, FinalEvent, Expire, Leave,
                  LookUp, Apply, Archiver, Take, Commit, Confirm, InsertFails, EventProcessor,
                  Receive, Tick, WriteEvent, WriteFails, Abort, SeeCancelled, LastFlush
    <3> QED BY <3>1 DEF Close, Cancel, ClosePool, CloseArchive, Closes
  <2>2. ~Close
    BY DEF Close, Cancel, ClosePool, CloseArchive, Closes
  <2>3. OnlyNotes'
    <3>1. \A e \in Events : Sent(e)' => e.op = "note"
      BY <1>3, <2>1, OnlyNotesStep
    <3> QED BY <3>1 DEF OnlyNotes, Events, Open, Closed
  <2>4. ASSUME NEW r \in Requests
        PROVE  Billed(r)'
    <3>1. ASSUME NEW q \in Requests, Handler(q)
          PROVE  Billed(r)'
      <4>1. CASE r = q
        BY <2>1, <3>1, <4>1, BilledHandler
      <4>2. CASE r # q
        <5>1. TypeOK /\ Billed(r)
          BY <2>1 DEF Billing, Delivery, OneCopy, HandOver
        <5>2. handler'[r] = handler[r] /\ place'[r] = place[r] /\ mem'[r] = mem[r]
              /\ UNCHANGED <<persisted, row>>
          BY <3>1, <4>2, <5>1 DEF Handler, Start, RecordTokens, Move, Finalize, FinalEvent,
                                  Called, TypeOK
        <5> QED BY <5>1, <5>2, BilledKept
      <4> QED BY <4>1, <4>2
    <3> QED BY <1>3, <2>1, <2>2, <3>1, BilledArchiver, BilledNotes DEF Next
  <2> QED BY <2>3, <2>4
<1> QED BY <1>2, <1>3

\* When nothing is in flight any more the tokens of every request are in its row with their
\* cost, those of failed requests too, although they and the status are reported by separate
\* calls and the archiver may insert the row before, between and after the other goroutines'
\* updates (RecordFailedRequestTokens, CompleteAndArchive, batchInsert).
THEOREM TokensArrive ==
  ASSUME Room, Faultless
  PROVE  Init /\ [][Next]_vars => []TokensReachTheRow
<1>1. Init => Billing
  BY BillingInit
<1>2. Billing /\ [Next]_vars => Billing'
  BY BillingStep
<1>3. Billing => TokensReachTheRow
  <2> SUFFICES ASSUME Billing, Quiet, NEW r \in Requests,
                      handler[r].outcome \in {"complete", "failTokens", "cancelStream"}
               PROVE  row[r].c.tokens /\ row[r].cost
    BY DEF TokensReachTheRow
  <2>1. /\ TypeOK /\ Delivered(r) /\ Billed(r) /\ phase = "running" /\ ~Waits(r)
        /\ handler[r].next \in Nat
    BY DEF Billing, Delivery, OneCopy, HandOver, Quiet, Waits, Coming, InChan, InBatch, TypeOK
  <2>2. Started(r) /\ ~CallsLeft(r) /\ handler[r].outcome \in Outcomes
    BY <2>1 DEF Quiet, Started, HasEnded, TypeOK
  <2>3. handler[r].next > 1
    <3>1. Len(Calls(handler[r].outcome)) \in {1, 2}
      BY <2>2, SomeCalls
    <3> QED BY <2>1, <2>2, <3>1 DEF CallsLeft
  <2>4. mem[r].tokens = TRUE
    BY <2>1, <2>2, <2>3 DEF Billed, Faultless
  <2>5. place[r] \in {"archiving", "out"} /\ mem[r].status \in Closed
    BY <2>1, <2>2 DEF Delivered, InFinalizer, TypeOK
  <2>6. row[r].c.status \in Closed
    BY <2>1, <2>5 DEF Delivered
  <2>7. HasRow(r)
    BY <2>6 DEF HasRow, Closed
  <2>8. row[r].c.tokens = TRUE /\ row[r].cost = TRUE
    BY <2>1, <2>4, <2>7 DEF Billed
  <2> QED BY <2>8
<1> QED BY <1>1, <1>2, <1>3, PTL
=============================================================================
